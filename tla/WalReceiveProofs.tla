-------------------------- MODULE WalReceiveProofs --------------------------
(***************************************************************************)
(* wal-receive, for every segment size, length of a series, number of      *)
(* timelines and number of deaths: the slot never passes WAL that is not   *)
(* archived.                                                               *)
(***************************************************************************)
EXTENDS WalReceive, WellFoundedInduction, TLAPS

-----------------------------------------------------------------------------
(* Numbers. Start(n) is where segment n begins. *)

Start(n) == n * SegmentSize

LEMMA StartProps ==
    ASSUME NEW n \in Nat
    PROVE  /\ Start(n) \in Nat /\ Start(n + 1) = Start(n) + SegmentSize /\ Start(n) < Start(n) + SegmentSize
           /\ SegmentSize \in Nat \ {0}
  BY ReceiveAssumption DEF Start

LEMMA StartOrder ==
    ASSUME NEW m \in Nat, NEW n \in Nat, m < n
    PROVE  Start(m) + SegmentSize <= Start(n)
<1>1. PICK d \in Nat : n = m + 1 + d
  <2>1. n - m - 1 \in Nat /\ n = m + 1 + (n - m - 1)
    OBVIOUS
  <2> QED BY <2>1
<1>2. PICK S \in Nat \ {0} : S = SegmentSize
  BY ReceiveAssumption
<1>3. n * S = m * S + S + d * S /\ d * S >= 0
  BY <1>1, <1>2
<1> QED BY <1>2, <1>3 DEF Start

LEMMA StartNo ==
    ASSUME NEW lsn \in Nat
    PROVE  /\ SegmentNo(lsn) \in Nat
           /\ Start(SegmentNo(lsn)) <= lsn /\ lsn < Start(SegmentNo(lsn)) + SegmentSize
<1>1. PICK S \in Nat \ {0} : S = SegmentSize
  BY ReceiveAssumption
<1>2. lsn \div S \in Nat /\ (lsn \div S) * S <= lsn /\ lsn < (lsn \div S) * S + S
  OBVIOUS
<1> QED BY <1>1, <1>2 DEF Start, SegmentNo

LEMMA NoWithin ==
    ASSUME NEW n \in Nat, NEW lsn \in Nat, Start(n) <= lsn, lsn < Start(n) + SegmentSize
    PROVE  SegmentNo(lsn) = n
<1> DEFINE k == SegmentNo(lsn)
<1>1. /\ k \in Nat /\ Start(n) \in Nat /\ SegmentSize \in Nat \ {0} /\ Start(k) \in Nat
      /\ Start(k) <= lsn /\ lsn < Start(k) + SegmentSize
  BY StartProps, StartNo, Zenon
<1> HIDE DEF k
<1>2. ~(k < n)
  <2> SUFFICES ASSUME k < n PROVE FALSE
    OBVIOUS
  <2>1. Start(k) + SegmentSize <= Start(n)
    BY <1>1, StartOrder, Zenon
  <2> QED BY <1>1, <2>1
<1>3. ~(n < k)
  <2> SUFFICES ASSUME n < k PROVE FALSE
    OBVIOUS
  <2>1. Start(n) + SegmentSize <= Start(k)
    BY <1>1, StartOrder, Zenon
  <2> QED BY <1>1, <2>1
<1>4. k = n
  BY <1>1, <1>2, <1>3
<1> QED BY <1>4 DEF k

LEMMA NoStart ==
    ASSUME NEW n \in Nat
    PROVE  SegmentNo(Start(n)) = n
<1>1. Start(n) \in Nat /\ Start(n) < Start(n) + SegmentSize
  BY StartProps, Zenon
<1>2. Start(n) <= Start(n)
  BY <1>1
<1> QED BY <1>1, <1>2, NoWithin, Zenon

LEMMA DivMod ==
    ASSUME NEW a \in Nat, NEW K \in Nat \ {0}
    PROVE  /\ a \div K \in Nat /\ a % K \in 0 .. K - 1
           /\ a = K * (a \div K) + (a % K)
  OBVIOUS

\* The last segment of a series has the highest number in it.
LEMMA SeriesEnd ==
    ASSUME NEW a \in Nat, NEW b \in Nat, a \div Series = b \div Series, a % Series = Series - 1
    PROVE  b <= a
<1>1. Series \in Nat \ {0}
  BY ReceiveAssumption
<1>2. /\ a = Series * (a \div Series) + (a % Series) /\ a \div Series \in Nat
      /\ b = Series * (b \div Series) + (b % Series) /\ b % Series \in 0 .. Series - 1
  BY <1>1, DivMod, Zenon
<1>3. PICK p : p = Series * (a \div Series)
  OBVIOUS
<1>4. p \in Nat
  BY <1>1, <1>2, <1>3
<1>5. a = p + (Series - 1) /\ b = p + (b % Series)
  BY <1>2, <1>3, Zenon
<1> QED BY <1>1, <1>2, <1>4, <1>5

LEMMA NatMin ==
    ASSUME NEW T \in SUBSET Nat, T # {}
    PROVE  \E m \in T : \A k \in T : m <= k
<1>1. PICK x \in T : \A y \in T : ~ (<<y, x>> \in OpToRel(<, Nat))
  BY NatLessThanWellFounded, WFMin, Zenon
<1>2. \A y \in T : ~(y < x)
  BY <1>1, Zenon DEF OpToRel
<1> QED BY <1>2

-----------------------------------------------------------------------------
(* The server *)

\* Without "skipped" timelines are numbered one by one; each ended where the server was.
ServerInv ==
    /\ walEnd \in Nat
    /\ timelines \in Seq(Nat) /\ timelines # <<>> /\ \A i \in 1 .. Len(timelines) : timelines[i] = i
    /\ switches \in [1 .. Len(timelines) - 1 -> 0 .. walEnd]
    /\ \A u, v \in 1 .. Len(timelines) - 1 : u <= v => switches[u] <= switches[v]

\* Timeline t wrote the WAL at an LSN: it had not ended there, and those before it had.
WrittenBy(t, lsn) ==
    /\ t \in 1 .. Current
    /\ lsn < EndOf(t)
    /\ \A u \in 1 .. t - 1 : switches[u] <= lsn

LEMMA ServerFacts ==
    ASSUME ServerInv
    PROVE  /\ Current = Len(timelines) /\ Current \in Nat \ {0} /\ Range(timelines) = 1 .. Current
           /\ DOMAIN switches = 1 .. Current - 1
           /\ \A u \in 1 .. Current - 1 : switches[u] \in Nat /\ switches[u] <= walEnd /\ EndOf(u) = switches[u]
           /\ EndOf(Current) = walEnd
           /\ \A t \in 1 .. Current : EndOf(t) \in Nat /\ EndOf(t) <= walEnd
           /\ \A u, t \in 1 .. Current : u <= t => EndOf(u) <= EndOf(t)
<1>1. /\ Len(timelines) \in Nat \ {0} /\ Current = Len(timelines) /\ Range(timelines) = 1 .. Len(timelines)
  <2>1. Len(timelines) \in Nat \ {0} /\ DOMAIN timelines = 1 .. Len(timelines)
    BY DEF ServerInv
  <2>2. Current = Len(timelines)
    BY <2>1 DEF ServerInv, Current
  <2>3. Range(timelines) = 1 .. Len(timelines)
    BY <2>1, Zenon DEF ServerInv, Range
  <2> QED BY <2>1, <2>2, <2>3
<1>2. DOMAIN switches = 1 .. Current - 1
  BY <1>1, Zenon DEF ServerInv
<1>3. \A u \in 1 .. Current - 1 : switches[u] \in Nat /\ switches[u] <= walEnd /\ EndOf(u) = switches[u]
  <2> SUFFICES ASSUME NEW u \in 1 .. Current - 1
               PROVE  switches[u] \in Nat /\ switches[u] <= walEnd /\ EndOf(u) = switches[u]
    OBVIOUS
  <2>1. switches[u] \in 0 .. walEnd /\ walEnd \in Nat
    BY <1>1, Zenon DEF ServerInv
  <2>2. EndOf(u) = switches[u]
    BY <1>2, Zenon DEF EndOf, Ended
  <2> QED BY <2>1, <2>2
<1>4. EndOf(Current) = walEnd
  <2>1. ~(Current \in 1 .. Current - 1)
    BY <1>1
  <2> QED BY <1>2, <2>1, Zenon DEF EndOf, Ended
<1>5. \A t \in 1 .. Current : t = Current \/ t \in 1 .. Current - 1
  BY <1>1
<1>6. walEnd \in Nat /\ walEnd <= walEnd
  BY DEF ServerInv
<1>7. \A t \in 1 .. Current : EndOf(t) \in Nat /\ EndOf(t) <= walEnd
  BY <1>3, <1>4, <1>5, <1>6, Zenon
<1>8. ASSUME NEW u \in 1 .. Current, NEW t \in 1 .. Current, u <= t PROVE EndOf(u) <= EndOf(t)
  <2>1. CASE t = Current
    BY <1>4, <1>7, <2>1, Zenon
  <2>2. CASE t \in 1 .. Current - 1
    <3>1. u \in 1 .. Current - 1
      BY <1>1, <1>8, <2>2
    <3>2. \A a, b \in 1 .. Current - 1 : a <= b => switches[a] <= switches[b]
      BY <1>1, Zenon DEF ServerInv
    <3>3. switches[u] <= switches[t]
      BY <1>8, <2>2, <3>1, <3>2, Zenon
    <3> QED BY <1>3, <2>2, <3>1, <3>3, Zenon
  <2> QED BY <1>5, <2>1, <2>2
<1> QED BY <1>1, <1>2, <1>3, <1>4, <1>7, <1>8, Zenon

LEMMA OneWriter ==
    ASSUME ServerInv, NEW t, NEW u, NEW lsn \in Nat, WrittenBy(t, lsn), WrittenBy(u, lsn)
    PROVE  t = u
<1>1. ASSUME NEW a, NEW b, WrittenBy(a, lsn), WrittenBy(b, lsn), a < b PROVE FALSE
  <2>1. a \in 1 .. Current - 1 /\ a \in 1 .. b - 1
    BY <1>1, ServerFacts DEF WrittenBy
  <2>2. lsn < switches[a] /\ switches[a] <= lsn /\ switches[a] \in Nat
    BY <1>1, <2>1, ServerFacts, Zenon DEF WrittenBy
  <2> QED BY <2>2
<1>2. t \in 1 .. Current /\ u \in 1 .. Current /\ Current \in Nat
  BY ServerFacts, Zenon DEF WrittenBy
<1>3. ~(t < u) /\ ~(u < t)
  BY <1>1, Zenon
<1> QED BY <1>2, <1>3

\* Writer finds it, asked for any timeline that has the LSN.
LEMMA WriterWrites ==
    ASSUME ServerInv, NEW t \in 1 .. Current, NEW lsn \in Nat, lsn < EndOf(t)
    PROVE  WrittenBy(Writer(t, lsn), lsn)
<1> DEFINE line == {u \in DOMAIN switches : u < t /\ lsn < switches[u]} \cup {t}
           w == Writer(t, lsn)
<1>1. line \in SUBSET Nat /\ line # {} /\ t \in Nat /\ Current \in Nat
  BY ServerFacts
<1>2. \E m \in line : \A k \in line : m <= k
  BY <1>1, NatMin, Zenon
<1>3. w \in line /\ \A k \in line : w <= k
  BY <1>2, Zenon DEF Writer
<1>4. w \in 1 .. Current /\ lsn < EndOf(w)
  <2>1. CASE w = t
    BY <2>1
  <2>2. CASE w \in DOMAIN switches /\ w < t /\ lsn < switches[w]
    <3>1. w \in 1 .. Current - 1
      BY <2>2, ServerFacts, Zenon
    <3>2. EndOf(w) = switches[w]
      BY <3>1, ServerFacts, Zenon
    <3>3. w \in 1 .. Current
      BY <1>1, <3>1
    <3> QED BY <2>2, <3>2, <3>3, Zenon
  <2> QED BY <1>3, <2>1, <2>2
<1>5. ASSUME NEW u \in 1 .. w - 1 PROVE switches[u] <= lsn
  <2>1. w \in 1 .. Current /\ w <= t
    BY <1>3, <1>4, Zenon
  <2>2. u \in 1 .. Current - 1 /\ u < t /\ ~(w <= u)
    BY <1>1, <1>5, <2>1
  <2>3. u \in DOMAIN switches /\ switches[u] \in Nat
    BY <2>2, ServerFacts, Zenon
  <2>4. ~(lsn < switches[u])
    BY <1>3, <2>2, <2>3, Zenon
  <2> QED BY <2>3, <2>4
<1> QED BY <1>4, <1>5, Zenon DEF WrittenBy

\* Where getStartTimeline sends the receiver: the timeline has the LSN, or ends with it,
\* and those before it do not.
LEMMA StartTimeline ==
    ASSUME ServerInv, "historyerror" \notin Circumstances,
           NEW lsn \in Nat, lsn <= walEnd, NEW t \in getStartTimeline(lsn)
    PROVE  /\ t \in 1 .. Current /\ lsn <= EndOf(t)
           /\ \A u \in 1 .. t - 1 : switches[u] <= lsn
<1> DEFINE rows == {u \in DOMAIN switches : lsn < switches[u]}
<1>f. Current \in Nat \ {0} /\ DOMAIN switches = 1 .. Current - 1 /\ EndOf(Current) = walEnd
  BY ServerFacts, Zenon
<1>1. CASE Current < 2
  <2>1. t = 1 /\ Current = 1
    BY <1>f, <1>1 DEF getStartTimeline
  <2>2. 1 \in 1 .. 1 /\ 1 .. 1 - 1 = {}
    OBVIOUS
  <2> QED BY <1>f, <2>1, <2>2, Zenon
<1>2. CASE ~(Current < 2) /\ rows = {}
  <2>1. t = Current
    BY <1>2, Zenon DEF getStartTimeline, LSNToTimeLine
  <2>2. Current \in 1 .. Current
    BY <1>f
  <2>3. ASSUME NEW u \in 1 .. Current - 1 PROVE switches[u] <= lsn
    <3>1. ~(lsn < switches[u]) /\ switches[u] \in Nat
      BY <1>f, <1>2, ServerFacts, Zenon
    <3> QED BY <3>1
  <2> QED BY <1>f, <2>1, <2>2, <2>3, Zenon
<1>3. CASE ~(Current < 2) /\ rows # {}
  <2>1. rows \in SUBSET Nat
    BY <1>f
  <2>2. \E m \in rows : \A k \in rows : m <= k
    BY <1>3, <2>1, NatMin, Zenon
  <2>3. t = CHOOSE m \in rows : \A k \in rows : m <= k
    BY <1>3, Zenon DEF getStartTimeline, LSNToTimeLine
  <2>4. t \in rows /\ \A k \in rows : t <= k
    BY <2>2, <2>3, Zenon
  <2>5. t \in 1 .. Current - 1 /\ lsn < switches[t] /\ EndOf(t) = switches[t] /\ switches[t] \in Nat
    BY <1>f, <2>4, ServerFacts, Zenon
  <2>6. ASSUME NEW u \in 1 .. t - 1 PROVE switches[u] <= lsn
    <3>1. u \in 1 .. Current - 1 /\ ~(t <= u)
      BY <1>f, <2>5, <2>6
    <3>2. ~(lsn < switches[u]) /\ switches[u] \in Nat
      BY <1>f, <2>4, <3>1, ServerFacts, Zenon
    <3> QED BY <3>2
  <2>7. t \in 1 .. Current /\ lsn <= switches[t]
    BY <1>f, <2>5
  <2> QED BY <2>5, <2>6, <2>7, Zenon
<1> QED BY <1>1, <1>2, <1>3, Zenon

-----------------------------------------------------------------------------
(* The invariant of the receiver *)

Message == [WALStart : Nat, data : Seq(Nat)]
SegmentType == [TimeLine : Nat, StartLSN : Nat, data : Seq(Nat), lastMsg : Seq(Message)]

\* Data from an LSN on are as their timelines wrote them.
AsWritten(data, lsn) == \A i \in 1 .. Len(data) : WrittenBy(data[i], lsn + i - 1)

HasHistory(t) == t >= 2 => \E h \in 1 .. Current : h >= t /\ History(h) \in other

\* The timelines before t ended before the end of the segment that begins at an LSN.
EndedWithin(t, lsn) == \A u \in 1 .. t - 1 : switches[u] < lsn + SegmentSize

\* Segment g has what the server sent of it up to an LSN; what was sent beyond its end
\* is in lastMsg.
SegmentOk(g, pos, end) ==
    /\ g \in SegmentType /\ g.TimeLine \in 1 .. Current
    /\ pos \in Nat /\ g.StartLSN = Start(SegmentNo(pos))
    /\ Len(g.data) <= SegmentSize /\ AsWritten(g.data, g.StartLSN)
    /\ end \in Nat /\ end <= EndOf(g.TimeLine)
    /\ g.lastMsg = <<>> => end = g.StartLSN + Len(g.data)
    /\ g.lastMsg # <<>> =>
          /\ Len(g.data) = SegmentSize
          /\ g.lastMsg[1].WALStart < endLSN(g) /\ endLSN(g) < end
          /\ g.lastMsg[1].WALStart + Len(g.lastMsg[1].data) = end
          /\ AsWritten(g.lastMsg[1].data, g.lastMsg[1].WALStart)
    /\ EndedWithin(g.TimeLine, g.StartLSN)

\* Where the receiver is. It does not fail unless the history is missing.
PlaceInv ==
    /\ receivePc \in {"stopped", "stream", "upload", "metadata", "copydone"}
    /\ receivePc # "stopped" => SegmentOk(seg, XLogPos, sent) /\ timeline = seg.TimeLine /\ HasHistory(timeline)
    /\ receivePc \in {"stream", "copydone"} => Len(seg.data) < SegmentSize
    /\ receivePc \in {"upload", "metadata"} => Len(seg.data) = SegmentSize
    /\ receivePc = "copydone" => Ended(seg.TimeLine) /\ sent = EndOf(seg.TimeLine)

StoredOk(s) ==
    /\ s \in [TimeLine : Nat, No : Nat, data : Seq(Nat)]
    /\ s.TimeLine \in 1 .. Current /\ Start(s.No) + SegmentSize <= EndOf(s.TimeLine)
    /\ Len(s.data) = SegmentSize /\ AsWritten(s.data, Start(s.No))
    /\ EndedWithin(s.TimeLine, Start(s.No))
    /\ HasHistory(s.TimeLine)

StoredInv == \A s \in stored : StoredOk(s)

Covered(end) == \A lsn \in first .. end - 1 : \E s \in stored : s.No = SegmentNo(lsn)

\* The slot is never ahead of the segment in work, below which everything is stored.
SlotInv ==
    /\ first \in Nat /\ crashes \in Nat
    /\ slot \in {NoSlot, NullSlot} \/ (slot \in Nat /\ slot = Start(SegmentNo(slot)) /\ slot <= walEnd)
    /\ slot = NoSlot => receivePc = "stopped" /\ stored = {}
    /\ Covered(slot)
    /\ receivePc # "stopped" => slot <= seg.StartLSN /\ Covered(seg.StartLSN)
    /\ receivePc = "metadata" => \E s \in stored : s.No = SegmentNo(seg.StartLSN)

\* Metadata sent one by one: a segment without is one that will be received again, for
\* the receiver is not beyond it and no further timeline than its own.
SingleInv ==
    ~Bulk => \A s \in stored :
        \/ Segment(s.TimeLine, s.No) \in meta
        \/ /\ slot <= Start(s.No)
           /\ receivePc # "stopped" => seg.StartLSN <= Start(s.No) /\ seg.TimeLine <= s.TimeLine

\* Segments s of the run that have their metadata written: all but the one in work.
Past(s) == Start(s.No) < seg.StartLSN

SeriesDone(s) ==
    \E last \in stored :
        /\ Past(last) /\ last.TimeLine = s.TimeLine /\ last.No \div Series = s.No \div Series
        /\ last.No % Series = Series - 1

\* Metadata in bulk, before the receiver dies for the first time: they are on disk
\* until the series is done and in storage from then on.
BulkInv ==
    Bulk /\ crashes = 0 =>
        /\ receivePc = "stopped" => stored = {}
        /\ \A s \in stored :
            \/ receivePc = "metadata" /\ Start(s.No) = seg.StartLSN /\ s.TimeLine = seg.TimeLine
            \/ /\ Past(s)
               /\ SeriesDone(s) => Segment(s.TimeLine, s.No) \in meta
               /\ ~SeriesDone(s) => Segment(s.TimeLine, s.No) \in local

ReceiveInv == ServerInv /\ PlaceInv /\ StoredInv /\ SlotInv /\ SingleInv /\ BulkInv

-----------------------------------------------------------------------------
(* What steps of the server keep *)

Grown ==
    /\ ServerInv' /\ Current <= Current' /\ walEnd <= walEnd'
    /\ \A t \in 1 .. Current : t \in (1 .. Current)' /\ EndOf(t) <= EndOf(t)' /\ EndOf(t)' \in Nat
    /\ \A u \in 1 .. Current - 1 :
          u \in (1 .. Current - 1)' /\ Ended(u)' /\ switches'[u] = switches[u] /\ EndOf(u)' = EndOf(u)

LEMMA ServerGrows ==
    ASSUME "skipped" \notin Circumstances, ServerInv, ServerWrite \/ Promote \/ UNCHANGED server
    PROVE  Grown
<1>f. /\ Current = Len(timelines) /\ Current \in Nat \ {0} /\ DOMAIN switches = 1 .. Current - 1
      /\ walEnd \in Nat /\ EndOf(Current) = walEnd
      /\ \A u \in 1 .. Current - 1 : switches[u] \in Nat /\ switches[u] <= walEnd /\ EndOf(u) = switches[u]
      /\ \A t \in 1 .. Current : EndOf(t) \in Nat
  BY ServerFacts, Zenon DEF ServerInv
<1>1. CASE UNCHANGED server
  <2>1. ServerInv' /\ Current' = Current /\ walEnd' = walEnd /\ switches' = switches
    BY <1>1, Zenon DEF server, ServerInv, Current
  <2>2. \A t : EndOf(t)' = EndOf(t) /\ (t \in 1 .. Current - 1 => Ended(t)')
    BY <1>f, <1>1, Zenon DEF server, EndOf, Ended
  <2>3. Current <= Current /\ walEnd <= walEnd /\ \A t \in 1 .. Current : EndOf(t) <= EndOf(t)
    BY <1>f
  <2> QED BY <1>f, <2>1, <2>2, <2>3, Zenon DEF Grown
<1>2. CASE ServerWrite
  <2>1. /\ walEnd' = walEnd + 1 /\ switches' = switches /\ timelines' = timelines /\ Current' = Current
    BY <1>2, Zenon DEF ServerWrite, Current
  <2>2. walEnd' \in Nat /\ walEnd <= walEnd' /\ \A k \in Nat : k <= walEnd => k <= walEnd'
    BY <1>f, <2>1
  <2>3. ServerInv'
    <3>1. switches' \in [1 .. Len(timelines) - 1 -> 0 .. walEnd']
      <4>1. \A k \in 0 .. walEnd : k \in 0 .. walEnd'
        BY <1>f, <2>1
      <4> QED BY <2>1, <4>1, Zenon DEF ServerInv
    <3> QED BY <2>1, <2>2, <3>1, Zenon DEF ServerInv
  <2>4. ASSUME NEW u \in 1 .. Current - 1 PROVE EndOf(u)' = EndOf(u) /\ Ended(u)'
    BY <1>f, <2>1, Zenon DEF EndOf, Ended
  <2>5. ASSUME NEW t, t = Current PROVE EndOf(t)' = walEnd'
    <3>1. ~(t \in 1 .. Current - 1)
      BY <1>f, <2>5
    <3> QED BY <1>f, <2>1, <3>1, Zenon DEF EndOf, Ended
  <2>6. ASSUME NEW t \in 1 .. Current PROVE EndOf(t) <= EndOf(t)' /\ EndOf(t)' \in Nat
    <3>1. CASE t = Current
      BY <1>f, <2>2, <2>5, <3>1, Zenon
    <3>2. CASE t \in 1 .. Current - 1
      <4>1. EndOf(t)' = EndOf(t) /\ EndOf(t) \in Nat
        BY <1>f, <2>4, <3>2, Zenon
      <4> QED BY <4>1
    <3>3. t = Current \/ t \in 1 .. Current - 1
      BY <1>f
    <3> QED BY <3>1, <3>2, <3>3
  <2>7. Current <= Current'
    BY <1>f, <2>1
  <2> QED BY <2>1, <2>2, <2>3, <2>4, <2>6, <2>7, Zenon DEF Grown
<1>3. CASE Promote
  <2> DEFINE n == Len(timelines)
  <2>1. /\ timelines' = Append(timelines, n + 1) /\ walEnd' = walEnd
        /\ switches' = [u \in DOMAIN switches \cup {n} |-> IF u = n THEN walEnd ELSE switches[u]]
    BY <1>f, <1>3, Zenon DEF Promote
  <2>2. /\ timelines' \in Seq(Nat) /\ timelines' # <<>> /\ Len(timelines') = n + 1
        /\ \A i \in 1 .. Len(timelines') : timelines'[i] = i
    BY <2>1 DEF ServerInv
  <2>3. Current' = n + 1 /\ n \in Nat \ {0} /\ Current = n
    BY <1>f, <2>2 DEF Current
  <2>4. DOMAIN switches' = 1 .. n /\ DOMAIN switches \cup {n} = 1 .. n
    BY <1>f, <2>1, <2>3
  <2>5. switches'[n] = walEnd /\ \A u \in 1 .. n - 1 : switches'[u] = switches[u]
    BY <1>f, <2>1, <2>3
  <2>6. walEnd \in 0 .. walEnd /\ walEnd <= walEnd /\ \A u \in 1 .. n : u = n \/ u \in 1 .. n - 1
    BY <1>f, <2>3
  <2>7. \A u \in 1 .. n - 1 : switches[u] \in 0 .. walEnd
    BY <2>3, Zenon DEF ServerInv
  <2>8. switches' \in [1 .. n -> 0 .. walEnd]
    BY <2>1, <2>4, <2>6, <2>7, Zenon
  <2>9. ASSUME NEW u \in 1 .. n, NEW v \in 1 .. n, u <= v PROVE switches'[u] <= switches'[v]
    <3>1. CASE v = n
      BY <1>f, <2>3, <2>5, <2>6, <3>1, Zenon
    <3>2. CASE v \in 1 .. n - 1
      <4>1. u \in 1 .. n - 1
        BY <2>3, <2>9, <3>2
      <4>2. switches[u] <= switches[v]
        BY <2>9, <3>2, <4>1, Zenon DEF ServerInv
      <4> QED BY <2>5, <3>2, <4>1, <4>2, Zenon
    <3> QED BY <2>6, <3>1, <3>2
  <2>10. (n + 1) - 1 = n /\ n <= n + 1 /\ \A t \in 1 .. n : t \in 1 .. n + 1
    BY <2>3
  <2>11. ServerInv'
    BY <1>f, <2>1, <2>2, <2>8, <2>9, <2>10, Zenon DEF ServerInv
  <2>12. ASSUME NEW t \in 1 .. n PROVE EndOf(t)' = EndOf(t) /\ Ended(t)'
    <3>1. EndOf(t)' = switches'[t] /\ Ended(t)'
      BY <2>4, Zenon DEF EndOf, Ended
    <3> QED BY <1>f, <2>3, <2>5, <2>6, <3>1, Zenon
  <2>13. \A t \in 1 .. n : EndOf(t) <= EndOf(t) /\ EndOf(t) \in Nat
    BY <1>f, <2>3
  <2>14. \A u \in 1 .. n - 1 : u \in 1 .. n
    BY <2>3
  <2> HIDE DEF n
  <2> QED BY <2>1, <2>3, <2>5, <2>6, <2>10, <2>11, <2>12, <2>13, <2>14, Zenon DEF Grown
<1> QED BY <1>1, <1>2, <1>3

LEMMA WrittenStays ==
    ASSUME ServerInv, Grown, NEW t, NEW lsn \in Nat, WrittenBy(t, lsn)
    PROVE  WrittenBy(t, lsn)'
<1>1. t \in 1 .. Current /\ lsn < EndOf(t) /\ EndOf(t) \in Nat /\ Current \in Nat
  BY ServerFacts, Zenon DEF WrittenBy
<1>2. t \in (1 .. Current)' /\ EndOf(t) <= EndOf(t)' /\ EndOf(t)' \in Nat
  BY <1>1, Zenon DEF Grown
<1>3. lsn < EndOf(t)'
  BY <1>1, <1>2
<1>4. ASSUME NEW u \in 1 .. t - 1 PROVE switches'[u] <= lsn
  <2>1. u \in 1 .. Current - 1
    BY <1>1
  <2> QED BY <2>1, Zenon DEF Grown, WrittenBy
<1> QED BY <1>2, <1>3, <1>4, Zenon DEF WrittenBy

LEMMA AsWrittenStays ==
    ASSUME ServerInv, Grown, NEW d \in Seq(Nat), NEW lsn \in Nat, AsWritten(d, lsn)
    PROVE  AsWritten(d, lsn)'
<1> SUFFICES ASSUME NEW i \in 1 .. Len(d) PROVE WrittenBy(d[i], lsn + i - 1)'
  BY Zenon DEF AsWritten
<1>1. lsn + i - 1 \in Nat
  OBVIOUS
<1>2. WrittenBy(d[i], lsn + i - 1)
  BY Zenon DEF AsWritten
<1> QED BY <1>1, <1>2, WrittenStays, Zenon

LEMMA WithinStays ==
    ASSUME ServerInv, Grown, NEW t \in 1 .. Current, NEW lsn \in Nat, EndedWithin(t, lsn)
    PROVE  EndedWithin(t, lsn)'
<1> SUFFICES ASSUME NEW u \in 1 .. t - 1 PROVE switches'[u] < lsn + SegmentSize
  BY Zenon DEF EndedWithin
<1>1. Current \in Nat
  BY ServerFacts, Zenon
<1>2. u \in 1 .. Current - 1
  BY <1>1
<1> QED BY <1>2, Zenon DEF Grown, EndedWithin

LEMMA HistoryStays ==
    ASSUME Grown, other \subseteq other', NEW t, HasHistory(t)
    PROVE  HasHistory(t)'
  BY Zenon DEF HasHistory, Grown, History

LEMMA StoredStays ==
    ASSUME ServerInv, Grown, other \subseteq other', NEW s, StoredOk(s)
    PROVE  StoredOk(s)'
<1>1. /\ s \in [TimeLine : Nat, No : Nat, data : Seq(Nat)] /\ s.TimeLine \in 1 .. Current
      /\ Start(s.No) + SegmentSize <= EndOf(s.TimeLine)
      /\ Len(s.data) = SegmentSize /\ AsWritten(s.data, Start(s.No))
      /\ EndedWithin(s.TimeLine, Start(s.No)) /\ HasHistory(s.TimeLine)
  BY Zenon DEF StoredOk
<1>2. s.No \in Nat /\ s.data \in Seq(Nat)
  BY <1>1
<1>3. Start(s.No) \in Nat /\ SegmentSize \in Nat
  BY <1>2, StartProps, Zenon
<1>4. /\ s.TimeLine \in (1 .. Current)' /\ EndOf(s.TimeLine) <= EndOf(s.TimeLine)' /\ EndOf(s.TimeLine)' \in Nat
      /\ EndOf(s.TimeLine) \in Nat
  BY <1>1, ServerFacts, Zenon DEF Grown
<1>5. Start(s.No) + SegmentSize <= EndOf(s.TimeLine)'
  BY <1>1, <1>3, <1>4
<1>6. AsWritten(s.data, Start(s.No))'
  BY <1>1, <1>2, <1>3, AsWrittenStays, Zenon
<1>7. EndedWithin(s.TimeLine, Start(s.No))' /\ HasHistory(s.TimeLine)'
  BY <1>1, <1>3, WithinStays, HistoryStays, Zenon
<1> QED BY <1>1, <1>4, <1>5, <1>6, <1>7, Zenon DEF StoredOk

LEMMA SegmentFields ==
    ASSUME NEW g \in SegmentType
    PROVE  /\ g.TimeLine \in Nat /\ g.StartLSN \in Nat /\ g.data \in Seq(Nat) /\ Len(g.data) \in Nat
           /\ g.lastMsg \in Seq(Message)
           /\ g.lastMsg # <<>> =>
                /\ g.lastMsg[1] \in Message /\ g.lastMsg[1].data \in Seq(Nat) /\ g.lastMsg[1].WALStart \in Nat
                /\ Len(g.lastMsg[1].data) \in Nat
<1>1. /\ g.TimeLine \in Nat /\ g.StartLSN \in Nat /\ g.data \in Seq(Nat) /\ g.lastMsg \in Seq(Message)
  BY Zenon DEF SegmentType
<1>2. \A d \in Seq(Nat) : Len(d) \in Nat
  OBVIOUS
<1>3. ASSUME NEW l \in Seq(Message), l # <<>> PROVE l[1] \in Message
  BY <1>3
<1>4. \A m \in Message : m.data \in Seq(Nat) /\ m.WALStart \in Nat
  BY Zenon DEF Message
<1> QED BY <1>1, <1>2, <1>3, <1>4, Zenon

LEMMA SegmentStays ==
    ASSUME ServerInv, Grown, NEW g, NEW pos, NEW end, SegmentOk(g, pos, end)
    PROVE  SegmentOk(g, pos, end)'
<1>1. /\ g \in SegmentType /\ g.TimeLine \in 1 .. Current /\ AsWritten(g.data, g.StartLSN)
      /\ end \in Nat /\ end <= EndOf(g.TimeLine)
      /\ g.lastMsg # <<>> => AsWritten(g.lastMsg[1].data, g.lastMsg[1].WALStart)
      /\ EndedWithin(g.TimeLine, g.StartLSN)
  BY Zenon DEF SegmentOk
<1>2. /\ g.StartLSN \in Nat /\ g.data \in Seq(Nat) /\ g.lastMsg \in Seq(Message)
      /\ g.lastMsg # <<>> => g.lastMsg[1].data \in Seq(Nat) /\ g.lastMsg[1].WALStart \in Nat
  BY <1>1, SegmentFields, Zenon
<1>3. /\ g.TimeLine \in (1 .. Current)' /\ EndOf(g.TimeLine) <= EndOf(g.TimeLine)' /\ EndOf(g.TimeLine)' \in Nat
      /\ EndOf(g.TimeLine) \in Nat
  BY <1>1, ServerFacts, Zenon DEF Grown
<1>4. end <= EndOf(g.TimeLine)'
  BY <1>1, <1>3
<1>5. AsWritten(g.data, g.StartLSN)' /\ (g.lastMsg # <<>> => AsWritten(g.lastMsg[1].data, g.lastMsg[1].WALStart)')
  BY <1>1, <1>2, AsWrittenStays, Zenon
<1>6. EndedWithin(g.TimeLine, g.StartLSN)'
  BY <1>1, <1>2, WithinStays, Zenon
<1> QED BY <1>1, <1>3, <1>4, <1>5, <1>6, Zenon DEF SegmentOk, endLSN

-----------------------------------------------------------------------------
(* Messages *)

LEMMA PlusNat == \A a, b \in Nat : a + b \in Nat /\ ~(a <= b /\ b < a) /\ (a > b => b <= a)
  OBVIOUS

\* Where a message of n units from w on meets a segment that has b of S units from a on.
Meets(a, b, w, n, S, off) ==
    /\ off \in Nat /\ off < n /\ w + off = a + b /\ S - b \in Nat \ {0}
    /\ ~(w > a + S \/ w + n < a)
    /\ n - off > S - b <=> a + S < w + n
    /\ n - off > S - b => b + (S - b) = S
    /\ ~(n - off > S - b) => b + (n - off) <= S /\ w + n = a + (b + (n - off)) /\ w + n <= a + S

LEMMA MessageNumbers ==
    ASSUME NEW a \in Nat, NEW b \in Nat, NEW w \in Nat, NEW n \in Nat, NEW S \in Nat \ {0},
           b < S, a + b < w + n, w = a + b \/ (b = 0 /\ w < a),
           NEW off, off = IF w < a THEN a - w ELSE 0
    PROVE  Meets(a, b, w, n, S, off)
  BY DEF Meets

LEMMA TailOf ==
    ASSUME NEW d \in Seq(Nat), NEW k \in Nat, k < Len(d)
    PROVE  /\ SubSeq(d, k + 1, Len(d)) \in Seq(Nat) /\ Len(SubSeq(d, k + 1, Len(d))) = Len(d) - k
           /\ \A i \in 1 .. Len(d) - k : SubSeq(d, k + 1, Len(d))[i] = d[k + i]
  OBVIOUS

LEMMA HeadOf ==
    ASSUME NEW d \in Seq(Nat), NEW k \in Nat, k <= Len(d)
    PROVE  /\ SubSeq(d, 1, k) \in Seq(Nat) /\ Len(SubSeq(d, 1, k)) = k
           /\ \A i \in 1 .. k : SubSeq(d, 1, k)[i] = d[i]
  OBVIOUS

LEMMA Joined ==
    ASSUME NEW c \in Seq(Nat), NEW d \in Seq(Nat)
    PROVE  /\ c \o d \in Seq(Nat) /\ Len(c \o d) = Len(c) + Len(d)
           /\ \A i \in 1 .. Len(c) : (c \o d)[i] = c[i]
           /\ \A i \in 1 .. Len(c) + Len(d) : i \notin 1 .. Len(c) =>
                 i - Len(c) \in 1 .. Len(d) /\ (c \o d)[i] = d[i - Len(c)]
  OBVIOUS

\* Data that go on after data.
LEMMA WrittenJoined ==
    ASSUME NEW c \in Seq(Nat), NEW d \in Seq(Nat), NEW lsn \in Nat,
           AsWritten(c, lsn), AsWritten(d, lsn + Len(c))
    PROVE  AsWritten(c \o d, lsn)
<1> SUFFICES ASSUME NEW i \in 1 .. Len(c \o d) PROVE WrittenBy((c \o d)[i], lsn + i - 1)
  BY Zenon DEF AsWritten
<1>1. i \in 1 .. Len(c) + Len(d) /\ Len(c) \in Nat
  BY Joined
<1>2. CASE i \in 1 .. Len(c)
  BY <1>2, Joined, Zenon DEF AsWritten
<1>3. CASE i \notin 1 .. Len(c)
  <2>1. i - Len(c) \in 1 .. Len(d) /\ (c \o d)[i] = d[i - Len(c)]
    BY <1>1, <1>3, Joined, Zenon
  <2>2. lsn + Len(c) + (i - Len(c)) - 1 = lsn + i - 1
    BY <1>1
  <2>3. WrittenBy(d[i - Len(c)], lsn + Len(c) + (i - Len(c)) - 1)
    BY <2>1, Zenon DEF AsWritten
  <2> QED BY <2>1, <2>2, <2>3, Zenon
<1> QED BY <1>2, <1>3

\* Data from which a beginning is cut off.
LEMMA WrittenTail ==
    ASSUME NEW d \in Seq(Nat), NEW lsn \in Nat, NEW k \in Nat, k < Len(d), AsWritten(d, lsn)
    PROVE  AsWritten(SubSeq(d, k + 1, Len(d)), lsn + k)
<1> DEFINE t == SubSeq(d, k + 1, Len(d))
<1>1. Len(t) = Len(d) - k /\ \A i \in 1 .. Len(d) - k : t[i] = d[k + i]
  BY TailOf, Zenon
<1> HIDE DEF t
<1> SUFFICES ASSUME NEW i \in 1 .. Len(t) PROVE WrittenBy(t[i], lsn + k + i - 1)
  BY Zenon DEF AsWritten, t
<1>2. t[i] = d[k + i]
  BY <1>1, Zenon
<1>3. k + i \in 1 .. Len(d) /\ lsn + k + i - 1 = lsn + (k + i) - 1
  <2>1. Len(d) \in Nat
    OBVIOUS
  <2> QED BY <1>1, <2>1
<1>4. WrittenBy(d[k + i], lsn + (k + i) - 1)
  BY <1>3, Zenon DEF AsWritten
<1> QED BY <1>2, <1>3, <1>4, Zenon

LEMMA WrittenHead ==
    ASSUME NEW d \in Seq(Nat), NEW lsn \in Nat, NEW k \in Nat, k <= Len(d), AsWritten(d, lsn)
    PROVE  AsWritten(SubSeq(d, 1, k), lsn)
<1>1. Len(SubSeq(d, 1, k)) = k /\ \A i \in 1 .. k : SubSeq(d, 1, k)[i] = d[i]
  BY HeadOf, Zenon
<1>2. \A i \in 1 .. k : i \in 1 .. Len(d)
  OBVIOUS
<1> QED BY <1>1, <1>2, Zenon DEF AsWritten

\* A message that goes on where the segment ends, or began before an empty segment: the
\* segment takes its part, and keeps the message if there is more.
LEMMA MessageTaken ==
    ASSUME NEW g \in SegmentType, g.lastMsg = <<>>, Len(g.data) < SegmentSize,
           NEW m \in Message, g.StartLSN + Len(g.data) < m.WALStart + Len(m.data),
           \/ m.WALStart = g.StartLSN + Len(g.data)
           \/ g.data = <<>> /\ m.WALStart < g.StartLSN,
           AsWritten(g.data, g.StartLSN), AsWritten(m.data, m.WALStart)
    PROVE  LET r == processMessage(g, m).seg
               end == m.WALStart + Len(m.data)
           IN  /\ processMessage(g, m).result = "ok"
               /\ r \in SegmentType /\ r.TimeLine = g.TimeLine /\ r.StartLSN = g.StartLSN
               /\ Len(r.data) <= SegmentSize /\ AsWritten(r.data, r.StartLSN)
               /\ end <= endLSN(g) => r.lastMsg = <<>> /\ end = r.StartLSN + Len(r.data)
               /\ endLSN(g) < end => r.lastMsg = <<m>> /\ Len(r.data) = SegmentSize
<1> DEFINE off == IF m.WALStart < g.StartLSN THEN g.StartLSN - m.WALStart ELSE 0
           mine == SubSeq(m.data, off + 1, Len(m.data))
           room == SegmentSize - Len(g.data)
           part == IF Len(mine) > room THEN SubSeq(mine, 1, room) ELSE mine
           lastm == IF Len(mine) > room THEN <<m>> ELSE <<>>
           r == [g EXCEPT !.data = g.data \o part, !.lastMsg = lastm]
<1>1. /\ g.StartLSN \in Nat /\ g.data \in Seq(Nat) /\ m.WALStart \in Nat /\ m.data \in Seq(Nat)
      /\ Len(g.data) \in Nat /\ Len(m.data) \in Nat /\ SegmentSize \in Nat \ {0}
  <2>1. m.data \in Seq(Nat) /\ m.WALStart \in Nat
    BY Zenon DEF Message
  <2>2. SegmentSize \in Nat \ {0}
    BY ReceiveAssumption
  <2>3. Len(m.data) \in Nat
    BY <2>1
  <2> QED BY <2>1, <2>2, <2>3, SegmentFields, Zenon
<1>l. /\ Len(g.data) < SegmentSize /\ g.StartLSN + Len(g.data) < m.WALStart + Len(m.data)
      /\ m.WALStart = g.StartLSN + Len(g.data) \/ (Len(g.data) = 0 /\ m.WALStart < g.StartLSN)
  <2>1. Len(<<>>) = 0
    OBVIOUS
  <2> QED BY <2>1, Zenon
<1>o. off = IF m.WALStart < g.StartLSN THEN g.StartLSN - m.WALStart ELSE 0
  BY Zenon
<1>7. g.StartLSN + Len(g.data) = m.WALStart + off /\ ~(m.WALStart > endLSN(g) \/ m.WALStart + Len(m.data) < g.StartLSN)
        => processMessage(g, m).result = "ok" /\ processMessage(g, m).seg = r
  BY Zenon DEF processMessage
<1> HIDE DEF off
<1>2. /\ off \in Nat /\ off < Len(m.data) /\ m.WALStart + off = g.StartLSN + Len(g.data) /\ room \in Nat \ {0}
      /\ ~(m.WALStart > g.StartLSN + SegmentSize \/ m.WALStart + Len(m.data) < g.StartLSN)
      /\ Len(m.data) - off > room <=> g.StartLSN + SegmentSize < m.WALStart + Len(m.data)
      /\ Len(m.data) - off > room => Len(g.data) + room = SegmentSize
      /\ ~(Len(m.data) - off > room) =>
            /\ Len(g.data) + (Len(m.data) - off) <= SegmentSize
            /\ m.WALStart + Len(m.data) = g.StartLSN + (Len(g.data) + (Len(m.data) - off))
            /\ m.WALStart + Len(m.data) <= g.StartLSN + SegmentSize
  <2>1. Meets(g.StartLSN, Len(g.data), m.WALStart, Len(m.data), SegmentSize, off)
    BY <1>1, <1>l, <1>o, MessageNumbers, Zenon
  <2> QED BY <2>1, Zenon DEF Meets
<1>3. mine \in Seq(Nat) /\ Len(mine) = Len(m.data) - off /\ AsWritten(mine, g.StartLSN + Len(g.data))
  <2>1. mine \in Seq(Nat) /\ Len(mine) = Len(m.data) - off /\ AsWritten(mine, m.WALStart + off)
    BY <1>1, <1>2, TailOf, WrittenTail, Zenon
  <2> QED BY <1>2, <2>1, Zenon
<1>6. m.WALStart + Len(m.data) \in Nat /\ g.StartLSN + SegmentSize \in Nat /\ g.StartLSN + Len(g.data) \in Nat
  BY <1>1, PlusNat, Zenon
<1> HIDE DEF mine, room
<1>4. /\ part \in Seq(Nat) /\ AsWritten(part, g.StartLSN + Len(g.data))
      /\ Len(mine) > room => Len(part) = room
      /\ ~(Len(mine) > room) => Len(part) = Len(mine)
  <2>1. CASE Len(mine) > room
    <3>1. room \in Nat /\ room <= Len(mine) /\ g.StartLSN + Len(g.data) \in Nat
      <4>1. room \in Nat /\ mine \in Seq(Nat)
        BY <1>2, <1>3, Zenon
      <4>2. room <= Len(mine)
        <5>1. Len(mine) \in Nat
          BY <4>1
        <5> QED BY <2>1, <4>1, <5>1, PlusNat, Zenon
      <4> QED BY <1>6, <4>1, <4>2, Zenon
    <3> QED BY <1>3, <2>1, <3>1, HeadOf, WrittenHead, Zenon
  <2>2. CASE ~(Len(mine) > room)
    BY <1>3, <2>2, Zenon
  <2> QED BY <2>1, <2>2
<1> HIDE DEF part
<1>5. g.data \o part \in Seq(Nat) /\ Len(g.data \o part) = Len(g.data) + Len(part) /\ AsWritten(g.data \o part, g.StartLSN)
  BY <1>1, <1>4, Joined, WrittenJoined, Zenon
<1>8. /\ r.data = g.data \o part /\ r.lastMsg = lastm /\ r.TimeLine = g.TimeLine /\ r.StartLSN = g.StartLSN
  BY Zenon DEF SegmentType
<1>9. r \in SegmentType
  <2>1. <<m>> \in Seq(Message) /\ <<>> \in Seq(Message)
    OBVIOUS
  <2> QED BY <1>5, <2>1, Zenon DEF SegmentType
<1>10. SegmentSize <= SegmentSize
  BY <1>1
<1>11. ~(m.WALStart + Len(m.data) <= g.StartLSN + SegmentSize /\ g.StartLSN + SegmentSize < m.WALStart + Len(m.data))
  BY <1>6, PlusNat, Zenon
<1> HIDE DEF r
<1> QED BY <1>2, <1>3, <1>4, <1>5, <1>7, <1>8, <1>9, <1>10, <1>11, Zenon DEF endLSN

-----------------------------------------------------------------------------
(* The steps *)

LEMMA SegmentFacts ==
    ASSUME NEW g, NEW pos, NEW end, SegmentOk(g, pos, end)
    PROVE  /\ SegmentNo(pos) \in Nat /\ SegmentNo(g.StartLSN) = SegmentNo(pos)
           /\ g.StartLSN = Start(SegmentNo(g.StartLSN)) /\ g.StartLSN \in Nat
           /\ g \in SegmentType /\ g.TimeLine \in 1 .. Current
           /\ end \in Nat /\ g.StartLSN + Len(g.data) <= end /\ g.StartLSN <= end
           /\ SegmentSize \in Nat \ {0} /\ Len(g.data) \in Nat
<1>1. /\ g \in SegmentType /\ pos \in Nat /\ g.StartLSN = Start(SegmentNo(pos)) /\ g.TimeLine \in 1 .. Current
      /\ end \in Nat /\ Len(g.data) <= SegmentSize
      /\ g.lastMsg = <<>> => end = g.StartLSN + Len(g.data)
      /\ g.lastMsg # <<>> => endLSN(g) < end
  BY Zenon DEF SegmentOk
<1>2. SegmentNo(pos) \in Nat /\ SegmentNo(g.StartLSN) = SegmentNo(pos)
  BY <1>1, StartNo, NoStart, Zenon
<1>3. g.StartLSN \in Nat /\ Len(g.data) \in Nat /\ SegmentSize \in Nat \ {0}
  BY <1>1, <1>2, SegmentFields, StartProps, Zenon
<1>4. ASSUME NEW a \in Nat, NEW b \in Nat, NEW S \in Nat, NEW e \in Nat, b <= S, e = a + b \/ a + S < e
      PROVE  a + b <= e /\ a <= e
  BY <1>4
<1>5. end = g.StartLSN + Len(g.data) \/ g.StartLSN + SegmentSize < end
  BY <1>1, Zenon DEF endLSN
<1>6. g.StartLSN + Len(g.data) <= end /\ g.StartLSN <= end
  BY <1>1, <1>3, <1>4, <1>5, Zenon
<1> QED BY <1>1, <1>2, <1>3, <1>6, Zenon

LEMMA StoredKept ==
    ASSUME ReceiveInv, Grown, other \subseteq other', UNCHANGED stored
    PROVE  StoredInv'
  BY StoredStays, Zenon DEF ReceiveInv, StoredInv

\* Steps that leave the slot, the storage and the segment's place alone.
LEMMA PlaceKept ==
    ASSUME ReceiveInv, Grown, UNCHANGED <<slot, stored, local, meta, first, crashes>>,
           seg'.StartLSN = seg.StartLSN, seg'.TimeLine = seg.TimeLine,
           (receivePc = "stopped") = (receivePc' = "stopped"), (receivePc = "metadata") = (receivePc' = "metadata")
    PROVE  SlotInv' /\ SingleInv' /\ BulkInv'
<1>1. SlotInv'
  <2>1. slot \in Nat /\ slot <= walEnd => slot <= walEnd'
    <3>1. walEnd \in Nat /\ walEnd' \in Nat /\ walEnd <= walEnd'
      BY Zenon DEF ReceiveInv, ServerInv, Grown
    <3> QED BY <3>1
  <2> QED BY <2>1, Zenon DEF ReceiveInv, SlotInv, Covered
<1>2. SingleInv'
  BY Zenon DEF ReceiveInv, SingleInv
<1>3. BulkInv'
  BY Zenon DEF ReceiveInv, BulkInv, Past, SeriesDone
<1> QED BY <1>1, <1>2, <1>3

LEMMA ServerStep ==
    ASSUME "skipped" \notin Circumstances, ReceiveInv, ServerWrite \/ Promote
    PROVE  ReceiveInv'
<1>1. /\ UNCHANGED <<slot, receivePc, timeline, XLogPos, seg, sent, stored, other, local, meta, first, crashes>>
  BY Zenon DEF ServerWrite, Promote
<1>2. ServerInv /\ Grown
  BY ServerGrows, Zenon DEF ReceiveInv
<1>3. SlotInv' /\ SingleInv' /\ BulkInv'
  BY <1>1, <1>2, PlaceKept, Zenon
<1>4. StoredInv'
  BY <1>1, <1>2, StoredKept, Zenon
<1>5. PlaceInv'
  <2>1. PICK g, pos, end, t : g = seg /\ pos = XLogPos /\ end = sent /\ t = timeline
    OBVIOUS
  <2>2. receivePc # "stopped" => SegmentOk(g, pos, end)' /\ HasHistory(t)'
    BY <1>1, <1>2, <2>1, SegmentStays, HistoryStays, Zenon DEF ReceiveInv, PlaceInv
  <2>3. receivePc = "copydone" => Ended(g.TimeLine)' /\ end = EndOf(g.TimeLine)'
    <3>1. DOMAIN switches = 1 .. Current - 1
      BY <1>2, ServerFacts, Zenon
    <3> QED BY <1>2, <2>1, <3>1, Zenon DEF Grown, ReceiveInv, PlaceInv, Ended
  <2> QED BY <1>1, <2>1, <2>2, <2>3, Zenon DEF ReceiveInv, PlaceInv
<1> QED BY <1>2, <1>3, <1>4, <1>5, Zenon DEF ReceiveInv, Grown

\* A segment that has taken a message which the server had.
LEMMA TakenOk ==
    ASSUME ServerInv, NEW g \in SegmentType, g.lastMsg = <<>>, Len(g.data) < SegmentSize,
           NEW m \in Message, g.StartLSN + Len(g.data) < m.WALStart + Len(m.data),
           \/ m.WALStart = g.StartLSN + Len(g.data)
           \/ g.data = <<>> /\ m.WALStart < g.StartLSN,
           AsWritten(g.data, g.StartLSN), AsWritten(m.data, m.WALStart),
           g.TimeLine \in 1 .. Current, NEW pos \in Nat, g.StartLSN = Start(SegmentNo(pos)),
           EndedWithin(g.TimeLine, g.StartLSN), m.WALStart + Len(m.data) <= EndOf(g.TimeLine)
    PROVE  /\ processMessage(g, m).result = "ok"
           /\ SegmentOk(processMessage(g, m).seg, pos, m.WALStart + Len(m.data))
           /\ processMessage(g, m).seg.TimeLine = g.TimeLine /\ processMessage(g, m).seg.StartLSN = g.StartLSN
<1>1. PICK r, end : r = processMessage(g, m).seg /\ end = m.WALStart + Len(m.data)
  OBVIOUS
<1>2. /\ processMessage(g, m).result = "ok"
      /\ r \in SegmentType /\ r.TimeLine = g.TimeLine /\ r.StartLSN = g.StartLSN
      /\ Len(r.data) <= SegmentSize /\ AsWritten(r.data, r.StartLSN)
      /\ end <= endLSN(g) => r.lastMsg = <<>> /\ end = r.StartLSN + Len(r.data)
      /\ endLSN(g) < end => r.lastMsg = <<m>> /\ Len(r.data) = SegmentSize
  BY <1>1, MessageTaken, Zenon
<1>3. /\ g.StartLSN \in Nat /\ g.data \in Seq(Nat) /\ m.WALStart \in Nat /\ Len(g.data) \in Nat
      /\ SegmentSize \in Nat /\ end \in Nat
  <2>1. m.data \in Seq(Nat) /\ m.WALStart \in Nat
    BY Zenon DEF Message
  <2>2. SegmentSize \in Nat
    BY ReceiveAssumption
  <2>3. Len(m.data) \in Nat
    BY <2>1
  <2> QED BY <1>1, <2>1, <2>2, <2>3, SegmentFields, PlusNat, Zenon
<1>4. m.WALStart < endLSN(g) /\ endLSN(g) \in Nat
  <2>1. ASSUME NEW a \in Nat, NEW b \in Nat, NEW w \in Nat, NEW S \in Nat, b < S, w = a + b \/ w < a PROVE w < a + S
    BY <2>1
  <2> QED BY <1>3, <2>1, PlusNat, Zenon DEF endLSN
<1>5. end <= endLSN(g) \/ endLSN(g) < end
  BY <1>3, <1>4
<1>6. endLSN(r) = endLSN(g)
  BY <1>2, Zenon DEF endLSN
<1>7. <<m>>[1] = m /\ <<m>> # <<>>
  OBVIOUS
<1>8. r.lastMsg # <<>> =>
          /\ Len(r.data) = SegmentSize
          /\ r.lastMsg[1].WALStart < endLSN(r) /\ endLSN(r) < end
          /\ r.lastMsg[1].WALStart + Len(r.lastMsg[1].data) = end
          /\ AsWritten(r.lastMsg[1].data, r.lastMsg[1].WALStart)
  BY <1>1, <1>2, <1>4, <1>5, <1>6, <1>7, Zenon
<1>9. r.lastMsg = <<>> => end = r.StartLSN + Len(r.data)
  BY <1>2, <1>5, <1>7, Zenon
<1>10. SegmentOk(r, pos, end)
  BY <1>1, <1>2, <1>3, <1>8, <1>9, Zenon DEF SegmentOk
<1> QED BY <1>1, <1>2, <1>10, Zenon

LEMMA StreamStep ==
    ASSUME "skipped" \notin Circumstances, ReceiveInv, Stream
    PROVE  ReceiveInv'
<1>1. /\ receivePc = "stream" /\ ServerInv /\ Grown
      /\ UNCHANGED <<slot, timeline, XLogPos, stored, other, local, meta, first, crashes>>
  <2>1. UNCHANGED server
    BY Zenon DEF Stream
  <2> QED BY <2>1, ServerGrows, Zenon DEF ReceiveInv, Stream
<1>2. PICK g, pos, end, t : g = seg /\ pos = XLogPos /\ end = sent /\ t = g.TimeLine
  OBVIOUS
<1>3. /\ SegmentOk(g, pos, end) /\ timeline = t /\ HasHistory(t) /\ Len(g.data) < SegmentSize
  BY <1>1, <1>2, Zenon DEF ReceiveInv, PlaceInv
<1>4. /\ g \in SegmentType /\ t \in 1 .. Current /\ g.StartLSN \in Nat /\ end \in Nat
      /\ SegmentSize \in Nat \ {0} /\ Len(g.data) \in Nat
  BY <1>2, <1>3, SegmentFacts, Zenon
<1>5. g.lastMsg = <<>> /\ end = g.StartLSN + Len(g.data)
  <2>1. Len(g.data) # SegmentSize
    BY <1>3, <1>4
  <2> QED BY <1>3, <2>1, Zenon DEF SegmentOk
<1>6. Served(t) = t
  <2>1. t # 0
    BY <1>4
  <2> QED BY <2>1, Zenon DEF Served
<1>7. PICK n \in 1 .. MaxMessage :
        /\ end + n <= EndOf(t)
        /\ LET m == [WALStart |-> end, data |-> [i \in 1 .. n |-> Writer(t, end + i - 1)]]
               r == processMessage(g, m)
           IN  /\ seg' = r.seg
               /\ receivePc' = IF r.result # "ok" THEN "failed" ELSE IF isComplete(r.seg) THEN "upload" ELSE "stream"
        /\ sent' = end + n
  BY <1>2, <1>6, Zenon DEF Stream
<1>8. PICK m : m = [WALStart |-> end, data |-> [i \in 1 .. n |-> Writer(t, end + i - 1)]]
  BY Zenon
<1>n. n \in Nat \ {0} /\ EndOf(t) \in Nat
  <2>1. MaxMessage \in Nat
    BY ReceiveAssumption
  <2>2. EndOf(t) \in Nat
    BY <1>1, <1>4, ServerFacts, Zenon
  <2> QED BY <2>1, <2>2
<1>9. ASSUME NEW i \in 1 .. n PROVE WrittenBy(Writer(t, end + i - 1), end + i - 1) /\ Writer(t, end + i - 1) \in Nat
  <2>1. end + i - 1 \in Nat /\ end + i - 1 < EndOf(t)
    BY <1>4, <1>7, <1>n
  <2>2. WrittenBy(Writer(t, end + i - 1), end + i - 1)
    BY <1>1, <1>4, <2>1, WriterWrites, Zenon
  <2>3. Writer(t, end + i - 1) \in 1 .. Current
    BY <2>2, Zenon DEF WrittenBy
  <2> QED BY <2>2, <2>3
<1>10. m \in Message /\ m.WALStart = end /\ Len(m.data) = n /\ AsWritten(m.data, end)
  <2>1. PICK d : d = [i \in 1 .. n |-> Writer(t, end + i - 1)]
    BY Zenon
  <2>2. d \in Seq(Nat) /\ Len(d) = n
    <3>1. d \in [1 .. n -> Nat]
      BY <1>9, <2>1, Zenon
    <3> QED BY <1>n, <3>1
  <2>3. AsWritten(d, end)
    <3>1. \A i \in 1 .. n : d[i] = Writer(t, end + i - 1)
      BY <2>1, Zenon
    <3> QED BY <1>9, <2>2, <3>1, Zenon DEF AsWritten
  <2>4. m = [WALStart |-> end, data |-> d]
    BY <1>8, <2>1, Zenon
  <2>5. m \in Message /\ m.WALStart = end /\ m.data = d
    BY <1>4, <2>2, <2>4, Zenon DEF Message
  <2> QED BY <2>2, <2>3, <2>5, Zenon
<1>11. end < end + n /\ end + n \in Nat
  BY <1>4, <1>n
<1>12. /\ processMessage(g, m).result = "ok"
       /\ SegmentOk(processMessage(g, m).seg, pos, end + n)
       /\ processMessage(g, m).seg.TimeLine = t /\ processMessage(g, m).seg.StartLSN = g.StartLSN
  <2>1. /\ AsWritten(g.data, g.StartLSN) /\ pos \in Nat /\ g.StartLSN = Start(SegmentNo(pos))
        /\ EndedWithin(g.TimeLine, g.StartLSN)
    BY <1>3, Zenon DEF SegmentOk
  <2>2. /\ g.StartLSN + Len(g.data) < m.WALStart + Len(m.data) /\ m.WALStart = g.StartLSN + Len(g.data)
        /\ m.WALStart + Len(m.data) <= EndOf(g.TimeLine)
    BY <1>2, <1>5, <1>7, <1>10, <1>11, Zenon
  <2>3. /\ processMessage(g, m).result = "ok"
        /\ SegmentOk(processMessage(g, m).seg, pos, m.WALStart + Len(m.data))
        /\ processMessage(g, m).seg.TimeLine = g.TimeLine /\ processMessage(g, m).seg.StartLSN = g.StartLSN
    BY <1>1, <1>2, <1>3, <1>4, <1>5, <1>10, <2>1, <2>2, TakenOk, Zenon
  <2> QED BY <1>2, <1>10, <2>3, Zenon
<1>13. PICK h : h = processMessage(g, m).seg
  OBVIOUS
<1>14. /\ seg' = h /\ sent' = end + n /\ SegmentOk(h, pos, end + n) /\ h.TimeLine = t /\ h.StartLSN = g.StartLSN
       /\ receivePc' = IF isComplete(h) THEN "upload" ELSE "stream"
  BY <1>7, <1>8, <1>12, <1>13, Zenon
<1>15. isComplete(h) => Len(h.data) = SegmentSize
  <2>1. Len(h.data) <= SegmentSize /\ Len(h.data) \in Nat /\ SegmentSize \in Nat
    BY <1>14, SegmentFacts, Zenon DEF SegmentOk
  <2> QED BY <2>1 DEF isComplete
<1>16. ~isComplete(h) => Len(h.data) < SegmentSize
  <2>1. Len(h.data) \in Nat /\ SegmentSize \in Nat
    BY <1>14, SegmentFacts, Zenon
  <2> QED BY <2>1 DEF isComplete
<1>17. SegmentOk(h, pos, end + n)' /\ HasHistory(t)'
  BY <1>1, <1>3, <1>14, SegmentStays, HistoryStays, Zenon
<1>18. PlaceInv'
  BY <1>1, <1>2, <1>3, <1>14, <1>15, <1>16, <1>17, Zenon DEF PlaceInv
<1>19. StoredInv'
  BY <1>1, StoredKept, Zenon
<1>20. SlotInv' /\ SingleInv' /\ BulkInv'
  <2>1. /\ seg'.StartLSN = seg.StartLSN /\ seg'.TimeLine = seg.TimeLine
        /\ (receivePc = "stopped") = (receivePc' = "stopped") /\ (receivePc = "metadata") = (receivePc' = "metadata")
    BY <1>1, <1>2, <1>14, Zenon
  <2> QED BY <1>1, <2>1, PlaceKept, Zenon
<1> QED BY <1>1, <1>18, <1>19, <1>20, Zenon DEF ReceiveInv, Grown

\* Receiver steps leave the server alone.
LEMMA ServerKept ==
    ASSUME "skipped" \notin Circumstances, ReceiveInv, UNCHANGED server
    PROVE  ServerInv /\ Grown /\ ServerInv'
  BY ServerGrows, Zenon DEF ReceiveInv, Grown

LEMMA CopyDoneStep ==
    ASSUME "skipped" \notin Circumstances, ReceiveInv, CopyDone
    PROVE  ReceiveInv'
<1>1. /\ receivePc = "stream" /\ receivePc' = "copydone" /\ UNCHANGED server
      /\ UNCHANGED <<slot, timeline, XLogPos, seg, sent, stored, other, local, meta, first, crashes>>
  BY Zenon DEF CopyDone
<1>2. ServerInv /\ Grown /\ ServerInv'
  BY <1>1, ServerKept, Zenon
<1>3. PICK g, pos, end, t : g = seg /\ pos = XLogPos /\ end = sent /\ t = g.TimeLine
  OBVIOUS
<1>4. SegmentOk(g, pos, end) /\ timeline = t /\ HasHistory(t) /\ Len(g.data) < SegmentSize
  BY <1>1, <1>3, Zenon DEF ReceiveInv, PlaceInv
<1>5. Served(t) = t
  <2>1. t \in 1 .. Current
    BY <1>3, <1>4, SegmentFacts, Zenon
  <2>2. t # 0
    BY <2>1
  <2> QED BY <2>2, Zenon DEF Served
<1>6. Ended(t) /\ end = EndOf(t)
  BY <1>3, <1>5, Zenon DEF CopyDone
<1>7. Ended(t)' /\ end = EndOf(t)'
  BY <1>1, <1>6, Zenon DEF server, Ended, EndOf
<1>8. SegmentOk(g, pos, end)' /\ HasHistory(t)'
  BY <1>1, <1>2, <1>4, SegmentStays, HistoryStays, Zenon
<1>9. PlaceInv'
  BY <1>1, <1>3, <1>4, <1>7, <1>8, Zenon DEF PlaceInv
<1>10. StoredInv'
  BY <1>1, <1>2, StoredKept, Zenon
<1>11. SlotInv' /\ SingleInv' /\ BulkInv'
  BY <1>1, <1>2, PlaceKept, Zenon
<1> QED BY <1>2, <1>9, <1>10, <1>11, Zenon DEF ReceiveInv

LEMMA StatusStep ==
    ASSUME "skipped" \notin Circumstances, ReceiveInv, SendStandbyStatusUpdate
    PROVE  ReceiveInv'
<1>1. /\ receivePc = "stream" /\ slot' = seg.StartLSN /\ UNCHANGED server
      /\ UNCHANGED <<receivePc, timeline, XLogPos, seg, sent, stored, other, local, meta, first, crashes>>
  BY Zenon DEF SendStandbyStatusUpdate
<1>2. ServerInv /\ Grown /\ ServerInv'
  BY <1>1, ServerKept, Zenon
<1>3. PICK g, pos, end, t : g = seg /\ pos = XLogPos /\ end = sent /\ t = g.TimeLine
  OBVIOUS
<1>4. SegmentOk(g, pos, end) /\ timeline = t /\ HasHistory(t) /\ Len(g.data) < SegmentSize
  BY <1>1, <1>3, Zenon DEF ReceiveInv, PlaceInv
<1>5. SegmentOk(g, pos, end)' /\ HasHistory(t)'
  BY <1>1, <1>2, <1>4, SegmentStays, HistoryStays, Zenon
<1>6. PlaceInv'
  BY <1>1, <1>3, <1>4, <1>5, Zenon DEF PlaceInv
<1>7. StoredInv'
  BY <1>1, <1>2, StoredKept, Zenon
<1>8. /\ g.StartLSN \in Nat /\ g.StartLSN = Start(SegmentNo(g.StartLSN)) /\ g.StartLSN <= walEnd
      /\ g.StartLSN <= g.StartLSN /\ g.StartLSN # NoSlot
  <2>1. /\ g.StartLSN \in Nat /\ g.StartLSN = Start(SegmentNo(g.StartLSN)) /\ g.StartLSN <= end
        /\ end \in Nat /\ end <= EndOf(g.TimeLine) /\ g.TimeLine \in 1 .. Current
    BY <1>4, SegmentFacts, Zenon DEF SegmentOk
  <2>2. EndOf(g.TimeLine) <= walEnd /\ EndOf(g.TimeLine) \in Nat /\ walEnd \in Nat
    BY <1>2, <2>1, ServerFacts, Zenon DEF ServerInv
  <2>3. g.StartLSN <= walEnd
    BY <2>1, <2>2
  <2>4. g.StartLSN <= g.StartLSN /\ g.StartLSN # NoSlot
    BY <2>1 DEF NoSlot
  <2> QED BY <2>1, <2>3, <2>4, Zenon
<1>9. SlotInv'
  BY <1>1, <1>3, <1>8, Zenon DEF ReceiveInv, SlotInv, Covered, server
<1>10. SingleInv'
  BY <1>1, Zenon DEF ReceiveInv, SingleInv
<1>11. BulkInv'
  BY <1>1, Zenon DEF ReceiveInv, BulkInv, Past, SeriesDone
<1> QED BY <1>2, <1>6, <1>7, <1>9, <1>10, <1>11, Zenon DEF ReceiveInv

LEMMA CrashStep ==
    ASSUME "skipped" \notin Circumstances, ReceiveInv, Crash
    PROVE  ReceiveInv'
<1>1. /\ receivePc' = "stopped" /\ UNCHANGED server /\ UNCHANGED <<slot, stored, other, local, meta, first>>
      /\ receivePc # "stopped" /\ receivePc # "failed"
      /\ crashes' = IF receivePc = "failed" THEN crashes ELSE crashes + 1
  BY Zenon DEF Crash, ReceiveInv, PlaceInv
<1>2. ServerInv /\ Grown /\ ServerInv'
  BY <1>1, ServerKept, Zenon
<1>3. crashes' \in Nat /\ crashes' # 0
  <2>1. crashes \in Nat /\ crashes' = crashes + 1
    BY <1>1, Zenon DEF ReceiveInv, SlotInv
  <2> QED BY <2>1
<1>4. PlaceInv'
  BY <1>1, Zenon DEF PlaceInv
<1>5. StoredInv'
  BY <1>1, <1>2, StoredKept, Zenon
<1>6. SlotInv'
  BY <1>1, <1>3, Zenon DEF ReceiveInv, SlotInv, Covered, server
<1>7. SingleInv'
  BY <1>1, Zenon DEF ReceiveInv, SingleInv
<1>8. BulkInv'
  BY <1>3, Zenon DEF BulkInv
<1> QED BY <1>2, <1>4, <1>5, <1>6, <1>7, <1>8, Zenon DEF ReceiveInv

LEMMA UploadStep ==
    ASSUME "skipped" \notin Circumstances, ReceiveInv, UploadWalFile
    PROVE  ReceiveInv'
<1>1. PICK g, pos, end, t, n, new :
        /\ g = seg /\ pos = XLogPos /\ end = sent /\ t = g.TimeLine /\ n = SegmentNo(g.StartLSN)
        /\ new = [TimeLine |-> t, No |-> n, data |-> g.data]
  BY Zenon
<1>2. /\ receivePc = "upload" /\ receivePc' = "metadata" /\ UNCHANGED server
      /\ stored' = {s \in stored : ~(s.TimeLine = t /\ s.No = n)} \cup {new}
      /\ UNCHANGED <<slot, timeline, XLogPos, seg, sent, other, local, meta, first, crashes>>
  BY <1>1, Zenon DEF UploadWalFile
<1>3. ServerInv /\ Grown /\ ServerInv'
  BY <1>2, ServerKept, Zenon
<1>4. SegmentOk(g, pos, end) /\ timeline = t /\ HasHistory(t) /\ Len(g.data) = SegmentSize
  BY <1>1, <1>2, Zenon DEF ReceiveInv, PlaceInv
<1>5. /\ g \in SegmentType /\ t \in 1 .. Current /\ n \in Nat /\ g.StartLSN = Start(n) /\ g.StartLSN \in Nat
      /\ g.StartLSN + SegmentSize <= end
  BY <1>1, <1>4, SegmentFacts, Zenon
<1>6. SegmentOk(g, pos, end)' /\ HasHistory(t)'
  BY <1>2, <1>3, <1>4, SegmentStays, HistoryStays, Zenon
<1>7. PlaceInv'
  BY <1>1, <1>2, <1>4, <1>6, Zenon DEF PlaceInv
<1>8. new.TimeLine = t /\ new.No = n /\ new.data = g.data /\ new \in [TimeLine : Nat, No : Nat, data : Seq(Nat)]
  <2>1. t \in Nat /\ g.data \in Seq(Nat)
    BY <1>1, <1>5, SegmentFields, Zenon
  <2> QED BY <1>1, <1>5, <2>1, Zenon
<1>9. StoredOk(new)
  <2>1. Start(n) + SegmentSize <= EndOf(t)
    <3>1. end \in Nat /\ end <= EndOf(t) /\ EndOf(t) \in Nat /\ SegmentSize \in Nat
      BY <1>1, <1>3, <1>4, <1>5, ServerFacts, SegmentFacts, Zenon DEF SegmentOk
    <3> QED BY <1>5, <3>1
  <2>2. AsWritten(g.data, Start(n)) /\ EndedWithin(t, Start(n))
    BY <1>1, <1>4, <1>5, Zenon DEF SegmentOk
  <2> QED BY <1>4, <1>5, <1>8, <2>1, <2>2, Zenon DEF StoredOk
<1>10. StoredInv'
  <2>1. \A s \in stored' : StoredOk(s)
    BY <1>2, <1>9, Zenon DEF ReceiveInv, StoredInv
  <2>2. \A s \in stored' : StoredOk(s)'
    BY <1>2, <1>3, <2>1, StoredStays, Zenon
  <2> QED BY <2>2, Zenon DEF StoredInv
<1>11. \A k : (\E s \in stored : s.No = k) => \E s \in stored' : s.No = k
  BY <1>2, <1>8, Zenon
<1>12. SlotInv'
  <2>1. new \in stored'
    BY <1>2, Zenon
  <2>2. slot # NoSlot
    BY <1>2, Zenon DEF ReceiveInv, SlotInv
  <2> QED BY <1>1, <1>2, <1>8, <1>11, <2>1, <2>2, Zenon DEF ReceiveInv, SlotInv, Covered, server
<1>13. SingleInv'
  <2>1. ASSUME NEW s \in stored', ~Bulk
        PROVE  \/ Segment(s.TimeLine, s.No) \in meta
               \/ slot <= Start(s.No) /\ g.StartLSN <= Start(s.No) /\ g.TimeLine <= s.TimeLine
    <3>1. CASE s = new
      <4>1. slot <= Start(n)
        BY <1>1, <1>2, <1>5, Zenon DEF ReceiveInv, SlotInv
      <4>2. Start(n) <= Start(n) /\ t <= t
        BY <1>5
      <4> QED BY <1>1, <1>5, <1>8, <3>1, <4>1, <4>2, Zenon
    <3>2. CASE s \in stored
      BY <1>1, <1>2, <2>1, <3>2, Zenon DEF ReceiveInv, SingleInv
    <3> QED BY <1>2, <3>1, <3>2, Zenon
  <2> QED BY <1>1, <1>2, <2>1, Zenon DEF SingleInv
<1>14. BulkInv'
  <2>1. ASSUME NEW s \in stored', Bulk, crashes = 0
        PROVE  \/ Start(s.No) = g.StartLSN /\ s.TimeLine = g.TimeLine
               \/ /\ Start(s.No) < g.StartLSN
                  /\ SeriesDone(s)' => Segment(s.TimeLine, s.No) \in meta
                  /\ ~SeriesDone(s)' => Segment(s.TimeLine, s.No) \in local
    <3>1. CASE s = new
      BY <1>1, <1>5, <1>8, <3>1, Zenon
    <3>2. CASE s \in stored
      <4>1. \A l \in stored : Start(l.No) < g.StartLSN
        BY <1>1, <1>2, <2>1, Zenon DEF ReceiveInv, BulkInv, Past
      <4>2. ~(Start(new.No) < g.StartLSN)
        BY <1>5, <1>8
      <4>3. \A l \in stored : l \in stored'
        <5>1. ASSUME NEW l \in stored PROVE ~(l.No = n)
          <6>1. Start(l.No) < Start(n)
            BY <1>5, <4>1, Zenon
          <6>2. ~(Start(n) < Start(n))
            BY <1>5
          <6> QED BY <6>1, <6>2, Zenon
        <5> QED BY <1>2, <5>1, Zenon
      <4>4. SeriesDone(s)' = SeriesDone(s)
        <5>1. \A l \in stored' : Start(l.No) < g.StartLSN => l \in stored
          BY <1>2, <4>2, Zenon
        <5> QED BY <1>1, <1>2, <4>3, <5>1, Zenon DEF SeriesDone, Past
      <4> QED BY <1>1, <1>2, <2>1, <3>2, <4>4, Zenon DEF ReceiveInv, BulkInv, Past
    <3> QED BY <1>2, <3>1, <3>2, Zenon
  <2> QED BY <1>1, <1>2, <2>1, Zenon DEF BulkInv, Past
<1> QED BY <1>3, <1>7, <1>10, <1>12, <1>13, <1>14, Zenon DEF ReceiveInv

FreshSegment(g, t, pos) ==
    /\ SegmentOk(g, pos, g.StartLSN) /\ g.TimeLine = t /\ g.StartLSN = Start(SegmentNo(pos))
    /\ g.data = <<>> /\ g.lastMsg = <<>> /\ Len(g.data) < SegmentSize /\ AsWritten(g.data, g.StartLSN)

\* A new segment, when the server has sent up to its start.
LEMMA EmptyOk ==
    ASSUME ServerInv, NEW t \in 1 .. Current, NEW pos \in Nat,
           EndedWithin(t, Start(SegmentNo(pos))), Start(SegmentNo(pos)) <= EndOf(t)
    PROVE  FreshSegment(NewWalSegment(t, pos), t, pos)
<1> DEFINE g == NewWalSegment(t, pos)
<1>1. /\ g.TimeLine = t /\ g.StartLSN = Start(SegmentNo(pos)) /\ g.data = <<>> /\ g.lastMsg = <<>>
      /\ g = [TimeLine |-> t, StartLSN |-> Start(SegmentNo(pos)), data |-> <<>>, lastMsg |-> <<>>]
  BY Zenon DEF NewWalSegment, Start
<1>2. g.StartLSN \in Nat /\ SegmentSize \in Nat \ {0}
  BY <1>1, StartNo, StartProps, Zenon
<1>3. g \in SegmentType
  <2>1. <<>> \in Seq(Nat) /\ <<>> \in Seq(Message)
    OBVIOUS
  <2>2. t \in Nat
    OBVIOUS
  <2> QED BY <1>1, <1>2, <2>1, <2>2, Zenon DEF SegmentType
<1>4. /\ Len(g.data) = 0 /\ Len(g.data) <= SegmentSize /\ Len(g.data) < SegmentSize /\ AsWritten(g.data, g.StartLSN)
  <2>1. Len(<<>>) = 0 /\ 1 .. 0 = {} /\ 0 <= SegmentSize /\ 0 < SegmentSize
    BY <1>2
  <2> QED BY <1>1, <2>1, Zenon DEF AsWritten
<1>5. g.StartLSN = g.StartLSN + Len(g.data)
  BY <1>2, <1>4
<1> HIDE DEF g
<1>6. FreshSegment(g, t, pos)
  BY <1>1, <1>2, <1>3, <1>4, <1>5, Zenon DEF SegmentOk, FreshSegment
<1> QED BY <1>6 DEF g

LEMMA StartStep ==
    ASSUME Circumstances \subseteq {"nullslot"}, ReceiveInv, HandleWALReceive
    PROVE  ReceiveInv'
<1>c. "skipped" \notin Circumstances /\ "historyerror" \notin Circumstances
  OBVIOUS
<1>1. PICK pos, t, g : pos = (IF slot = NoSlot THEN walEnd ELSE slot) /\ t = timeline' /\ g = NewWalSegment(t, pos)
  BY Zenon
<1>2. /\ receivePc = "stopped" /\ receivePc' = "stream" /\ UNCHANGED server /\ slot # NullSlot
      /\ XLogPos' = pos /\ t \in getStartTimeline(pos) /\ seg' = g /\ sent' = g.StartLSN
      /\ first' = IF slot = NoSlot THEN g.StartLSN ELSE first
      /\ other' = IF Current >= 2 /\ t # 0 THEN other \cup {History(Current)} ELSE other
      /\ slot' \in {g.StartLSN} \cup (IF "nullslot" \in Circumstances /\ slot = NoSlot THEN {NullSlot} ELSE {})
      /\ UNCHANGED <<stored, local, meta, crashes>>
  BY <1>1, Zenon DEF HandleWALReceive
<1>3. ServerInv /\ Grown /\ ServerInv'
  BY <1>c, <1>2, ServerKept, Zenon
<1>4. walEnd \in Nat /\ pos \in Nat /\ pos <= walEnd /\ (slot # NoSlot => slot = pos /\ pos = Start(SegmentNo(pos)))
  <2>1. walEnd \in Nat
    BY <1>3, Zenon DEF ServerInv
  <2>2. walEnd <= walEnd
    BY <2>1
  <2>3. slot = NoSlot \/ (slot \in Nat /\ slot = Start(SegmentNo(slot)) /\ slot <= walEnd)
    BY <1>2, Zenon DEF ReceiveInv, SlotInv
  <2> QED BY <1>1, <2>1, <2>2, <2>3, Zenon
<1>5. t \in 1 .. Current /\ pos <= EndOf(t) /\ \A u \in 1 .. t - 1 : switches[u] <= pos
  BY <1>c, <1>2, <1>3, <1>4, StartTimeline, Zenon
<1>6. g.TimeLine = t /\ g.StartLSN = Start(SegmentNo(pos))
  BY <1>1, Zenon DEF NewWalSegment, Start
<1>7. /\ SegmentNo(pos) \in Nat /\ g.StartLSN \in Nat /\ g.StartLSN <= pos /\ pos < g.StartLSN + SegmentSize
      /\ SegmentSize \in Nat \ {0}
  BY <1>4, <1>6, StartNo, StartProps, Zenon
<1>8. /\ t \in Nat \ {0} /\ EndOf(t) \in Nat /\ Current \in Nat \ {0}
      /\ \A u \in 1 .. t - 1 : u \in 1 .. Current - 1
  <2>1. Current \in Nat \ {0} /\ EndOf(t) \in Nat
    BY <1>3, <1>5, ServerFacts, Zenon
  <2> QED BY <1>5, <2>1
<1>9. SegmentOk(g, pos, g.StartLSN) /\ Len(g.data) < SegmentSize
  <2>1. g.StartLSN <= EndOf(t)
    BY <1>4, <1>5, <1>7, <1>8
  <2>2. EndedWithin(t, g.StartLSN)
    <3>1. ASSUME NEW u \in 1 .. t - 1 PROVE switches[u] < g.StartLSN + SegmentSize
      <4>1. switches[u] <= pos /\ switches[u] \in Nat
        BY <1>3, <1>5, <1>8, ServerFacts, Zenon
      <4> QED BY <1>4, <1>7, <4>1
    <3> QED BY <3>1, Zenon DEF EndedWithin
  <2>3. Start(SegmentNo(pos)) <= EndOf(t) /\ EndedWithin(t, Start(SegmentNo(pos)))
    BY <1>6, <2>1, <2>2, Zenon
  <2>4. FreshSegment(NewWalSegment(t, pos), t, pos)
    BY <1>3, <1>4, <1>5, <2>3, EmptyOk, Zenon
  <2> QED BY <1>1, <2>4, Zenon DEF FreshSegment
<1>10. SegmentOk(g, pos, g.StartLSN)'
  BY <1>3, <1>9, SegmentStays, Zenon
<1>11. HasHistory(t)'
  <2> SUFFICES ASSUME t >= 2 PROVE \E h \in (1 .. Current)' : h >= t /\ History(h) \in other'
    BY Zenon DEF HasHistory, History
  <2>1. Current >= 2 /\ t # 0 /\ Current \in 1 .. Current /\ Current >= t
    BY <1>5, <1>8
  <2>2. Current' = Current
    BY <1>2, Zenon DEF server, Current
  <2> QED BY <1>2, <2>1, <2>2, Zenon
<1>12. PlaceInv'
  BY <1>1, <1>2, <1>6, <1>9, <1>10, <1>11, Zenon DEF PlaceInv
<1>13. StoredInv'
  BY <1>2, <1>3, StoredKept, Zenon
<1>14. slot = NoSlot => stored = {}
  BY Zenon DEF ReceiveInv, SlotInv
<1>15. slot # NoSlot => slot' = slot /\ g.StartLSN = slot /\ first' = first
  BY <1>2, <1>4, <1>6, Zenon
<1>16. SlotInv'
  <2>1. first' \in Nat /\ crashes' \in Nat
    BY <1>2, <1>7, Zenon DEF ReceiveInv, SlotInv
  <2>2. slot' # NoSlot /\ slot' <= g.StartLSN
    BY <1>2, <1>7 DEF NoSlot, NullSlot
  <2>3. slot' = NullSlot \/ (slot' \in Nat /\ slot' = Start(SegmentNo(slot')) /\ slot' <= walEnd')
    <3>1. g.StartLSN <= walEnd
      BY <1>4, <1>7
    <3>2. SegmentNo(g.StartLSN) = SegmentNo(pos)
      BY <1>6, <1>7, NoStart, Zenon
    <3> QED BY <1>2, <1>6, <1>7, <3>1, <3>2, Zenon DEF server
  <2>4. \A lsn \in first' .. g.StartLSN - 1 : \E s \in stored' : s.No = SegmentNo(lsn)
    <3>1. CASE slot = NoSlot
      <4>1. first' .. g.StartLSN - 1 = {}
        BY <1>2, <1>7, <3>1
      <4> QED BY <4>1, Zenon
    <3>2. CASE slot # NoSlot
      BY <1>2, <1>15, <3>2, Zenon DEF ReceiveInv, SlotInv, Covered
    <3> QED BY <3>1, <3>2
  <2>5. \A lsn \in first' .. slot' - 1 : \E s \in stored' : s.No = SegmentNo(lsn)
    <3>1. \A lsn \in first' .. slot' - 1 : lsn \in first' .. g.StartLSN - 1
      BY <1>2, <1>7, <2>1, <2>2 DEF NullSlot
    <3> QED BY <2>4, <3>1, Zenon
  <2> QED BY <1>2, <2>1, <2>2, <2>3, <2>4, <2>5, Zenon DEF SlotInv, Covered
<1>17. SingleInv'
  <2>1. ASSUME NEW s \in stored, ~Bulk
        PROVE  \/ Segment(s.TimeLine, s.No) \in meta
               \/ slot' <= Start(s.No) /\ g.StartLSN <= Start(s.No) /\ g.TimeLine <= s.TimeLine
    <3> SUFFICES ASSUME Segment(s.TimeLine, s.No) \notin meta
                 PROVE  slot' <= Start(s.No) /\ g.StartLSN <= Start(s.No) /\ g.TimeLine <= s.TimeLine
      BY Zenon
    <3>1. slot <= Start(s.No) /\ slot' = slot /\ g.StartLSN = slot /\ slot = pos
      BY <1>4, <1>14, <1>15, <2>1, Zenon DEF ReceiveInv, SingleInv
    <3>2. /\ s.TimeLine \in 1 .. Current /\ Start(s.No) + SegmentSize <= EndOf(s.TimeLine) /\ Start(s.No) \in Nat
      <4>1. StoredOk(s)
        BY Zenon DEF ReceiveInv, StoredInv
      <4>2. s.No \in Nat
        BY <4>1, Zenon DEF StoredOk
      <4> QED BY <4>1, <4>2, StartProps, Zenon DEF StoredOk
    <3>3. ~(s.TimeLine < t)
      <4> SUFFICES ASSUME s.TimeLine < t PROVE FALSE
        OBVIOUS
      <4>1. s.TimeLine \in 1 .. t - 1
        BY <1>8, <3>2
      <4>2. switches[s.TimeLine] <= pos /\ EndOf(s.TimeLine) = switches[s.TimeLine] /\ switches[s.TimeLine] \in Nat
        BY <1>3, <1>5, <1>8, <4>1, ServerFacts, Zenon
      <4>3. pos <= Start(s.No) /\ Start(s.No) + SegmentSize <= switches[s.TimeLine]
        BY <3>1, <3>2, <4>2, Zenon
      <4> QED BY <1>4, <1>7, <3>2, <4>2, <4>3
    <3>4. t <= s.TimeLine
      BY <1>8, <3>2, <3>3
    <3> QED BY <1>6, <3>1, <3>4, Zenon
  <2> QED BY <1>2, <2>1, Zenon DEF SingleInv
<1>18. BulkInv'
  <2>1. Bulk /\ crashes = 0 => stored' = {}
    BY <1>2, Zenon DEF ReceiveInv, BulkInv
  <2> QED BY <1>2, <2>1, Zenon DEF BulkInv
<1> QED BY <1>3, <1>12, <1>13, <1>16, <1>17, <1>18, Zenon DEF ReceiveInv

-----------------------------------------------------------------------------
(* Metadata *)

MetadataGrow(f, l, k) ==
    \E l2, k2 : /\ UploadWalMetadata(f, [local |-> l, meta |-> k]) = [local |-> l2, meta |-> k2]
                /\ l \subseteq l2 /\ k \subseteq k2

LEMMA MetadataOfOther ==
    ASSUME NEW f, f.kind # "segment", NEW l, NEW k
    PROVE  MetadataGrow(f, l, k)
<1>1. CASE ~Bulk
  <2>1. UploadWalMetadata(f, [local |-> l, meta |-> k]) = [local |-> l, meta |-> k \cup {f}]
    BY <1>1 DEF UploadWalMetadata
  <2> QED BY <2>1, Zenon DEF MetadataGrow
<1>2. CASE Bulk
  <2>1. UploadWalMetadata(f, [local |-> l, meta |-> k]) = [local |-> l \cup {f}, meta |-> k]
    BY <1>2 DEF UploadWalMetadata
  <2> QED BY <2>1, Zenon DEF MetadataGrow
<1> QED BY <1>1, <1>2, Zenon

LEMMA NextTimelineStep ==
    ASSUME "skipped" \notin Circumstances, ReceiveInv, NextTimeline
    PROVE  ReceiveInv'
<1>1. PICK g, pos, end, t, n, v, h :
        /\ g = seg /\ pos = XLogPos /\ end = sent /\ t = g.TimeLine /\ n = SegmentNo(g.StartLSN)
        /\ v = t + 1 /\ h = NewWalSegment(v, pos)
  BY Zenon
<1>2. /\ receivePc = "copydone" /\ UNCHANGED server /\ timeline' = timeline + 1
      /\ UNCHANGED <<slot, XLogPos, stored, first, crashes>>
  BY Zenon DEF NextTimeline
<1>3. ServerInv /\ Grown /\ ServerInv'
  BY <1>2, ServerKept, Zenon
<1>4. /\ SegmentOk(g, pos, end) /\ timeline = t /\ Len(g.data) < SegmentSize /\ Ended(t) /\ end = EndOf(t)
  BY <1>1, <1>2, Zenon DEF ReceiveInv, PlaceInv
<1>5. /\ SegmentNo(pos) = n /\ n \in Nat /\ g.StartLSN = Start(n) /\ g.StartLSN \in Nat /\ end \in Nat /\ g.StartLSN <= end
      /\ SegmentSize \in Nat \ {0} /\ Len(g.data) \in Nat /\ pos \in Nat /\ EndedWithin(t, g.StartLSN)
  BY <1>1, <1>4, SegmentFacts, Zenon DEF SegmentOk
<1>6. end = g.StartLSN + Len(g.data)
  <2>1. Len(g.data) # SegmentSize
    BY <1>4, <1>5
  <2> QED BY <1>4, <2>1, Zenon DEF SegmentOk
<1>7. /\ Current \in Nat /\ t \in 1 .. Current - 1 /\ switches[t] = end /\ Range(timelines) = 1 .. Current
  BY <1>3, <1>4, ServerFacts, Zenon DEF Ended
<1>8. v \in 1 .. Current /\ t \in 1 .. Current /\ t <= v /\ t \in Nat /\ v \in Nat /\ v = t + 1
  BY <1>1, <1>7
<1>9. v \in Range(timelines)
  BY <1>7, <1>8, Zenon
<1>10. /\ receivePc' = "stream" /\ seg' = h /\ sent' = h.StartLSN
       /\ other \subseteq other' /\ History(v) \in other'
       /\ local \subseteq local' /\ meta \subseteq meta'
  <2>1. PICK partial, hist : partial = Partial(t, n) /\ hist = History(v)
    BY Zenon
  <2>2. partial.kind # "segment" /\ hist.kind # "segment"
    BY <2>1 DEF Partial, History
  <2>3. PICK l1, k1 : /\ UploadWalMetadata(partial, [local |-> local, meta |-> meta]) = [local |-> l1, meta |-> k1]
                      /\ local \subseteq l1 /\ meta \subseteq k1
    <3>1. MetadataGrow(partial, local, meta)
      BY <2>2, MetadataOfOther, Zenon
    <3> QED BY <3>1, Zenon DEF MetadataGrow
  <2>4. PICK l2, k2 : /\ UploadWalMetadata(hist, [local |-> l1, meta |-> k1]) = [local |-> l2, meta |-> k2]
                      /\ l1 \subseteq l2 /\ k1 \subseteq k2
    <3>1. MetadataGrow(hist, l1, k1)
      BY <2>2, MetadataOfOther, Zenon
    <3> QED BY <3>1, Zenon DEF MetadataGrow
  <2>5. /\ other' = other \cup {partial} \cup {x \in {hist} : v \in Range(timelines)}
        /\ local' = [local |-> l2, meta |-> k2].local /\ meta' = [local |-> l2, meta |-> k2].meta
        /\ receivePc' = "stream" /\ seg' = h /\ sent' = seg'.StartLSN
    BY <1>1, <1>2, <1>4, <1>9, <2>1, <2>3, <2>4, Zenon DEF NextTimeline
  <2>6. local' = l2 /\ meta' = k2
    BY <2>5, Zenon
  <2> QED BY <1>9, <2>1, <2>3, <2>4, <2>5, <2>6, Zenon
<1>11. EndedWithin(v, g.StartLSN)
  <2>1. ASSUME NEW u \in 1 .. v - 1 PROVE switches[u] < g.StartLSN + SegmentSize
    <3>1. CASE u = t
      BY <1>4, <1>5, <1>6, <1>7, <3>1
    <3>2. CASE u \in 1 .. t - 1
      BY <1>5, <3>2, Zenon DEF EndedWithin
    <3>3. u = t \/ u \in 1 .. t - 1
      BY <1>8
    <3> QED BY <3>1, <3>2, <3>3
  <2> QED BY <2>1, Zenon DEF EndedWithin
<1>12. g.StartLSN <= EndOf(v)
  <2>1. EndOf(t) <= EndOf(v) /\ EndOf(v) \in Nat
    BY <1>3, <1>8, ServerFacts, Zenon
  <2> QED BY <1>4, <1>5, <2>1
<1>13. SegmentOk(h, pos, h.StartLSN) /\ h.TimeLine = v /\ h.StartLSN = g.StartLSN /\ Len(h.data) < SegmentSize
  <2>1. Start(SegmentNo(pos)) <= EndOf(v) /\ EndedWithin(v, Start(SegmentNo(pos)))
    BY <1>5, <1>11, <1>12, Zenon
  <2>2. /\ SegmentOk(h, pos, h.StartLSN) /\ h.TimeLine = v /\ h.StartLSN = Start(SegmentNo(pos))
        /\ Len(h.data) < SegmentSize
    <3>1. FreshSegment(NewWalSegment(v, pos), v, pos)
      BY <1>3, <1>5, <1>8, <2>1, EmptyOk, Zenon
    <3> QED BY <1>1, <3>1, Zenon DEF FreshSegment
  <2> QED BY <1>5, <2>2, Zenon
<1>14. SegmentOk(h, pos, h.StartLSN)'
  BY <1>3, <1>13, SegmentStays, Zenon
<1>15. HasHistory(v)'
  <2>1. v >= v /\ Current' = Current
    BY <1>2, <1>8 DEF server, Current
  <2> QED BY <1>8, <1>10, <2>1, Zenon DEF HasHistory, History
<1>16. PlaceInv'
  BY <1>1, <1>2, <1>4, <1>10, <1>13, <1>14, <1>15, Zenon DEF PlaceInv
<1>17. StoredInv'
  BY <1>2, <1>3, <1>10, StoredKept, Zenon
<1>18. SlotInv'
  <2>1. slot # NoSlot
    BY <1>2, Zenon DEF ReceiveInv, SlotInv
  <2> QED BY <1>1, <1>2, <1>10, <1>13, <2>1, Zenon DEF ReceiveInv, SlotInv, Covered, server
<1>19. SingleInv'
  <2>1. ASSUME NEW s \in stored, ~Bulk
        PROVE  \/ Segment(s.TimeLine, s.No) \in meta
               \/ slot <= Start(s.No) /\ g.StartLSN <= Start(s.No) /\ v <= s.TimeLine
    <3> SUFFICES ASSUME slot <= Start(s.No) /\ g.StartLSN <= Start(s.No) /\ t <= s.TimeLine
                 PROVE  v <= s.TimeLine
      BY <1>1, <1>2, <2>1, Zenon DEF ReceiveInv, SingleInv
    <3>1. StoredOk(s)
      BY Zenon DEF ReceiveInv, StoredInv
    <3>2. s.No \in Nat /\ s.TimeLine \in 1 .. Current /\ Start(s.No) + SegmentSize <= EndOf(s.TimeLine)
      BY <3>1, Zenon DEF StoredOk
    <3>3. Start(s.No) \in Nat
      BY <3>2, StartProps, Zenon
    <3>4. s.TimeLine # t
      <4> SUFFICES ASSUME s.TimeLine = t PROVE FALSE
        OBVIOUS
      <4>1. Start(s.No) + SegmentSize <= end
        BY <1>4, <3>2, Zenon
      <4> QED BY <1>4, <1>5, <1>6, <3>3, <4>1
    <3> QED BY <1>8, <3>2, <3>4
  <2> QED BY <1>2, <1>10, <1>13, <2>1, Zenon DEF SingleInv, Segment
<1>20. BulkInv'
  <2>1. \A s : SeriesDone(s)' = SeriesDone(s)
    BY <1>1, <1>2, <1>10, <1>13, Zenon DEF SeriesDone, Past
  <2>2. ASSUME NEW s \in stored, Bulk, crashes = 0
        PROVE  /\ Start(s.No) < g.StartLSN
               /\ SeriesDone(s) => Segment(s.TimeLine, s.No) \in meta
               /\ ~SeriesDone(s) => Segment(s.TimeLine, s.No) \in local
    BY <1>1, <1>2, <2>2, Zenon DEF ReceiveInv, BulkInv, Past
  <2> QED BY <1>2, <1>10, <1>13, <2>1, <2>2, Zenon DEF BulkInv, Past, Segment
<1> QED BY <1>3, <1>16, <1>17, <1>18, <1>19, <1>20, Zenon DEF ReceiveInv

\* The next segment, with the rest of a message that crossed the border.
LEMMA NextOk ==
    ASSUME ServerInv, NEW g, NEW pos, NEW end, SegmentOk(g, pos, end), Len(g.data) = SegmentSize
    PROVE  /\ NextWalSegment(g).result = "ok" /\ SegmentOk(NextWalSegment(g).seg, endLSN(g), end)
           /\ NextWalSegment(g).seg.TimeLine = g.TimeLine /\ NextWalSegment(g).seg.StartLSN = endLSN(g)
<1>1. PICK t, n, e, next : /\ t = g.TimeLine /\ n = SegmentNo(g.StartLSN) /\ e = endLSN(g)
                           /\ next = NewWalSegment(t, e)
  BY Zenon
<1>2. /\ n \in Nat /\ g.StartLSN = Start(n) /\ g.StartLSN \in Nat /\ t \in 1 .. Current /\ g \in SegmentType
      /\ end \in Nat /\ g.StartLSN + SegmentSize <= end /\ SegmentSize \in Nat \ {0}
      /\ end <= EndOf(t) /\ EndOf(t) \in Nat /\ EndedWithin(t, g.StartLSN)
  BY <1>1, SegmentFacts, ServerFacts, Zenon DEF SegmentOk
<1>3. e = g.StartLSN + SegmentSize /\ e = Start(n + 1) /\ n + 1 \in Nat
  <2>1. n + 1 \in Nat
    BY <1>2
  <2> QED BY <1>1, <1>2, <2>1, StartProps, Zenon DEF endLSN
<1>4. e \in Nat /\ e <= end /\ e <= EndOf(t) /\ g.StartLSN <= e
  BY <1>2, <1>3
<1>5. SegmentNo(e) = n + 1 /\ Start(SegmentNo(e)) = e
  BY <1>3, NoStart, Zenon
<1>6. EndedWithin(t, e)
  <2>1. ASSUME NEW u \in 1 .. t - 1 PROVE switches[u] < e + SegmentSize
    <3>1. u \in 1 .. Current - 1
      <4>1. Current \in Nat
        BY ServerFacts, Zenon
      <4> QED BY <1>2, <4>1
    <3>2. switches[u] < g.StartLSN + SegmentSize /\ switches[u] \in Nat
      BY <1>2, <3>1, ServerFacts, Zenon DEF EndedWithin
    <3> QED BY <1>2, <1>4, <3>2
  <2> QED BY <2>1, Zenon DEF EndedWithin
<1>7. /\ SegmentOk(next, e, next.StartLSN) /\ next.TimeLine = t /\ next.StartLSN = e
      /\ next.data = <<>> /\ next.lastMsg = <<>> /\ Len(next.data) < SegmentSize /\ AsWritten(next.data, next.StartLSN)
  <2>1. EndedWithin(t, Start(SegmentNo(e))) /\ Start(SegmentNo(e)) <= EndOf(t)
    BY <1>4, <1>5, <1>6, Zenon
  <2>2. FreshSegment(NewWalSegment(t, e), t, e)
    BY <1>2, <1>4, <2>1, EmptyOk, Zenon
  <2>3. FreshSegment(next, t, e)
    BY <1>1, <2>2, Zenon
  <2> QED BY <1>5, <2>3, Zenon DEF FreshSegment
<1>8. CASE g.lastMsg = <<>>
  <2>1. NextWalSegment(g) = [result |-> "ok", seg |-> next]
    BY <1>1, <1>8 DEF NextWalSegment
  <2>2. NextWalSegment(g).result = "ok" /\ NextWalSegment(g).seg = next
    BY <2>1
  <2>3. end = e
    BY <1>3, <1>8, Zenon DEF SegmentOk
  <2> QED BY <1>1, <1>7, <2>2, <2>3, Zenon
<1>9. CASE g.lastMsg # <<>>
  <2>1. PICK m : m = g.lastMsg[1]
    BY Zenon
  <2>2. /\ m \in Message /\ m.WALStart < e /\ e < end /\ m.WALStart + Len(m.data) = end
        /\ AsWritten(m.data, m.WALStart)
    BY <1>1, <1>2, <1>9, <2>1, SegmentFields, Zenon DEF SegmentOk
  <2>3. NextWalSegment(g) = processMessage(next, m)
    BY <1>1, <1>9, <2>1, Zenon DEF NextWalSegment
  <2>4. next.StartLSN + Len(next.data) < m.WALStart + Len(m.data)
    <3>1. Len(<<>>) = 0 /\ e + 0 = e
      BY <1>4
    <3> QED BY <1>7, <2>2, <3>1, Zenon
  <2>5. /\ next \in SegmentType /\ next.StartLSN = Start(SegmentNo(e)) /\ next.TimeLine \in 1 .. Current
        /\ EndedWithin(next.TimeLine, next.StartLSN) /\ m.WALStart + Len(m.data) <= EndOf(next.TimeLine)
        /\ next.data = <<>> /\ m.WALStart < next.StartLSN
    BY <1>2, <1>5, <1>6, <1>7, <2>2, Zenon DEF SegmentOk
  <2>6. /\ processMessage(next, m).result = "ok"
        /\ SegmentOk(processMessage(next, m).seg, e, m.WALStart + Len(m.data))
        /\ processMessage(next, m).seg.TimeLine = next.TimeLine /\ processMessage(next, m).seg.StartLSN = next.StartLSN
    BY <1>4, <1>7, <2>2, <2>4, <2>5, TakenOk, Zenon
  <2> QED BY <1>1, <1>7, <2>2, <2>3, <2>6, Zenon
<1> QED BY <1>8, <1>9, Zenon

LEMMA SegmentFields2 ==
    ASSUME NEW t, NEW n
    PROVE  /\ Segment(t, n).kind = "segment" /\ Segment(t, n).kind # "history"
           /\ Segment(t, n).TimeLine = t /\ Segment(t, n).No = n
  BY DEF Segment

\* What becomes of the metadata when those of a segment are added to them.
SegmentMetadata(f, n, l, k, r) ==
    /\ ~Bulk => r.meta = k \cup {f}
    /\ Bulk /\ n % Series # Series - 1 => r.local = l \cup {f} /\ r.meta = k
    /\ Bulk /\ n % Series = Series - 1 =>
          /\ r.local = (l \cup {f}) \ {x \in l \cup {f} : SameSeries(x, f)}
          /\ r.meta = {x \in k : ~SameSeries(x, f)} \cup {x \in l \cup {f} : SameSeries(x, f)}

LEMMA MetadataOfSegment ==
    ASSUME NEW t, NEW n, NEW l, NEW k
    PROVE  SegmentMetadata(Segment(t, n), n, l, k, UploadWalMetadata(Segment(t, n), [local |-> l, meta |-> k]))
<1> DEFINE f == Segment(t, n)
           m == [local |-> l, meta |-> k]
           r == UploadWalMetadata(f, m)
<1>1. m = [local |-> l, meta |-> k] /\ m.local = l /\ m.meta = k
  OBVIOUS
<1>2. f.kind = "segment" /\ f.No = n
  BY DEF Segment
<1> SUFFICES SegmentMetadata(f, n, l, k, r)
  OBVIOUS
<1> HIDE DEF f, m
<1>3. CASE ~Bulk
  <2>1. r = [m EXCEPT !.meta = @ \cup {f}]
    BY <1>2, <1>3, Zenon DEF UploadWalMetadata
  <2>2. r.meta = k \cup {f}
    BY <1>1, <2>1
  <2> QED BY <1>3, <2>2, Zenon DEF SegmentMetadata
<1>4. CASE Bulk /\ n % Series # Series - 1
  <2>1. r = [m EXCEPT !.local = m.local \cup {f}]
    BY <1>2, <1>4, Zenon DEF UploadWalMetadata
  <2>2. r.local = l \cup {f} /\ r.meta = k
    BY <1>1, <2>1
  <2> QED BY <1>4, <2>2, Zenon DEF SegmentMetadata
<1>5. CASE Bulk /\ n % Series = Series - 1
  <2>2. r = [local |-> (l \cup {f}) \ {x \in l \cup {f} : SameSeries(x, f)},
             meta |-> {x \in k : ~SameSeries(x, f)} \cup {x \in l \cup {f} : SameSeries(x, f)}]
    BY <1>1, <1>2, <1>5, Zenon DEF UploadWalMetadata
  <2>3. /\ r.local = (l \cup {f}) \ {x \in l \cup {f} : SameSeries(x, f)}
        /\ r.meta = {x \in k : ~SameSeries(x, f)} \cup {x \in l \cup {f} : SameSeries(x, f)}
    BY <2>2
  <2> QED BY <1>5, <2>3, Zenon DEF SegmentMetadata
<1> QED BY <1>3, <1>4, <1>5, Zenon

MetadataStepPlaces(g, n, h) ==
    /\ receivePc = "metadata" /\ receivePc' \in {"upload", "stream"} /\ UNCHANGED <<slot, stored, crashes>>
    /\ seg = g /\ seg' = h /\ n \in Nat /\ n = SegmentNo(g.StartLSN)
    /\ g.StartLSN = Start(n) /\ h.StartLSN = Start(n + 1) /\ h.TimeLine = g.TimeLine
    /\ LET r == UploadWalMetadata(Segment(g.TimeLine, n), [local |-> local, meta |-> meta])
       IN  local' = r.local /\ meta' = r.meta

LEMMA MetadataSingle ==
    ASSUME ReceiveInv, NEW g, NEW n, NEW h, MetadataStepPlaces(g, n, h),
           SegmentOk(g, XLogPos, sent), Len(g.data) = SegmentSize
    PROVE  SingleInv'
<1>1. ServerInv /\ receivePc = "metadata" /\ receivePc' # "stopped" /\ UNCHANGED <<slot, stored>> /\ seg = g /\ seg' = h
  BY Zenon DEF ReceiveInv, MetadataStepPlaces
<1>2. /\ n \in Nat /\ g.StartLSN = Start(n) /\ h.StartLSN = Start(n + 1) /\ h.TimeLine = g.TimeLine
  BY Zenon DEF MetadataStepPlaces
<1>3. ~Bulk => meta' = meta \cup {Segment(g.TimeLine, n)}
  <2>1. PICK f, r : /\ f = Segment(g.TimeLine, n) /\ r = UploadWalMetadata(f, [local |-> local, meta |-> meta])
                    /\ meta' = r.meta
    BY Zenon DEF MetadataStepPlaces
  <2>2. SegmentMetadata(f, n, local, meta, r)
    BY <2>1, MetadataOfSegment, Zenon
  <2> QED BY <2>1, <2>2, Zenon DEF SegmentMetadata
<1>4. ASSUME NEW s \in stored, ~Bulk
      PROVE  \/ Segment(s.TimeLine, s.No) \in meta'
             \/ slot <= Start(s.No) /\ Start(n + 1) <= Start(s.No) /\ g.TimeLine <= s.TimeLine
  <2> SUFFICES ASSUME slot <= Start(s.No) /\ Start(n) <= Start(s.No) /\ g.TimeLine <= s.TimeLine,
                      Segment(s.TimeLine, s.No) \notin meta'
               PROVE  Start(n + 1) <= Start(s.No)
    <3>1. \/ Segment(s.TimeLine, s.No) \in meta
          \/ slot <= Start(s.No) /\ g.StartLSN <= Start(s.No) /\ g.TimeLine <= s.TimeLine
      BY <1>1, <1>4, Zenon DEF ReceiveInv, SingleInv
    <3> QED BY <1>2, <1>3, <1>4, <3>1, Zenon
  <2>1. StoredOk(s)
    BY Zenon DEF ReceiveInv, StoredInv
  <2>2. s.No \in Nat /\ s.TimeLine \in 1 .. Current /\ EndedWithin(s.TimeLine, Start(s.No))
    BY <2>1, Zenon DEF StoredOk
  <2>3. /\ Start(n) \in Nat /\ Start(s.No) \in Nat /\ SegmentSize \in Nat \ {0} /\ Start(n + 1) = Start(n) + SegmentSize
    BY <1>2, <2>2, StartProps, Zenon
  <2>4. ~(s.No < n)
    <3> SUFFICES ASSUME s.No < n PROVE FALSE
      OBVIOUS
    <3>1. Start(s.No) + SegmentSize <= Start(n)
      BY <1>2, <2>2, StartOrder, Zenon
    <3> QED BY <2>3, <3>1
  <2>5. s.No # n
    <3> SUFFICES ASSUME s.No = n PROVE FALSE
      OBVIOUS
    <3>1. s.TimeLine # g.TimeLine
      BY <1>3, <1>4, Zenon
    <3>2. g.TimeLine \in 1 .. Current /\ Start(n) + SegmentSize <= sent /\ sent <= EndOf(g.TimeLine) /\ sent \in Nat
      BY <1>2, SegmentFacts, Zenon DEF SegmentOk
    <3>3. g.TimeLine \in 1 .. s.TimeLine - 1 /\ g.TimeLine \in 1 .. Current - 1
      <4>1. Current \in Nat
        BY <1>1, ServerFacts, Zenon
      <4> QED BY <2>2, <3>1, <3>2, <4>1
    <3>4. /\ EndOf(g.TimeLine) = switches[g.TimeLine] /\ switches[g.TimeLine] \in Nat
          /\ switches[g.TimeLine] < Start(n) + SegmentSize
      BY <1>1, <2>2, <3>3, ServerFacts, Zenon DEF EndedWithin
    <3> QED BY <2>3, <3>2, <3>4
  <2>6. n < s.No
    BY <1>2, <2>2, <2>4, <2>5
  <2> QED BY <1>2, <2>2, <2>3, <2>6, StartOrder, Zenon
<1> QED BY <1>1, <1>2, <1>4, Zenon DEF SingleInv

LEMMA MetadataBulk ==
    ASSUME ReceiveInv, NEW g, NEW n, NEW h, MetadataStepPlaces(g, n, h)
    PROVE  BulkInv'
<1> SUFFICES ASSUME Bulk, crashes = 0
             PROVE  \A s \in stored : /\ Past(s)'
                                      /\ SeriesDone(s)' => Segment(s.TimeLine, s.No) \in meta'
                                      /\ ~SeriesDone(s)' => Segment(s.TimeLine, s.No) \in local'
  <2>1. receivePc' # "stopped" /\ UNCHANGED <<stored, crashes>>
    BY Zenon DEF MetadataStepPlaces
  <2> QED BY <2>1, Zenon DEF BulkInv, Segment
<1>1. receivePc = "metadata" /\ UNCHANGED stored /\ seg = g /\ seg' = h
  BY Zenon DEF MetadataStepPlaces
<1>2. /\ n \in Nat /\ g.StartLSN = Start(n) /\ h.StartLSN = Start(n + 1) /\ n = SegmentNo(g.StartLSN)
  BY Zenon DEF MetadataStepPlaces
<1>3. PICK t, f : t = g.TimeLine /\ f = Segment(t, n)
  BY Zenon
<1>4. PICK r : SegmentMetadata(f, n, local, meta, r) /\ local' = r.local /\ meta' = r.meta
  <2>1. PICK r : /\ r = UploadWalMetadata(Segment(t, n), [local |-> local, meta |-> meta])
                 /\ local' = r.local /\ meta' = r.meta
    BY <1>3, Zenon DEF MetadataStepPlaces
  <2>2. SegmentMetadata(f, n, local, meta, r)
    BY <1>3, <2>1, MetadataOfSegment, Zenon
  <2> QED BY <2>1, <2>2, Zenon
<1>5. f.TimeLine = t /\ f.No = n /\ f.kind # "history"
  BY <1>3 DEF Segment
<1>6. ASSUME NEW s \in stored
      PROVE  /\ s.No \in Nat
             /\ \/ s.No = n /\ s.TimeLine = t /\ Segment(s.TimeLine, s.No) = f
                \/ s.No < n /\ Past(s)
             /\ Start(s.No) < Start(n + 1)
  <2>1. StoredOk(s)
    BY Zenon DEF ReceiveInv, StoredInv
  <2>2. s.No \in Nat
    BY <2>1, Zenon DEF StoredOk
  <2>3. /\ Start(n) \in Nat /\ Start(s.No) \in Nat /\ SegmentSize \in Nat \ {0} /\ Start(n + 1) = Start(n) + SegmentSize
    BY <1>2, <2>2, StartProps, Zenon
  <2>4. (Start(s.No) = Start(n) /\ s.TimeLine = t) \/ Past(s)
    BY <1>1, <1>2, <1>3, Zenon DEF ReceiveInv, BulkInv
  <2>5. CASE Start(s.No) = Start(n) /\ s.TimeLine = t
    <3>1. s.No = n
      BY <1>2, <2>2, <2>5, NoStart, Zenon
    <3>2. Start(n) < Start(n + 1)
      BY <2>3
    <3> QED BY <1>3, <2>2, <2>5, <3>1, <3>2, Zenon
  <2>6. CASE Past(s)
    <3>1. Start(s.No) < Start(n)
      BY <1>1, <1>2, <2>6, Zenon DEF Past
    <3>2. ~(n < s.No) /\ n # s.No
      <4>1. ASSUME n < s.No PROVE FALSE
        <5>1. Start(n) + SegmentSize <= Start(s.No)
          BY <1>2, <2>2, <4>1, StartOrder, Zenon
        <5> QED BY <2>3, <3>1, <5>1
      <4>2. ASSUME n = s.No PROVE FALSE
        <5>1. ~(Start(n) < Start(n))
          BY <2>3
        <5> QED BY <3>1, <4>2, <5>1, Zenon
      <4> QED BY <4>1, <4>2, Zenon
    <3>3. s.No < n
      BY <1>2, <2>2, <3>2
    <3>4. Start(s.No) < Start(n + 1)
      BY <2>3, <3>1
    <3> QED BY <2>2, <2>6, <3>3, <3>4, Zenon
  <2> QED BY <2>4, <2>5, <2>6, Zenon
<1>7. \A a, b \in Nat : ~(a < b /\ b <= a)
  OBVIOUS
\* Before, no past segment is the last of the series in which segment n is.
<1>8. ASSUME NEW last \in stored, Past(last), last.No % Series = Series - 1, last.No \div Series = n \div Series
      PROVE  last.No = n
  <2>1. n <= last.No /\ last.No \in Nat
    BY <1>2, <1>6, <1>8, SeriesEnd, Zenon
  <2> QED BY <1>2, <1>6, <1>7, <2>1, Zenon
<1>9. ASSUME NEW s \in stored, s.No = n PROVE ~Past(s) /\ s.TimeLine = t /\ Segment(s.TimeLine, s.No) = f
  <2>1. ~(Start(n) < Start(n)) /\ ~(n < n)
    <3>1. Start(n) \in Nat
      BY <1>2, StartProps, Zenon
    <3> QED BY <1>2, <3>1
  <2>2. ~Past(s)
    BY <1>1, <1>2, <1>9, <2>1, Zenon DEF Past
  <2> QED BY <1>6, <1>9, <2>1, <2>2, Zenon
<1>10. \A s \in stored : Past(s)'
  BY <1>1, <1>2, <1>6, Zenon DEF Past
<1>11. ASSUME NEW s \in stored
       PROVE  SeriesDone(s)' <=> \E last \in stored : /\ last.TimeLine = s.TimeLine /\ last.No \div Series = s.No \div Series
                                                     /\ last.No % Series = Series - 1
  BY <1>1, <1>10, Zenon DEF SeriesDone
<1>12. PICK cur \in stored : cur.No = n
  BY <1>1, <1>2, Zenon DEF ReceiveInv, SlotInv
<1>13. ASSUME NEW s \in stored, Past(s)
       PROVE  /\ SeriesDone(s) => Segment(s.TimeLine, s.No) \in meta
              /\ ~SeriesDone(s) => Segment(s.TimeLine, s.No) \in local
  <2>1. Start(s.No) # g.StartLSN
    BY <1>2, <1>1, <1>6, <1>9, <1>13, NoStart, Zenon
  <2> QED BY <1>1, <2>1, Zenon DEF ReceiveInv, BulkInv
<1>14. CASE n % Series # Series - 1
  <2>1. local' = local \cup {f} /\ meta' = meta
    BY <1>4, <1>14, Zenon DEF SegmentMetadata
  <2>2. ASSUME NEW s \in stored
        PROVE  /\ SeriesDone(s)' => Segment(s.TimeLine, s.No) \in meta'
               /\ ~SeriesDone(s)' => Segment(s.TimeLine, s.No) \in local'
    <3>1. SeriesDone(s)' = SeriesDone(s)
      <4>1. \A last \in stored : last.No % Series = Series - 1 => Past(last)
        BY <1>6, <1>14, Zenon
      <4> QED BY <1>11, <4>1, Zenon DEF SeriesDone
    <3>2. CASE Past(s)
      BY <1>13, <2>1, <3>1, <3>2, Zenon
    <3>3. CASE ~Past(s)
      <4>1. s.No = n /\ Segment(s.TimeLine, s.No) = f
        BY <1>6, <3>3, Zenon
      <4>2. ~SeriesDone(s)
        BY <1>8, <1>14, <4>1, Zenon DEF SeriesDone
      <4> QED BY <2>1, <3>1, <4>1, <4>2, Zenon
    <3> QED BY <3>2, <3>3
  <2> QED BY <1>10, <2>2, Zenon
<1>15. CASE n % Series = Series - 1
  <2>1. /\ local' = (local \cup {f}) \ {x \in local \cup {f} : SameSeries(x, f)}
        /\ meta' = {x \in meta : ~SameSeries(x, f)} \cup {x \in local \cup {f} : SameSeries(x, f)}
    BY <1>4, <1>15, Zenon DEF SegmentMetadata
  <2>2. ASSUME NEW s \in stored
        PROVE  /\ SeriesDone(s)' => Segment(s.TimeLine, s.No) \in meta'
               /\ ~SeriesDone(s)' => Segment(s.TimeLine, s.No) \in local'
    <3>1. SameSeries(Segment(s.TimeLine, s.No), f) <=> s.TimeLine = t /\ s.No \div Series = n \div Series
      <4>1. PICK x : x = Segment(s.TimeLine, s.No)
        BY Zenon
      <4>2. x.kind # "history" /\ x.TimeLine = s.TimeLine /\ x.No = s.No
        BY <4>1 DEF Segment
      <4> QED BY <1>5, <4>1, <4>2, Zenon DEF SameSeries
    <3>2. CASE s.TimeLine = t /\ s.No \div Series = n \div Series
      <4>1. SeriesDone(s)'
        BY <1>9, <1>11, <1>12, <1>15, <3>2, Zenon
      <4>2. Segment(s.TimeLine, s.No) \in local \cup {f}
        <5>1. CASE Past(s)
          <6>1. ~SeriesDone(s)
            BY <1>8, <1>9, <3>2, Zenon DEF SeriesDone
          <6> QED BY <1>13, <5>1, <6>1, Zenon
        <5>2. CASE ~Past(s)
          BY <1>6, <5>2, Zenon
        <5> QED BY <5>1, <5>2
      <4> QED BY <2>1, <3>1, <3>2, <4>1, <4>2, Zenon
    <3>3. CASE ~(s.TimeLine = t /\ s.No \div Series = n \div Series)
      <4>1. Past(s) /\ ~SameSeries(Segment(s.TimeLine, s.No), f)
        BY <1>6, <3>1, <3>3, Zenon
      <4>2. SeriesDone(s)' = SeriesDone(s)
        <5>1. \A last \in stored : last.TimeLine = s.TimeLine /\ last.No \div Series = s.No \div Series => Past(last)
          BY <1>6, <3>3, Zenon
        <5> QED BY <1>11, <5>1, Zenon DEF SeriesDone
      <4> QED BY <1>13, <2>1, <4>1, <4>2, Zenon
    <3> QED BY <3>2, <3>3
  <2> QED BY <1>10, <2>2, Zenon
<1> QED BY <1>14, <1>15, Zenon

LEMMA MetadataStep ==
    ASSUME "skipped" \notin Circumstances, ReceiveInv, uploadRemoteWalMetadata
    PROVE  ReceiveInv'
<1>1. PICK g, pos, end, n, h : /\ g = seg /\ pos = XLogPos /\ end = sent /\ n = SegmentNo(g.StartLSN)
                               /\ h = NextWalSegment(g).seg
  BY Zenon
<1>2. /\ receivePc = "metadata" /\ UNCHANGED server
      /\ UNCHANGED <<slot, timeline, sent, stored, other, first, crashes>>
      /\ XLogPos' = endLSN(g) /\ seg' = h
      /\ receivePc' = IF NextWalSegment(g).result # "ok" THEN "failed" ELSE IF isComplete(h) THEN "upload" ELSE "stream"
      /\ LET r == UploadWalMetadata(Segment(g.TimeLine, n), [local |-> local, meta |-> meta])
         IN  local' = r.local /\ meta' = r.meta
  BY <1>1, Zenon DEF uploadRemoteWalMetadata
<1>3. ServerInv /\ Grown /\ ServerInv'
  BY <1>2, ServerKept, Zenon
<1>4. SegmentOk(g, pos, end) /\ timeline = g.TimeLine /\ HasHistory(g.TimeLine) /\ Len(g.data) = SegmentSize
  BY <1>1, <1>2, Zenon DEF ReceiveInv, PlaceInv
<1>5. /\ n \in Nat /\ g.StartLSN = Start(n) /\ Start(n) \in Nat /\ endLSN(g) = Start(n + 1)
      /\ Start(n + 1) = Start(n) + SegmentSize /\ SegmentSize \in Nat \ {0}
  <2>1. n \in Nat /\ g.StartLSN = Start(n)
    <3>1. SegmentNo(pos) \in Nat /\ SegmentNo(g.StartLSN) = SegmentNo(pos) /\ g.StartLSN = Start(SegmentNo(g.StartLSN))
      BY <1>4, SegmentFacts, Zenon
    <3> QED BY <1>1, <3>1, Zenon
  <2>2. Start(n) \in Nat /\ Start(n + 1) = Start(n) + SegmentSize /\ SegmentSize \in Nat \ {0}
    BY <2>1, StartProps, Zenon
  <2> QED BY <2>1, <2>2, Zenon DEF endLSN
<1>6. /\ NextWalSegment(g).result = "ok" /\ SegmentOk(h, endLSN(g), end)
      /\ h.TimeLine = g.TimeLine /\ h.StartLSN = endLSN(g)
  BY <1>1, <1>3, <1>4, NextOk, Zenon
<1>7. receivePc' = (IF isComplete(h) THEN "upload" ELSE "stream") /\ receivePc' \in {"upload", "stream"}
  BY <1>2, <1>6, Zenon
<1>8. MetadataStepPlaces(g, n, h)
  BY <1>1, <1>2, <1>5, <1>6, <1>7, Zenon DEF MetadataStepPlaces
<1>9. SingleInv'
  BY <1>1, <1>4, <1>8, MetadataSingle, Zenon
<1>10. BulkInv'
  BY <1>8, MetadataBulk, Zenon
<1>11. StoredInv'
  BY <1>2, <1>3, StoredKept, Zenon
<1>12. PlaceInv'
  <2>1. Len(h.data) <= SegmentSize /\ Len(h.data) \in Nat /\ SegmentSize \in Nat
    BY <1>6, SegmentFacts, Zenon DEF SegmentOk
  <2>2. isComplete(h) => Len(h.data) = SegmentSize
    BY <2>1 DEF isComplete
  <2>3. ~isComplete(h) => Len(h.data) < SegmentSize
    BY <2>1 DEF isComplete
  <2>4. PICK e, t : e = endLSN(g) /\ t = g.TimeLine
    BY Zenon
  <2>5. SegmentOk(h, e, end)' /\ HasHistory(t)'
    BY <1>2, <1>3, <1>4, <1>6, <2>4, SegmentStays, HistoryStays, Zenon
  <2> QED BY <1>1, <1>2, <1>4, <1>6, <1>7, <2>2, <2>3, <2>4, <2>5, Zenon DEF PlaceInv
<1>13. Covered(Start(n + 1))
  <2>1. first \in Nat /\ Covered(Start(n)) /\ \E s \in stored : s.No = n
    BY <1>1, <1>2, <1>5, Zenon DEF ReceiveInv, SlotInv
  <2>2. ASSUME NEW lsn \in first .. Start(n + 1) - 1 PROVE \E s \in stored : s.No = SegmentNo(lsn)
    <3>1. CASE lsn < Start(n)
      <4>1. lsn \in first .. Start(n) - 1
        BY <1>5, <2>1, <3>1
      <4> QED BY <2>1, <4>1, Zenon DEF Covered
    <3>2. CASE ~(lsn < Start(n))
      <4>1. lsn \in Nat /\ Start(n) <= lsn /\ lsn < Start(n) + SegmentSize
        BY <1>5, <2>1, <3>2
      <4>2. SegmentNo(lsn) = n
        BY <1>5, <4>1, NoWithin, Zenon
      <4> QED BY <2>1, <4>2, Zenon
    <3> QED BY <3>1, <3>2, Zenon
  <2> QED BY <2>2, Zenon DEF Covered
<1>14. SlotInv'
  <2>1. slot <= Start(n) /\ (slot \in {NoSlot, NullSlot} \/ slot \in Nat) /\ slot # NoSlot
    BY <1>1, <1>2, <1>5, Zenon DEF ReceiveInv, SlotInv
  <2>2. slot <= Start(n + 1)
    BY <1>5, <2>1 DEF NoSlot, NullSlot
  <2>3. slot \in {NoSlot, NullSlot} \/ (slot \in Nat /\ slot = Start(SegmentNo(slot)) /\ slot <= walEnd')
    BY <1>2, Zenon DEF ReceiveInv, SlotInv, server
  <2>4. Covered(slot)'
    BY <1>2, Zenon DEF ReceiveInv, SlotInv, Covered
  <2>6. Covered(seg.StartLSN)'
    BY <1>2, <1>5, <1>6, <1>13, Zenon DEF Covered
  <2>5. first' \in Nat /\ crashes' \in Nat
    BY <1>2, Zenon DEF ReceiveInv, SlotInv
  <2> QED BY <1>2, <1>5, <1>6, <1>7, <2>1, <2>2, <2>3, <2>4, <2>5, <2>6, Zenon DEF SlotInv
<1> QED BY <1>3, <1>9, <1>10, <1>11, <1>12, <1>14, Zenon DEF ReceiveInv

-----------------------------------------------------------------------------
(* The theorem *)

LEMMA ReceiveInvInit == ReceiveInit => ReceiveInv
<1> SUFFICES ASSUME ReceiveInit PROVE ReceiveInv
  OBVIOUS
<1>1. ServerInv
  <2>1. walEnd \in Nat /\ timelines = <<1>> /\ switches = <<>>
    BY DEF ReceiveInit
  <2>2. timelines \in Seq(Nat) /\ timelines # <<>> /\ Len(timelines) = 1 /\ timelines[1] = 1
    BY <2>1
  <2>3. 1 .. Len(timelines) - 1 = {} /\ \A i \in 1 .. Len(timelines) : i = 1
    BY <2>2
  <2>4. switches \in [{} -> 0 .. walEnd]
    BY <2>1
  <2> QED BY <2>1, <2>2, <2>3, <2>4, Zenon DEF ServerInv
<1>2. PlaceInv
  BY Zenon DEF ReceiveInit, PlaceInv
<1>3. StoredInv /\ SingleInv /\ BulkInv
  BY Zenon DEF ReceiveInit, StoredInv, SingleInv, BulkInv
<1>4. SlotInv
  <2>1. slot = NoSlot /\ receivePc = "stopped" /\ stored = {} /\ first = 0 /\ crashes = 0
    BY Zenon DEF ReceiveInit
  <2>2. 0 .. NoSlot - 1 = {} /\ 0 \in Nat
    BY DEF NoSlot
  <2> QED BY <2>1, <2>2, Zenon DEF SlotInv, Covered
<1> QED BY <1>1, <1>2, <1>3, <1>4, Zenon DEF ReceiveInv

LEMMA ReceiveInvStutter ==
    ASSUME "skipped" \notin Circumstances, ReceiveInv, UNCHANGED receiveVars
    PROVE  ReceiveInv'
<1>1. /\ UNCHANGED server
      /\ UNCHANGED <<slot, receivePc, timeline, XLogPos, seg, sent, stored, other, local, meta, first, crashes>>
  BY Zenon DEF receiveVars
<1>2. ServerInv /\ Grown /\ ServerInv'
  BY <1>1, ServerKept, Zenon
<1>3. PICK g, pos, end, t : g = seg /\ pos = XLogPos /\ end = sent /\ t = timeline
  OBVIOUS
<1>4. receivePc # "stopped" => SegmentOk(g, pos, end)' /\ HasHistory(t)'
  BY <1>1, <1>2, <1>3, SegmentStays, HistoryStays, Zenon DEF ReceiveInv, PlaceInv
<1>5. PlaceInv'
  BY <1>1, <1>3, <1>4, Zenon DEF ReceiveInv, PlaceInv, server, Ended, EndOf
<1>6. StoredInv'
  BY <1>1, <1>2, StoredKept, Zenon
<1>7. SlotInv' /\ SingleInv' /\ BulkInv'
  BY <1>1, <1>2, PlaceKept, Zenon
<1> QED BY <1>2, <1>5, <1>6, <1>7, Zenon DEF ReceiveInv

LEMMA ReceiveInvStep ==
    ASSUME Circumstances \subseteq {"nullslot"}, ReceiveInv, [ReceiveNext]_receiveVars
    PROVE  ReceiveInv'
<1>1. "skipped" \notin Circumstances
  OBVIOUS
<1> QED
  BY <1>1, ReceiveInvStutter, ServerStep, StartStep, StatusStep, StreamStep, CopyDoneStep, UploadStep, MetadataStep,
     NextTimelineStep, CrashStep, Zenon DEF ReceiveNext, Receiver

LEMMA ReceiveInvImplies ==
    ASSUME ReceiveInv
    PROVE  ArchivedBelowSlot
<1>s. ServerInv
  BY Zenon DEF ReceiveInv
<1>f. Current \in Nat \ {0} /\ Range(timelines) = 1 .. Current /\ EndOf(Current) = walEnd
  BY <1>s, ServerFacts, Zenon
<1>o. \A s \in stored : StoredOk(s)
  BY Zenon DEF ReceiveInv, StoredInv
<1>1. ASSUME NEW s \in stored, NEW i \in 1 .. SegmentSize
      PROVE  s.data[i] = Writer(Current, s.No * SegmentSize + i - 1)
  <2>1. /\ s.No \in Nat /\ Len(s.data) = SegmentSize /\ AsWritten(s.data, Start(s.No)) /\ s.TimeLine \in 1 .. Current
        /\ Start(s.No) + SegmentSize <= EndOf(s.TimeLine)
    BY <1>o, Zenon DEF StoredOk
  <2>2. PICK lsn : lsn = Start(s.No) + i - 1
    BY Zenon
  <2>3. WrittenBy(s.data[i], lsn)
    BY <2>1, <2>2, Zenon DEF AsWritten
  <2>4. lsn \in Nat /\ lsn < EndOf(Current)
    <3>1. EndOf(s.TimeLine) \in Nat /\ EndOf(s.TimeLine) <= walEnd /\ walEnd \in Nat
      BY <1>s, <2>1, ServerFacts, Zenon DEF ServerInv
    <3>2. Start(s.No) \in Nat /\ SegmentSize \in Nat
      BY <2>1, StartProps, Zenon
    <3>3. lsn \in Nat /\ lsn < walEnd
      BY <2>1, <2>2, <3>1, <3>2
    <3> QED BY <1>f, <3>3, Zenon
  <2>5. Current \in 1 .. Current
    BY <1>f
  <2>6. WrittenBy(Writer(Current, lsn), lsn)
    BY <1>s, <2>4, <2>5, WriterWrites, Zenon
  <2>7. s.data[i] = Writer(Current, lsn)
    BY <1>s, <2>3, <2>4, <2>6, OneWriter, Zenon
  <2> QED BY <2>2, <2>7, Zenon DEF Start
<1>2. ASSUME NEW lsn \in first .. slot - 1
      PROVE  \E s \in stored :
                /\ s.No = SegmentNo(lsn) /\ s.TimeLine \in Range(timelines)
                /\ \A i \in 1 .. SegmentSize : s.data[i] = Writer(Current, s.No * SegmentSize + i - 1)
  <2>1. PICK s \in stored : s.No = SegmentNo(lsn)
    BY Zenon DEF ReceiveInv, SlotInv, Covered
  <2>2. s.TimeLine \in Range(timelines)
    BY <1>f, <1>o, Zenon DEF StoredOk
  <2> QED BY <1>1, <2>1, <2>2, Zenon
<1>3. ASSUME NEW s \in stored, s.TimeLine >= 2
      PROVE  \E t \in Range(timelines) : t >= s.TimeLine /\ History(t) \in other
  BY <1>f, <1>o, <1>3, Zenon DEF StoredOk, HasHistory
<1>4. ASSUME NEW s \in stored, NEW last \in stored, s.TimeLine = last.TimeLine, s.No \div Series = last.No \div Series,
             last.No % Series = Series - 1, ~((last.No + 1) * SegmentSize > slot), ~(Bulk /\ crashes > 0)
      PROVE  Segment(s.TimeLine, s.No) \in meta
  <2>1. s.No \in Nat /\ last.No \in Nat
    BY <1>o, Zenon DEF StoredOk
  <2>2. /\ Start(s.No) \in Nat /\ Start(last.No) \in Nat /\ SegmentSize \in Nat \ {0}
        /\ (last.No + 1) * SegmentSize = Start(last.No) + SegmentSize
    <3>1. Start(last.No + 1) = Start(last.No) + SegmentSize
      BY <2>1, StartProps, Zenon
    <3> QED BY <2>1, <3>1, StartProps, Zenon DEF Start
  <2>3. slot \in Nat
    <3>1. slot \in {NoSlot, NullSlot} \/ slot \in Nat
      BY Zenon DEF ReceiveInv, SlotInv
    <3> QED BY <1>4, <2>2, <3>1 DEF NoSlot, NullSlot
  <2>4. Start(last.No) < slot
    BY <1>4, <2>2, <2>3
  <2>5. Start(s.No) <= Start(last.No)
    <3>1. s.No <= last.No
      BY <1>4, <2>1, SeriesEnd, Zenon
    <3>2. CASE s.No = last.No
      BY <2>2, <3>2
    <3>3. CASE s.No < last.No
      <4>1. Start(s.No) + SegmentSize <= Start(last.No)
        BY <2>1, <3>3, StartOrder, Zenon
      <4> QED BY <2>2, <4>1
    <3> QED BY <2>1, <3>1, <3>2, <3>3
  <2>6. Start(s.No) < slot /\ ~(slot <= Start(s.No))
    BY <2>2, <2>3, <2>4, <2>5
  <2>7. CASE ~Bulk
    BY <2>6, <2>7, Zenon DEF ReceiveInv, SingleInv
  <2>8. CASE Bulk
    <3>1. crashes = 0
      <4>1. crashes \in Nat
        BY Zenon DEF ReceiveInv, SlotInv
      <4> QED BY <1>4, <2>8, <4>1
    <3>2. receivePc # "stopped"
      BY <2>8, <3>1, Zenon DEF ReceiveInv, BulkInv
    <3>3. slot <= seg.StartLSN /\ seg.StartLSN \in Nat
      BY <3>2, SegmentFacts, Zenon DEF ReceiveInv, SlotInv, PlaceInv
    <3>4. Start(last.No) < seg.StartLSN /\ Start(s.No) < seg.StartLSN /\ Start(s.No) # seg.StartLSN
      BY <2>2, <2>3, <2>4, <2>6, <3>3
    <3>5. SeriesDone(s)
      BY <1>4, <3>4, Zenon DEF SeriesDone, Past
    <3> QED BY <2>8, <3>1, <3>4, <3>5, Zenon DEF ReceiveInv, BulkInv
  <2> QED BY <2>7, <2>8
<1> QED BY <1>2, <1>3, <1>4, Zenon DEF ArchivedBelowSlot

\* The slot never passes what is archived (ArchivedBelowSlot), for every segment size and
\* length of a series and however often the receiver dies, as long as timelines are numbered
\* one by one and the server answers when it is asked for a history (SendStandbyStatusUpdate
\* after UploadWalFile and uploadRemoteWalMetadata, getStartTimeline, HandleWALReceive).
THEOREM SlotOnlyPassesArchived ==
    ASSUME Circumstances \subseteq {"nullslot"}
    PROVE  ReceiveSpec => []ArchivedBelowSlot
<1>1. ReceiveInit => ReceiveInv
  BY ReceiveInvInit
<1>2. ReceiveInv /\ [ReceiveNext]_receiveVars => ReceiveInv'
  BY ReceiveInvStep, Zenon
<1>3. ReceiveInv => ArchivedBelowSlot
  BY ReceiveInvImplies, Zenon
<1> QED BY <1>1, <1>2, <1>3, PTL DEF ReceiveSpec
=============================================================================
