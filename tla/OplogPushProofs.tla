--------------------------- MODULE OplogPushProofs ---------------------------
(***************************************************************************)
(* oplog-push, for every number of nodes, records, elections and failures: *)
(* each archive holds exactly the records of its interval that a majority  *)
(* has.                                                                    *)
(***************************************************************************)
EXTENDS OplogPush, WellFoundedInduction, TLAPS

\* The replica set: what a majority has of the oplog is in history, and stays.
ReplicaInv ==
    /\ clock \in Nat /\ maj \in Nat \ {0} /\ maj <= clock
    /\ oplog \subseteq 1 .. clock /\ history \subseteq 1 .. maj
    /\ \A t \in oplog : t <= maj => t \in history

\* Records after start and up to last, perhaps with the one at start.
Holds(ops, start, last) ==
    /\ ops \in Seq(Nat) /\ Ascending(ops) /\ start \in Nat \ {0} /\ last \in Nat /\ start <= last /\ last <= maj
    /\ LET records == {t \in history : start < t /\ t <= last}
       IN  Range(ops) = records \/ Range(ops) = records \cup {start}

ArchivesInv ==
    \A a \in archives : a.end \in Nat /\ a.end <= maj /\ (a.type = "oplog" => Holds(a.ops, a.start, a.end))

ProcType ==
    [fpc : {"off", "build", "gap", "wait", "next", "send", "end"}, apc : {"off", "recv", "upload", "last", "end"},
     since : Nat, cur : Nat, op : Nat, maj : Nat, buf : Seq(Nat), start : Nat, last : Nat, done : BOOLEAN]

\* The batch of a process: nothing was received yet, or it holds what was since start.
BatchInv(p) ==
    /\ p.start = ZeroTS => p.buf = <<>> /\ p.apc \notin {"upload", "last"}
    /\ p.start # ZeroTS => Holds(p.buf, p.start, p.last)

\* The record that is fetched follows the batch, with no other in between.
FollowsInv(p) ==
    p.start # ZeroTS => p.last < p.op /\ \A t \in oplog \cup history : ~(p.last < t /\ t < p.op)

\* Where the fetcher is. A record it waits for may be rolled back, but then the node is
\* no longer primary.
FetchInv(n, p) ==
    /\ p.maj <= maj /\ p.since <= maj
    /\ p.fpc \in {"off", "build", "gap"} => p.start = ZeroTS
    /\ p.fpc = "next" /\ p.start # ZeroTS => p.cur = p.last
    /\ p.fpc \in {"wait", "send"} => p.op = p.cur /\ p.op \in 1 .. clock /\ FollowsInv(p)
    /\ p.fpc = "send" => p.op \in history
    /\ p.fpc = "wait" /\ primary = n => p.op \in oplog \cup history

ProcInv == proc \in [Nodes -> ProcType] /\ \A n \in Nodes : BatchInv(proc[n]) /\ FetchInv(n, proc[n])

PushInv == ReplicaInv /\ ArchivesInv /\ ProcInv

-----------------------------------------------------------------------------
(* Sets of numbers *)

LEMMA NatMin ==
    ASSUME NEW T \in SUBSET Nat, T # {}
    PROVE  \E m \in T : \A k \in T : m <= k
<1>1. PICK x \in T : \A y \in T : ~ (<<y, x>> \in OpToRel(<, Nat))
  BY NatLessThanWellFounded, WFMin, Zenon
<1>2. \A y \in T : ~(y < x)
  BY <1>1, Zenon DEF OpToRel
<1> QED BY <1>2

LEMMA MinOf ==
    ASSUME NEW T \in SUBSET Nat, T # {}
    PROVE  Min(T) \in T /\ \A k \in T : Min(T) <= k
  BY NatMin, Zenon DEF Min

LEMMA MaxOf ==
    ASSUME NEW b \in Nat, NEW T \in SUBSET (0 .. b), T # {}
    PROVE  Max(T) \in T
<1> DEFINE U == {u \in Nat : \A t \in T : t <= u}
<1>1. U \in SUBSET Nat /\ b \in U
  OBVIOUS
<1>2. PICK m \in U : \A k \in U : m <= k
  BY <1>1, NatMin, Zenon
<1>3. m \in T
  <2> SUFFICES ASSUME m \notin T PROVE FALSE
    OBVIOUS
  <2>1. m \in Nat /\ \A t \in T : t \in Nat /\ t < m
    BY <1>2
  <2>2. PICK t \in T : TRUE
    BY Zenon
  <2>3. m - 1 \in Nat
    BY <2>1, <2>2
  <2>4. m - 1 \in U
    BY <2>1, <2>3
  <2>5. m <= m - 1
    BY <1>2, <2>4, Zenon
  <2> QED BY <2>1, <2>5
<1>4. \A y \in T : m >= y
  BY <1>2
<1> QED BY <1>3, <1>4, Zenon DEF Max

-----------------------------------------------------------------------------
(* Batches *)

Records(start, last) == {t \in history : start < t /\ t <= last}

LEMMA HoldsIs ==
    ASSUME NEW ops \in Seq(Nat), NEW start \in Nat \ {0}, NEW last \in Nat, start <= last, last <= maj, Ascending(ops),
           Range(ops) = Records(start, last) \/ Range(ops) = Records(start, last) \cup {start}
    PROVE  Holds(ops, start, last)
  BY Zenon DEF Holds, Records

LEMMA HoldsFacts ==
    ASSUME NEW ops, NEW start, NEW last, Holds(ops, start, last)
    PROVE  /\ ops \in Seq(Nat) /\ start \in Nat \ {0} /\ last \in Nat \ {0} /\ start <= last /\ last <= maj /\ Ascending(ops)
           /\ Range(ops) = Records(start, last) \/ Range(ops) = Records(start, last) \cup {start}
<1>1. /\ ops \in Seq(Nat) /\ start \in Nat \ {0} /\ last \in Nat /\ start <= last /\ last <= maj /\ Ascending(ops)
      /\ Range(ops) = Records(start, last) \/ Range(ops) = Records(start, last) \cup {start}
  BY Zenon DEF Holds, Records
<1>2. last # 0
  BY <1>1
<1> QED BY <1>1, <1>2, Zenon

LEMMA HoldsEmpty ==
    ASSUME ReplicaInv, NEW l \in Nat \ {0}, l <= maj
    PROVE  Holds(<<>>, l, l)
<1>1. <<>> \in Seq(Nat) /\ DOMAIN <<>> = {} /\ l <= l /\ l \in Nat
  OBVIOUS
<1>2. Records(l, l) = {}
  <2>1. \A t \in history : t \in Nat
    BY DEF ReplicaInv
  <2>2. \A t \in Nat : ~(l < t /\ t <= l)
    OBVIOUS
  <2> QED BY <2>1, <2>2, Zenon DEF Records
<1>3. Ascending(<<>>) /\ Range(<<>>) = {}
  BY <1>1, Zenon DEF Ascending, Range
<1> QED BY <1>1, <1>2, <1>3, HoldsIs, Zenon

LEMMA HoldsFirst ==
    ASSUME ReplicaInv, NEW x \in Nat \ {0}, x <= maj
    PROVE  Holds(Append(<<>>, x), x, x)
<1>1. PICK ops : ops = Append(<<>>, x)
  BY Zenon
<1>2. ops \in Seq(Nat) /\ DOMAIN ops = {1} /\ ops[1] = x
  BY <1>1
<1>3. Ascending(ops)
  <2>1. ~(1 < 1)
    OBVIOUS
  <2> QED BY <1>2, <2>1, Zenon DEF Ascending
<1>4. Records(x, x) = {}
  <2>1. \A t \in history : t \in Nat
    BY DEF ReplicaInv
  <2>2. \A t \in Nat : ~(x < t /\ t <= x)
    OBVIOUS
  <2> QED BY <2>1, <2>2, Zenon DEF Records
<1>5. Range(ops) = Records(x, x) \cup {x}
  BY <1>2, <1>4, Zenon DEF Range
<1>6. x <= x /\ x \in Nat
  OBVIOUS
<1> QED BY <1>1, <1>2, <1>3, <1>5, <1>6, HoldsIs, Zenon

\* A batch takes the record that follows it.
LEMMA HoldsNext ==
    ASSUME ReplicaInv, NEW ops, NEW start, NEW last, Holds(ops, start, last),
           NEW x \in history, last < x, \A t \in history : ~(last < t /\ t < x)
    PROVE  Holds(Append(ops, x), start, x)
<1>1. /\ ops \in Seq(Nat) /\ start \in Nat \ {0} /\ last \in Nat \ {0} /\ start <= last /\ last <= maj /\ Ascending(ops)
      /\ Range(ops) = Records(start, last) \/ Range(ops) = Records(start, last) \cup {start}
  BY HoldsFacts, Zenon
<1>2. x \in Nat /\ x <= maj /\ \A t \in history : t \in Nat
  BY DEF ReplicaInv
<1>3. PICK ext, k : ext = Append(ops, x) /\ k = Len(ops)
  BY Zenon
<1>4. /\ ext \in Seq(Nat) /\ k \in Nat /\ DOMAIN ops = 1 .. k /\ DOMAIN ext = 1 .. k + 1 /\ ext[k + 1] = x
      /\ \A i \in 1 .. k : ext[i] = ops[i] /\ ops[i] \in Nat
  BY <1>1, <1>2, <1>3
<1>5. Records(start, x) = Records(start, last) \cup {x}
  <2>1. \A t \in history : start < t /\ t <= x <=> (start < t /\ t <= last) \/ t = x
    <3> SUFFICES ASSUME NEW t \in history PROVE start < t /\ t <= x <=> (start < t /\ t <= last) \/ t = x
      OBVIOUS
    <3>1. t \in Nat /\ ~(last < t /\ t < x)
      BY <1>2
    <3> QED BY <1>1, <1>2, <3>1
  <2> QED BY <2>1, Zenon DEF Records
<1>6. Range(ext) = Range(ops) \cup {x}
  <2>1. \A i \in 1 .. k + 1 : i \in 1 .. k \/ i = k + 1
    BY <1>4
  <2>2. \A i \in 1 .. k : i \in 1 .. k + 1
    BY <1>4
  <2>3. k + 1 \in 1 .. k + 1
    BY <1>4
  <2>4. \A i \in DOMAIN ext : ext[i] \in Range(ops) \cup {x}
    BY <1>4, <2>1, Zenon DEF Range
  <2>5. \A i \in DOMAIN ops : ops[i] \in Range(ext)
    BY <1>4, <2>2, Zenon DEF Range
  <2>6. x \in Range(ext)
    BY <1>4, <2>3, Zenon DEF Range
  <2> QED BY <2>4, <2>5, <2>6, Zenon DEF Range
<1>7. \A i \in 1 .. k : ops[i] < x
  <2> SUFFICES ASSUME NEW i \in 1 .. k PROVE ops[i] < x
    OBVIOUS
  <2>1. ops[i] \in Range(ops)
    BY <1>4, Zenon DEF Range
  <2>2. ops[i] <= last
    BY <1>1, <2>1, Zenon DEF Records
  <2> QED BY <1>1, <1>2, <1>4, <2>2
<1>8. Ascending(ext)
  <2>1. ASSUME NEW i \in 1 .. k + 1, NEW j \in 1 .. k + 1, i < j PROVE ext[i] < ext[j]
    <3>1. i \in 1 .. k /\ (j \in 1 .. k \/ j = k + 1)
      BY <1>4, <2>1
    <3> QED BY <1>1, <1>4, <1>7, <2>1, <3>1, Zenon DEF Ascending
  <2> QED BY <1>4, <2>1, Zenon DEF Ascending
<1>9. Range(ext) = Records(start, x) \/ Range(ext) = Records(start, x) \cup {start}
  BY <1>1, <1>5, <1>6, Zenon
<1>10. start <= x
  BY <1>1, <1>2
<1> QED BY <1>1, <1>2, <1>3, <1>4, <1>8, <1>9, <1>10, HoldsIs, Zenon

-----------------------------------------------------------------------------
(* The replica set *)

\* History grows at its end only, and so does the oplog.
Grown ==
    /\ ReplicaInv' /\ maj <= maj' /\ clock <= clock' /\ history \subseteq history'
    /\ \A t \in history' : t \in history \/ maj < t
    /\ \A t \in oplog' \cup history' : t \in oplog \cup history \/ clock < t

LEMMA HoldsStays ==
    ASSUME ReplicaInv, Grown, NEW ops, NEW start, NEW last, Holds(ops, start, last)
    PROVE  Holds(ops, start, last)'
<1>1. /\ ops \in Seq(Nat) /\ start \in Nat \ {0} /\ last \in Nat \ {0} /\ start <= last /\ last <= maj /\ Ascending(ops)
      /\ Range(ops) = Records(start, last) \/ Range(ops) = Records(start, last) \cup {start}
  BY HoldsFacts, Zenon
<1>2. maj \in Nat /\ maj' \in Nat /\ maj <= maj' /\ last \in Nat
  BY <1>1, Zenon DEF ReplicaInv, Grown
<1>3. last <= maj'
  BY <1>1, <1>2
<1>4. \A t \in history' : t <= last => t \in history
  <2> SUFFICES ASSUME NEW t \in history', t <= last PROVE t \in history
    OBVIOUS
  <2>1. t \in Nat
    BY DEF Grown, ReplicaInv
  <2>2. ~(maj < t)
    BY <1>1, <1>2, <2>1
  <2> QED BY <2>2, Zenon DEF Grown
<1>5. {t \in history' : start < t /\ t <= last} = Records(start, last)
  BY <1>4, Zenon DEF Records, Grown
<1> QED BY <1>1, <1>2, <1>3, <1>5, Zenon DEF Holds

LEMMA ReplicaShrinks ==
    ASSUME ReplicaInv, oplog' \subseteq oplog, UNCHANGED <<clock, maj, history>>
    PROVE  Grown
<1>1. ReplicaInv'
  BY Zenon DEF ReplicaInv
<1>2. maj <= maj' /\ clock <= clock'
  BY DEF ReplicaInv
<1> QED BY <1>1, <1>2, Zenon DEF Grown

LEMMA ReplicaStep ==
    ASSUME ReplicaInv,
           \/ Write \/ Replicate \/ CapOplog \/ (\E n \in Nodes : Elect(n)) \/ UNCHANGED mongodVars
    PROVE  Grown
<1>1. CASE Write
  BY <1>1 DEF Write, ReplicaInv, Grown
<1>2. CASE Replicate
  <2>1. PICK ts \in oplog : ts > maj /\ maj' = ts /\ history' = history \cup {t \in oplog : t <= ts}
    BY <1>2, Zenon DEF Replicate
  <2>2. UNCHANGED <<oplog, clock>>
    BY <1>2, Zenon DEF Replicate
  <2>3. ts \in Nat \ {0} /\ ts <= clock /\ clock \in Nat /\ maj \in Nat
    BY DEF ReplicaInv
  <2>4. maj <= ts /\ clock <= clock
    BY <2>1, <2>3
  <2>5. history' \subseteq 1 .. ts
    <3>1. ASSUME NEW t \in history PROVE t \in 1 .. ts
      <4>1. t \in 1 .. maj
        BY Zenon DEF ReplicaInv
      <4> QED BY <2>3, <2>4, <4>1
    <3>2. ASSUME NEW t \in oplog, t <= ts PROVE t \in 1 .. ts
      <4>1. t \in 1 .. clock
        BY Zenon DEF ReplicaInv
      <4> QED BY <2>3, <3>2, <4>1
    <3> QED BY <2>1, <3>1, <3>2, Zenon
  <2>6. ReplicaInv'
    BY <2>1, <2>2, <2>3, <2>5, Zenon DEF ReplicaInv
  <2>7. \A t \in oplog : t \in history \/ maj < t
    <3> SUFFICES ASSUME NEW t \in oplog, t \notin history PROVE maj < t
      BY Zenon
    <3>1. ~(t <= maj) /\ t \in 1 .. clock
      BY Zenon DEF ReplicaInv
    <3> QED BY <2>3, <3>1
  <2> QED BY <2>1, <2>2, <2>4, <2>6, <2>7, Zenon DEF Grown
<1>3. CASE CapOplog
  BY <1>3, ReplicaShrinks, Zenon DEF CapOplog
<1>4. ASSUME NEW n \in Nodes, Elect(n) PROVE Grown
  BY <1>4, ReplicaShrinks, Zenon DEF Elect
<1>5. CASE UNCHANGED mongodVars
  BY <1>5, ReplicaShrinks, Zenon DEF mongodVars
<1> QED BY <1>1, <1>2, <1>3, <1>4, <1>5

LEMMA ArchivesStay ==
    ASSUME ReplicaInv, ArchivesInv, Grown, archives' \subseteq archives
    PROVE  ArchivesInv'
<1> SUFFICES ASSUME NEW a \in archives
             PROVE  a.end \in Nat /\ a.end <= maj' /\ (a.type = "oplog" => Holds(a.ops, a.start, a.end)')
  BY Zenon DEF ArchivesInv
<1>1. a.end \in Nat /\ a.end <= maj /\ (a.type = "oplog" => Holds(a.ops, a.start, a.end))
  BY Zenon DEF ArchivesInv
<1>2. a.end <= maj'
  <2>1. maj \in Nat /\ maj' \in Nat /\ maj <= maj'
    BY Zenon DEF ReplicaInv, Grown
  <2> QED BY <1>1, <2>1
<1> QED BY <1>1, <1>2, HoldsStays, Zenon

\* A process that takes no step keeps its invariant.
LEMMA ProcStays ==
    ASSUME ReplicaInv, Grown, NEW n \in Nodes, NEW p \in ProcType, BatchInv(p), FetchInv(n, p),
           p.fpc = "wait" /\ primary' = n => p.op \in oplog' \cup history'
    PROVE  BatchInv(p)' /\ FetchInv(n, p)'
<1>1. BatchInv(p)'
  BY HoldsStays, Zenon DEF BatchInv
<1>2. /\ maj \in Nat /\ maj' \in Nat /\ maj <= maj' /\ clock \in Nat /\ clock' \in Nat /\ clock <= clock'
      /\ p.maj \in Nat /\ p.since \in Nat
  <2>1. p.maj \in Nat /\ p.since \in Nat
    BY DEF ProcType
  <2> QED BY <2>1, Zenon DEF ReplicaInv, Grown
<1>3. p.maj <= maj' /\ p.since <= maj'
  <2>1. p.maj <= maj /\ p.since <= maj
    BY Zenon DEF FetchInv
  <2> QED BY <1>2, <2>1
<1>4. p.op \in 1 .. clock => p.op \in 1 .. clock'
  BY <1>2
<1>5. p.op \in 1 .. clock /\ FollowsInv(p) => FollowsInv(p)'
  <2> SUFFICES ASSUME p.op \in 1 .. clock, FollowsInv(p), p.start # ZeroTS,
                      NEW t \in oplog' \cup history', p.last < t /\ t < p.op
               PROVE  FALSE
    BY Zenon DEF FollowsInv
  <2>1. clock < t
    BY Zenon DEF FollowsInv, Grown
  <2>2. t \in Nat
    BY DEF Grown, ReplicaInv
  <2> QED BY <1>2, <2>1, <2>2
<1>6. p.op \in history => p.op \in history'
  BY Zenon DEF Grown
<1> QED BY <1>1, <1>3, <1>4, <1>5, <1>6, Zenon DEF FetchInv

LEMMA MongodStep ==
    ASSUME SlowElections, PushInv, Write \/ Replicate \/ CapOplog \/ \E n \in Nodes : Elect(n)
    PROVE  PushInv'
<1>1. ReplicaInv /\ Grown /\ ReplicaInv' /\ UNCHANGED <<archives, proc>>
  <2>1. ReplicaInv /\ Grown
    BY ReplicaStep, Zenon DEF PushInv
  <2> QED BY <2>1, Zenon DEF Grown, Write, Replicate, CapOplog, Elect
<1>2. ArchivesInv'
  BY <1>1, ArchivesStay, Zenon DEF PushInv
<1>3. ASSUME NEW n \in Nodes PROVE BatchInv(proc[n])' /\ FetchInv(n, proc[n])'
  <2>1. PICK p : p = proc[n]
    BY Zenon
  <2>2. p \in ProcType /\ BatchInv(p) /\ FetchInv(n, p)
    BY <2>1, Zenon DEF PushInv, ProcInv
  <2>3. p.fpc = "wait" /\ primary' = n => p.op \in oplog' \cup history'
    <3> SUFFICES ASSUME p.fpc = "wait", primary' = n PROVE p.op \in oplog' \cup history'
      OBVIOUS
    <3>1. CASE primary = n
      <4>1. p.op \in oplog \cup history
        BY <2>2, <3>1, Zenon DEF FetchInv
      <4>2. CASE Write \/ Replicate
        BY <4>1, <4>2, Zenon DEF Write, Replicate
      <4>3. CASE CapOplog
        <5>1. p.op \in oplog => p.op \in oplog' \/ (p.op = Min(oplog) /\ Min(oplog) < maj)
          BY <4>3, Zenon DEF CapOplog
        <5>2. p.op \in oplog /\ p.op < maj => p.op \in history
          <6> SUFFICES ASSUME p.op \in oplog, p.op < maj PROVE p.op \in history
            OBVIOUS
          <6>1. p.op \in 1 .. clock /\ clock \in Nat /\ maj \in Nat
            BY <1>1, Zenon DEF ReplicaInv
          <6>2. p.op <= maj
            BY <6>1
          <6> QED BY <1>1, <6>2, Zenon DEF ReplicaInv
        <5> QED BY <1>1, <4>1, <5>1, <5>2, Zenon DEF Grown
      <4>4. ASSUME NEW m \in Nodes, Elect(m) PROVE FALSE
        BY <2>1, <3>1, <4>4, Zenon DEF Elect
      <4> QED BY <4>2, <4>3, <4>4, Zenon
    <3>2. CASE primary # n
      <4>1. Elect(n)
        BY <3>2, Zenon DEF Write, Replicate, CapOplog, Elect
      <4> QED BY <2>1, <4>1, Zenon DEF Elect
    <3> QED BY <3>1, <3>2
  <2>4. BatchInv(p)' /\ FetchInv(n, p)'
    BY <1>1, <2>2, <2>3, ProcStays, Zenon
  <2> QED BY <1>1, <2>1, <2>4, Zenon
<1>4. ProcInv'
  BY <1>1, <1>3, Zenon DEF PushInv, ProcInv
<1> QED BY <1>1, <1>2, <1>4, Zenon DEF PushInv

-----------------------------------------------------------------------------
(* Steps of a process *)

Becomes(n, q) == proc' \in [Nodes -> ProcType] /\ q = proc'[n] /\ \A m \in Nodes \ {n} : proc'[m] = proc[m]

LEMMA ProcUpdate ==
    ASSUME PushInv, UNCHANGED mongodVars, NEW n \in Nodes, NEW q, Becomes(n, q), BatchInv(q), FetchInv(n, q)
    PROVE  ReplicaInv' /\ Grown /\ ProcInv'
<1>1. ReplicaInv /\ Grown /\ ReplicaInv'
  <2>1. ReplicaInv /\ Grown
    BY ReplicaStep, Zenon DEF PushInv
  <2> QED BY <2>1, Zenon DEF Grown
<1>2. ASSUME NEW m \in Nodes, NEW p \in ProcType, BatchInv(p), FetchInv(m, p)
      PROVE  BatchInv(p)' /\ FetchInv(m, p)'
  <2>1. p.fpc = "wait" /\ primary' = m => p.op \in oplog' \cup history'
    BY <1>2, Zenon DEF FetchInv, mongodVars
  <2> QED BY <1>1, <1>2, <2>1, ProcStays, Zenon
<1>3. q \in ProcType
  BY Zenon DEF Becomes
<1>4. BatchInv(q)' /\ FetchInv(n, q)'
  BY <1>2, <1>3, Zenon
<1>5. ASSUME NEW m \in Nodes PROVE BatchInv(proc[m])' /\ FetchInv(m, proc[m])'
  <2>1. CASE m = n
    BY <1>4, <2>1, Zenon DEF Becomes
  <2>2. CASE m # n
    <3>1. PICK p : p = proc[m]
      BY Zenon
    <3>2. p \in ProcType /\ BatchInv(p) /\ FetchInv(m, p)
      BY <3>1, Zenon DEF PushInv, ProcInv
    <3>3. BatchInv(p)' /\ FetchInv(m, p)'
      BY <1>2, <3>2, Zenon
    <3>4. proc'[m] = p
      BY <2>2, <3>1, Zenon DEF Becomes
    <3> QED BY <3>3, <3>4, Zenon
  <2> QED BY <2>1, <2>2, Zenon
<1> QED BY <1>1, <1>5, Zenon DEF ProcInv, Becomes

\* Steps that upload nothing, and those that do.
LEMMA QuietStep ==
    ASSUME PushInv, UNCHANGED <<mongodVars, archives>>, NEW n \in Nodes, NEW q, Becomes(n, q), BatchInv(q), FetchInv(n, q)
    PROVE  PushInv'
<1>1. ReplicaInv' /\ Grown /\ ProcInv'
  BY ProcUpdate, Zenon
<1>2. ArchivesInv'
  BY <1>1, ArchivesStay, Zenon DEF PushInv
<1> QED BY <1>1, <1>2, Zenon DEF PushInv

LEMMA UploadingStep ==
    ASSUME PushInv, UNCHANGED mongodVars, NEW n \in Nodes, NEW q, Becomes(n, q), BatchInv(q), FetchInv(n, q),
           NEW a, a.end \in Nat /\ a.end <= maj, a.type = "oplog" => Holds(a.ops, a.start, a.end),
           archives' = Upload(archives, a)
    PROVE  PushInv'
<1>1. ReplicaInv' /\ Grown /\ ProcInv'
  BY ProcUpdate, Zenon
<1>2. archives' \subseteq archives \cup {a}
  BY Zenon DEF Upload
<1>3. \A b \in archives \cup {a} : b.end \in Nat /\ b.end <= maj /\ (b.type = "oplog" => Holds(b.ops, b.start, b.end))
  BY Zenon DEF PushInv, ArchivesInv
<1>4. ArchivesInv'
  BY <1>2, <1>3, Zenon DEF ArchivesInv, Holds, mongodVars
<1> QED BY <1>1, <1>4, Zenon DEF PushInv

LEMMA OffOk ==
    ASSUME ReplicaInv, NEW n
    PROVE  Off \in ProcType /\ BatchInv(Off) /\ FetchInv(n, Off)
<1>1. /\ Off \in ProcType /\ Off.start = ZeroTS /\ Off.buf = <<>> /\ Off.apc = "off" /\ Off.fpc = "off"
      /\ Off.maj = 0 /\ Off.since = 0
  BY DEF Off, ProcType, ZeroTS
<1>2. 0 <= maj
  BY DEF ReplicaInv
<1> QED BY <1>1, <1>2, Zenon DEF BatchInv, FetchInv

\* What holds of a process before a step.
LEMMA ProcFacts ==
    ASSUME PushInv, NEW n \in Nodes
    PROVE  ReplicaInv /\ proc \in [Nodes -> ProcType] /\ proc[n] \in ProcType /\ BatchInv(proc[n]) /\ FetchInv(n, proc[n])
  BY Zenon DEF PushInv, ProcInv

LEMMA KnownTS ==
    ASSUME PushInv
    PROVE  LastKnownArchiveTS(archives) \in Nat /\ LastKnownArchiveTS(archives) <= maj
<1> DEFINE T == {a.end : a \in archives} \cup {ZeroTS}
<1>1. maj \in Nat /\ \A a \in archives : a.end \in Nat /\ a.end <= maj
  BY Zenon DEF PushInv, ReplicaInv, ArchivesInv
<1>2. T \in SUBSET (0 .. maj) /\ T # {}
  BY <1>1 DEF ZeroTS
<1>3. Max(T) \in 0 .. maj
  BY <1>1, <1>2, MaxOf, Zenon
<1> QED BY <1>1, <1>3 DEF LastKnownArchiveTS

LEMMA Replaced ==
    ASSUME NEW n \in Nodes, proc \in [Nodes -> ProcType], NEW q \in ProcType, proc' = [proc EXCEPT ![n] = q]
    PROVE  Becomes(n, q)
<1> HIDE DEF ProcType
<1> QED BY DEF Becomes

LEMMA ResolveStep ==
    ASSUME PushInv, NEW n \in Nodes, ResolveStartingTS(n)
    PROVE  PushInv'
<1>1. PICK p : p = proc[n]
  BY Zenon
<1>2. ReplicaInv /\ proc \in [Nodes -> ProcType] /\ p \in ProcType /\ BatchInv(p) /\ FetchInv(n, p)
  BY <1>1, ProcFacts, Zenon
<1>3. PICK known : known \in Nat /\ known <= maj /\ proc' = [proc EXCEPT ![n].fpc = "build", ![n].since = known]
  <2>1. LastKnownArchiveTS(archives) \in Nat /\ LastKnownArchiveTS(archives) <= maj
    BY KnownTS, Zenon
  <2>2. maj \in Nat /\ maj <= maj
    BY <1>2 DEF ReplicaInv
  <2> QED BY <2>1, <2>2, Zenon DEF ResolveStartingTS
<1>4. p.fpc = "off" /\ UNCHANGED <<mongodVars, archives>>
  BY <1>1, Zenon DEF ResolveStartingTS
<1>5. PICK q : q = [p EXCEPT !.fpc = "build", !.since = known]
  BY Zenon
<1>6. /\ q \in ProcType /\ q.fpc = "build" /\ q.since = known /\ q.apc = p.apc /\ q.maj = p.maj /\ q.buf = p.buf
      /\ q.start = p.start /\ q.last = p.last
  BY <1>2, <1>3, <1>5, Zenon DEF ProcType
<1>7. proc' = [proc EXCEPT ![n] = q]
  BY <1>1, <1>2, <1>3, <1>5, Zenon
<1>8. Becomes(n, q)
  BY <1>2, <1>6, <1>7, Replaced, Zenon
<1>9. BatchInv(q)
  BY <1>2, <1>6, Zenon DEF BatchInv
<1>10. FetchInv(n, q)
  BY <1>2, <1>3, <1>4, <1>6, Zenon DEF FetchInv
<1> QED BY <1>4, <1>8, <1>9, <1>10, QuietStep, Zenon

LEMMA OplogNat ==
    ASSUME ReplicaInv
    PROVE  \A t \in oplog \cup history : t \in Nat
<1>1. oplog \subseteq 1 .. clock /\ history \subseteq 1 .. maj /\ clock \in Nat /\ maj \in Nat
  BY Zenon DEF ReplicaInv
<1> QED BY <1>1

LEMMA BuildStep ==
    ASSUME PushInv, NEW n \in Nodes, BuildCursorFromTS(n)
    PROVE  PushInv'
<1>1. PICK p : p = proc[n]
  BY Zenon
<1>2. ReplicaInv /\ proc \in [Nodes -> ProcType] /\ p \in ProcType /\ BatchInv(p) /\ FetchInv(n, p)
  BY <1>1, ProcFacts, Zenon
<1>3. p.fpc = "build" /\ UNCHANGED <<mongodVars, archives>> /\ TailOplogFrom(p.since) # {}
  BY <1>1, Zenon DEF BuildCursorFromTS
<1>4. p.start = ZeroTS /\ p.maj <= maj /\ p.since <= maj
  BY <1>2, <1>3, Zenon DEF FetchInv
<1>5. CASE Min(TailOplogFrom(p.since)) = p.since
  <2>1. p.since \in oplog /\ p.since \in 1 .. clock
    <3>1. TailOplogFrom(p.since) \in SUBSET Nat /\ TailOplogFrom(p.since) \subseteq oplog
      BY <1>2, OplogNat, Zenon DEF TailOplogFrom
    <3>2. p.since \in oplog
      BY <1>3, <1>5, <3>1, MinOf, Zenon
    <3> QED BY <1>2, <3>2, Zenon DEF ReplicaInv
  <2>2. PICK q : q = [p EXCEPT !.fpc = "wait", !.apc = "recv", !.cur = p.since, !.op = p.since]
    BY Zenon
  <2>3. /\ q \in ProcType /\ q.fpc = "wait" /\ q.since = p.since /\ q.apc = "recv" /\ q.maj = p.maj /\ q.buf = p.buf
        /\ q.start = p.start /\ q.last = p.last /\ q.cur = p.since /\ q.op = p.since
    BY <1>2, <2>2, Zenon DEF ProcType
  <2>4. proc' = [proc EXCEPT ![n] = q]
    BY <1>1, <1>5, <2>2, Zenon DEF BuildCursorFromTS
  <2>5. Becomes(n, q)
    BY <1>2, <2>3, <2>4, Replaced, Zenon
  <2>6. BatchInv(q)
    BY <1>2, <1>4, <2>3, Zenon DEF BatchInv
  <2>7. FetchInv(n, q)
    BY <1>2, <1>4, <2>1, <2>3, Zenon DEF FetchInv, FollowsInv
  <2> QED BY <1>3, <2>5, <2>6, <2>7, QuietStep, Zenon
<1>6. CASE Min(TailOplogFrom(p.since)) # p.since
  <2>2. PICK q : q = [p EXCEPT !.fpc = "gap"]
    BY Zenon
  <2>3. /\ q \in ProcType /\ q.fpc = "gap" /\ q.since = p.since /\ q.apc = p.apc /\ q.maj = p.maj /\ q.buf = p.buf
        /\ q.start = p.start /\ q.last = p.last
    BY <1>2, <2>2, Zenon DEF ProcType
  <2>4. proc' = [proc EXCEPT ![n] = q]
    BY <1>1, <1>6, <2>2, Zenon DEF BuildCursorFromTS
  <2>5. Becomes(n, q)
    BY <1>2, <2>3, <2>4, Replaced, Zenon
  <2>6. BatchInv(q)
    BY <1>2, <2>3, Zenon DEF BatchInv
  <2>7. FetchInv(n, q)
    BY <1>2, <1>4, <2>3, Zenon DEF FetchInv
  <2> QED BY <1>3, <2>5, <2>6, <2>7, QuietStep, Zenon
<1> QED BY <1>5, <1>6, Zenon

LEMMA GapStep ==
    ASSUME PushInv, NEW n \in Nodes, UploadGapArchive(n)
    PROVE  PushInv'
<1>1. PICK p : p = proc[n]
  BY Zenon
<1>2. ReplicaInv /\ proc \in [Nodes -> ProcType] /\ p \in ProcType /\ BatchInv(p) /\ FetchInv(n, p)
  BY <1>1, ProcFacts, Zenon
<1>3. p.fpc = "gap" /\ UNCHANGED mongodVars
  BY <1>1, Zenon DEF UploadGapArchive
<1>4. CASE maj < p.since
  <2>1. archives' = archives /\ proc' = [proc EXCEPT ![n] = Off]
    BY <1>1, <1>4, Zenon DEF UploadGapArchive
  <2>2. Off \in ProcType /\ BatchInv(Off) /\ FetchInv(n, Off)
    BY <1>2, OffOk, Zenon
  <2>3. Becomes(n, Off)
    BY <1>2, <2>1, <2>2, Replaced, Zenon
  <2> QED BY <1>3, <2>1, <2>2, <2>3, QuietStep, Zenon
<1>5. CASE ~(maj < p.since)
  <2>1. maj - 1 \in Nat /\ maj \in Nat /\ maj <= maj
    BY <1>2 DEF ReplicaInv
  <2>2. PICK q : q = [p EXCEPT !.fpc = "next", !.apc = "recv", !.cur = maj - 1]
    BY Zenon
  <2>3. /\ q \in ProcType /\ q.fpc = "next" /\ q.since = p.since /\ q.apc = "recv" /\ q.maj = p.maj /\ q.buf = p.buf
        /\ q.start = p.start /\ q.last = p.last
    BY <1>2, <2>1, <2>2, Zenon DEF ProcType
  <2>4. proc' = [proc EXCEPT ![n] = q]
    BY <1>1, <1>5, <2>2, Zenon DEF UploadGapArchive
  <2>5. Becomes(n, q)
    BY <1>2, <2>3, <2>4, Replaced, Zenon
  <2>6. BatchInv(q)
    BY <1>2, <2>3, Zenon DEF BatchInv
  <2>7. FetchInv(n, q)
    BY <1>2, <1>3, <2>3, Zenon DEF FetchInv
  <2>8. PICK a : a = NewArchive(p.since, maj, "gap", <<>>)
    BY Zenon
  <2>9. a.end = maj /\ a.type = "gap"
    BY <2>8 DEF NewArchive
  <2>10. archives' = Upload(archives, a)
    BY <1>1, <1>5, <2>8, Zenon DEF UploadGapArchive
  <2>11. a.end \in Nat /\ a.end <= maj /\ (a.type = "oplog" => Holds(a.ops, a.start, a.end))
    BY <2>1, <2>9, Zenon
  <2> QED BY <1>3, <2>5, <2>6, <2>7, <2>10, <2>11, UploadingStep, Zenon
<1> QED BY <1>4, <1>5, Zenon

Follows(cur, ts) ==
    /\ ts \in oplog /\ ts \in 1 .. clock /\ ts \in Nat /\ cur < ts
    /\ \A t \in oplog \cup history : ~(cur < t /\ t < ts)

\* The cursor's next record: none that a majority has, or will have, is in between.
LEMMA NextRecord ==
    ASSUME ReplicaInv, NEW cur \in Nat, ~ PositionLost(cur), TailOplogFrom(cur + 1) # {},
           NEW ts, ts = Min(TailOplogFrom(cur + 1))
    PROVE  Follows(cur, ts)
<1>1. \A t \in oplog \cup history : t \in Nat
  BY OplogNat, Zenon
<1>2. TailOplogFrom(cur + 1) \in SUBSET Nat /\ TailOplogFrom(cur + 1) \subseteq oplog
  BY <1>1, Zenon DEF TailOplogFrom
<1>3. ts \in TailOplogFrom(cur + 1) /\ \A k \in TailOplogFrom(cur + 1) : ts <= k
  BY <1>2, MinOf, Zenon
<1>4. ts \in oplog /\ ts \in 1 .. clock /\ ts \in Nat
  BY <1>1, <1>2, <1>3, Zenon DEF ReplicaInv
<1>5. ts >= cur + 1
  BY <1>3, Zenon DEF TailOplogFrom
<1>6. cur < ts
  BY <1>4, <1>5
<1>7. ASSUME NEW t \in oplog \cup history, cur < t, t < ts PROVE FALSE
  <2>1. t \in oplog
    BY <1>7, Zenon DEF PositionLost
  <2>2. t \in Nat /\ t >= cur + 1
    BY <1>1, <1>7
  <2>3. ts <= t
    BY <1>3, <2>1, <2>2, Zenon DEF TailOplogFrom
  <2> QED BY <1>4, <1>7, <2>2, <2>3
<1> QED BY <1>4, <1>6, <1>7, Zenon DEF Follows

LEMMA FetchStep ==
    ASSUME PushInv, NEW n \in Nodes, FetchNext(n)
    PROVE  PushInv'
<1>1. PICK p : p = proc[n]
  BY Zenon
<1>2. ReplicaInv /\ proc \in [Nodes -> ProcType] /\ p \in ProcType /\ BatchInv(p) /\ FetchInv(n, p)
  BY <1>1, ProcFacts, Zenon
<1>3. /\ p.fpc = "next" /\ UNCHANGED <<mongodVars, archives>> /\ TailOplogFrom(p.cur + 1) # {} /\ ~ PositionLost(p.cur)
  BY <1>1, Zenon DEF FetchNext
<1>4. PICK ts : ts = Min(TailOplogFrom(p.cur + 1))
  BY Zenon
<1>5. p.cur \in Nat /\ p.maj \in Nat
  BY <1>2, Zenon DEF ProcType
<1>6. /\ ts \in oplog /\ ts \in 1 .. clock /\ ts \in Nat /\ p.cur < ts
      /\ \A t \in oplog \cup history : ~(p.cur < t /\ t < ts)
  <2>1. PICK cur : cur = p.cur
    BY Zenon
  <2>2. cur \in Nat /\ ~ PositionLost(cur) /\ TailOplogFrom(cur + 1) # {} /\ ts = Min(TailOplogFrom(cur + 1))
    BY <1>3, <1>4, <1>5, <2>1, Zenon
  <2>3. Follows(cur, ts)
    BY <1>2, <2>2, NextRecord, Zenon
  <2> QED BY <2>1, <2>3, Zenon DEF Follows
<1>7. PICK next : next = IF p.maj < ts THEN "wait" ELSE "send"
  BY Zenon
<1>8. next \in {"wait", "send"} /\ (next = "send" => ~(p.maj < ts))
  BY <1>7, Zenon
<1>9. PICK q : q = [p EXCEPT !.cur = ts, !.op = ts, !.fpc = next]
  BY Zenon
<1>10. /\ q \in ProcType /\ q.fpc = next /\ q.since = p.since /\ q.apc = p.apc /\ q.maj = p.maj /\ q.buf = p.buf
       /\ q.start = p.start /\ q.last = p.last /\ q.cur = ts /\ q.op = ts
  BY <1>2, <1>6, <1>8, <1>9, Zenon DEF ProcType
<1>11. proc' = [proc EXCEPT ![n] = q]
  <2>1. proc' = [proc EXCEPT ![n].cur = ts, ![n].op = ts, ![n].fpc = next]
    BY <1>1, <1>4, <1>7, Zenon DEF FetchNext
  <2> QED BY <1>1, <1>2, <1>9, <2>1, Zenon
<1>12. Becomes(n, q)
  BY <1>2, <1>10, <1>11, Replaced, Zenon
<1>13. BatchInv(q)
  BY <1>2, <1>10, Zenon DEF BatchInv
<1>14. FollowsInv(q)
  BY <1>2, <1>3, <1>6, <1>10, Zenon DEF FollowsInv, FetchInv
<1>15. q.fpc = "send" => q.op \in history
  <2> SUFFICES ASSUME q.fpc = "send" PROVE ts \in history
    BY <1>10, Zenon
  <2>1. p.maj <= maj /\ maj \in Nat /\ ~(p.maj < ts)
    BY <1>2, <1>8, <1>10, Zenon DEF FetchInv, ReplicaInv
  <2>2. ts <= maj
    BY <1>5, <1>6, <2>1
  <2> QED BY <1>2, <1>6, <2>2, Zenon DEF ReplicaInv
<1>16. q.fpc \notin {"off", "build", "gap", "next"}
  BY <1>8, <1>10
<1>17. FetchInv(n, q)
  BY <1>2, <1>6, <1>10, <1>14, <1>15, <1>16, Zenon DEF FetchInv
<1> QED BY <1>3, <1>12, <1>13, <1>17, QuietStep, Zenon

LEMMA WaitStep ==
    ASSUME PushInv, NEW n \in Nodes, WaitMajority(n), primary = n
    PROVE  PushInv'
<1>1. PICK p : p = proc[n]
  BY Zenon
<1>2. ReplicaInv /\ proc \in [Nodes -> ProcType] /\ p \in ProcType /\ BatchInv(p) /\ FetchInv(n, p)
  BY <1>1, ProcFacts, Zenon
<1>3. p.fpc = "wait" /\ UNCHANGED <<mongodVars, archives>>
  BY <1>1, Zenon DEF WaitMajority
<1>4. PICK next : next = IF maj < p.op THEN "wait" ELSE "send"
  BY Zenon
<1>5. next \in {"wait", "send"} /\ (next = "send" => ~(maj < p.op))
  BY <1>4, Zenon
<1>6. maj \in Nat /\ maj <= maj
  BY <1>2 DEF ReplicaInv
<1>7. PICK q : q = [p EXCEPT !.maj = maj, !.fpc = next]
  BY Zenon
<1>8. /\ q \in ProcType /\ q.fpc = next /\ q.since = p.since /\ q.apc = p.apc /\ q.maj = maj /\ q.buf = p.buf
      /\ q.start = p.start /\ q.last = p.last /\ q.cur = p.cur /\ q.op = p.op
  BY <1>2, <1>5, <1>6, <1>7, Zenon DEF ProcType
<1>9. proc' = [proc EXCEPT ![n] = q]
  <2>1. proc' = [proc EXCEPT ![n].maj = maj, ![n].fpc = next]
    BY <1>1, <1>4, Zenon DEF WaitMajority
  <2> QED BY <1>1, <1>2, <1>7, <2>1, Zenon
<1>10. Becomes(n, q)
  BY <1>2, <1>8, <1>9, Replaced, Zenon
<1>11. BatchInv(q)
  BY <1>2, <1>8, Zenon DEF BatchInv
<1>12. p.op = p.cur /\ p.op \in 1 .. clock /\ FollowsInv(p) /\ p.op \in oplog \cup history /\ p.since <= maj
  BY <1>2, <1>3, Zenon DEF FetchInv
<1>13. FollowsInv(q)
  BY <1>8, <1>12, Zenon DEF FollowsInv
<1>14. q.fpc = "send" => q.op \in history
  <2> SUFFICES ASSUME q.fpc = "send" PROVE p.op \in history
    BY <1>8, Zenon
  <2>1. ~(maj < p.op) /\ p.op \in Nat
    BY <1>2, <1>5, <1>8, Zenon DEF ProcType
  <2>2. p.op <= maj
    BY <1>6, <2>1
  <2> QED BY <1>2, <1>12, <2>2, Zenon DEF ReplicaInv
<1>15. q.fpc \notin {"off", "build", "gap", "next"}
  BY <1>5, <1>8
<1>16. FetchInv(n, q)
  BY <1>6, <1>8, <1>12, <1>13, <1>14, <1>15, Zenon DEF FetchInv
<1> QED BY <1>3, <1>10, <1>11, <1>16, QuietStep, Zenon

\* The fetcher ends: on an error, on a cancelled context, when the cursor dies.
LEMMA EndStep ==
    ASSUME PushInv, NEW n \in Nodes,
           \/ (WaitMajority(n) /\ primary # n) \/ CursorDies(n) \/ FetchFails(n) \/ FetchCancelled(n)
    PROVE  PushInv'
<1>1. PICK p : p = proc[n]
  BY Zenon
<1>2. ReplicaInv /\ proc \in [Nodes -> ProcType] /\ p \in ProcType /\ BatchInv(p) /\ FetchInv(n, p)
  BY <1>1, ProcFacts, Zenon
<1>3. UNCHANGED <<mongodVars, archives>>
  BY Zenon DEF WaitMajority, CursorDies, FetchFails, FetchCancelled
<1>4. PICK q : /\ proc' = [proc EXCEPT ![n] = q]
               /\ q = [p EXCEPT !.fpc = "end", !.done = TRUE] \/ q = [p EXCEPT !.fpc = "end"]
  <2>1. CASE proc' = [proc EXCEPT ![n].fpc = "end", ![n].done = TRUE]
    <3>1. proc' = [proc EXCEPT ![n] = [p EXCEPT !.fpc = "end", !.done = TRUE]]
      BY <1>1, <1>2, <2>1, Zenon
    <3> QED BY <3>1, Zenon
  <2>2. CASE proc' = [proc EXCEPT ![n].fpc = "end"]
    BY <1>1, <2>2, Zenon
  <2> QED BY <2>1, <2>2, Zenon DEF WaitMajority, CursorDies, FetchFails, FetchCancelled
<1>6. /\ q \in ProcType /\ q.fpc = "end" /\ q.since = p.since /\ q.apc = p.apc /\ q.maj = p.maj /\ q.buf = p.buf
      /\ q.start = p.start /\ q.last = p.last
  <2>1. CASE q = [p EXCEPT !.fpc = "end", !.done = TRUE]
    BY <1>2, <2>1, Zenon DEF ProcType
  <2>2. CASE q = [p EXCEPT !.fpc = "end"]
    BY <1>2, <2>2, Zenon DEF ProcType
  <2> QED BY <1>4, <2>1, <2>2, Zenon
<1>7. Becomes(n, q)
  BY <1>2, <1>4, <1>6, Replaced, Zenon
<1>8. BatchInv(q)
  BY <1>2, <1>6, Zenon DEF BatchInv
<1>9. FetchInv(n, q)
  BY <1>2, <1>6, Zenon DEF FetchInv
<1> QED BY <1>3, <1>7, <1>8, <1>9, QuietStep, Zenon

LEMMA ReceiveStep ==
    ASSUME PushInv, NEW n \in Nodes, ReceiveOp(n)
    PROVE  PushInv'
<1>1. PICK p : p = proc[n]
  BY Zenon
<1>2. ReplicaInv /\ proc \in [Nodes -> ProcType] /\ p \in ProcType /\ BatchInv(p) /\ FetchInv(n, p)
  BY <1>1, ProcFacts, Zenon
<1>3. p.fpc = "send" /\ p.apc = "recv" /\ UNCHANGED <<mongodVars, archives>>
  BY <1>1, Zenon DEF ReceiveOp
<1>4. /\ p.op = p.cur /\ p.op \in history /\ FollowsInv(p) /\ p.since <= maj /\ p.maj <= maj
  BY <1>2, <1>3, Zenon DEF FetchInv
<1>5. p.op \in Nat \ {0} /\ p.op <= maj
  <2>1. p.op \in 1 .. maj /\ maj \in Nat
    BY <1>2, <1>4, Zenon DEF ReplicaInv
  <2> QED BY <2>1
<1>6. PICK st : st = IF p.start = ZeroTS THEN p.op ELSE p.start
  BY Zenon
<1>7. PICK ap : ap = IF Len(p.buf) + 1 < ArchiveAfterSize THEN "recv" ELSE "upload"
  BY Zenon
<1>8. PICK buf : buf = Append(p.buf, p.op)
  BY Zenon
<1>9. p.buf \in Seq(Nat) /\ p.start \in Nat /\ p.op \in Nat /\ p.last \in Nat
  BY <1>2, Zenon DEF ProcType
<1>10. buf \in Seq(Nat)
  <2>1. PICK b, x : b = p.buf /\ x = p.op
    BY Zenon
  <2>2. b \in Seq(Nat) /\ x \in Nat => Append(b, x) \in Seq(Nat)
    OBVIOUS
  <2> QED BY <1>8, <1>9, <2>1, <2>2, Zenon
<1>11. PICK q : q = [p EXCEPT !.fpc = "next", !.op = ZeroTS, !.start = st, !.last = p.op, !.buf = buf, !.apc = ap]
  BY Zenon
<1>12. st \in Nat /\ st # ZeroTS /\ ap \in {"recv", "upload"} /\ ZeroTS \in Nat
  <2>1. ZeroTS \in Nat /\ p.op # ZeroTS
    BY <1>5 DEF ZeroTS
  <2> QED BY <1>6, <1>7, <1>9, <2>1, Zenon
<1>13. /\ q \in ProcType /\ q.fpc = "next" /\ q.since = p.since /\ q.apc = ap /\ q.maj = p.maj /\ q.buf = buf
       /\ q.start = st /\ q.last = p.op /\ q.cur = p.cur
  BY <1>2, <1>9, <1>10, <1>11, <1>12, Zenon DEF ProcType
<1>14. proc' = [proc EXCEPT ![n] = q]
  BY <1>1, <1>6, <1>7, <1>8, <1>11, Zenon DEF ReceiveOp
<1>15. Becomes(n, q)
  BY <1>2, <1>13, <1>14, Replaced, Zenon
<1>16. Holds(buf, st, p.op)
  <2>1. CASE p.start = ZeroTS
    <3>1. p.buf = <<>> /\ st = p.op
      BY <1>2, <1>6, <2>1, Zenon DEF BatchInv
    <3>2. PICK x : x = p.op
      BY Zenon
    <3>3. x \in Nat \ {0} /\ x <= maj /\ buf = Append(<<>>, x) /\ st = x
      BY <1>5, <1>8, <3>1, <3>2, Zenon
    <3>4. Holds(Append(<<>>, x), x, x)
      BY <1>2, <3>3, HoldsFirst, Zenon
    <3> QED BY <3>2, <3>3, <3>4, Zenon
  <2>2. CASE p.start # ZeroTS
    <3>1. PICK b, l, x : b = p.buf /\ l = p.last /\ x = p.op
      BY Zenon
    <3>2. st = p.start /\ Holds(b, st, l)
      BY <1>2, <1>6, <2>2, <3>1, Zenon DEF BatchInv
    <3>3. x \in history /\ l < x /\ \A t \in history : ~(l < t /\ t < x)
      BY <1>4, <2>2, <3>1, Zenon DEF FollowsInv
    <3>4. Holds(Append(b, x), st, x)
      BY <1>2, <3>2, <3>3, HoldsNext, Zenon
    <3> QED BY <1>8, <3>1, <3>4, Zenon
  <2> QED BY <2>1, <2>2, Zenon
<1>17. BatchInv(q)
  BY <1>12, <1>13, <1>16, Zenon DEF BatchInv
<1>18. FetchInv(n, q)
  BY <1>4, <1>13, Zenon DEF FetchInv
<1> QED BY <1>3, <1>15, <1>17, <1>18, QuietStep, Zenon

\* Where the applier is says nothing of the fetcher.
LEMMA ApplierMoves ==
    ASSUME PushInv, NEW n \in Nodes, NEW a \in {"off", "recv", "upload", "last", "end"}, NEW d \in BOOLEAN,
           NEW p, p = proc[n], a \in {"upload", "last"} => p.start # ZeroTS,
           NEW q, q = [p EXCEPT !.apc = a, !.done = d], proc' = [proc EXCEPT ![n] = q]
    PROVE  Becomes(n, q) /\ BatchInv(q) /\ FetchInv(n, q)
<1>1. ReplicaInv /\ proc \in [Nodes -> ProcType] /\ p \in ProcType /\ BatchInv(p) /\ FetchInv(n, p)
  BY ProcFacts, Zenon
<1>2. /\ q \in ProcType /\ q.fpc = p.fpc /\ q.since = p.since /\ q.apc = a /\ q.maj = p.maj /\ q.buf = p.buf
      /\ q.start = p.start /\ q.last = p.last /\ q.cur = p.cur /\ q.op = p.op
  BY <1>1, Zenon DEF ProcType
<1>3. Becomes(n, q)
  BY <1>1, <1>2, Replaced, Zenon
<1>4. BatchInv(q)
  BY <1>1, <1>2, Zenon DEF BatchInv
<1>5. FetchInv(n, q)
  BY <1>1, <1>2, Zenon DEF FetchInv, FollowsInv
<1> QED BY <1>3, <1>4, <1>5, Zenon

\* With records in the buffer, the batch has started.
LEMMA Started ==
    ASSUME NEW p, BatchInv(p), p.buf # <<>> \/ p.apc \in {"upload", "last"}
    PROVE  p.start # ZeroTS /\ Holds(p.buf, p.start, p.last)
  BY Zenon DEF BatchInv

LEMMA SameField ==
    ASSUME NEW p \in ProcType
    PROVE  /\ p.done \in BOOLEAN /\ p.apc \in {"off", "recv", "upload", "last", "end"}
           /\ \A a : [p EXCEPT !.apc = a] = [p EXCEPT !.apc = a, !.done = p.done]
           /\ \A d : [p EXCEPT !.done = d] = [p EXCEPT !.apc = p.apc, !.done = d]
  BY Zenon DEF ProcType

LEMMA ApplierStep ==
    ASSUME PushInv, NEW n \in Nodes, ArchiveTimeout(n) \/ ChannelClosed(n) \/ Signal(n)
    PROVE  PushInv'
<1>1. PICK p : p = proc[n]
  BY Zenon
<1>2. p \in ProcType /\ BatchInv(p)
  BY <1>1, ProcFacts, Zenon
<1>3. UNCHANGED <<mongodVars, archives>>
  BY Zenon DEF ArchiveTimeout, ChannelClosed, Signal
<1>4. PICK a, d : /\ a \in {"off", "recv", "upload", "last", "end"} /\ d \in BOOLEAN
                  /\ a \in {"upload", "last"} => p.start # ZeroTS
                  /\ proc' = [proc EXCEPT ![n] = [p EXCEPT !.apc = a, !.done = d]]
  <2>1. CASE ArchiveTimeout(n)
    <3>1. p.buf # <<>> /\ proc' = [proc EXCEPT ![n] = [p EXCEPT !.apc = "upload"]]
      BY <1>1, <2>1, Zenon DEF ArchiveTimeout
    <3>2. p.start # ZeroTS
      BY <1>2, <3>1, Started, Zenon
    <3>3. p.done \in BOOLEAN /\ proc' = [proc EXCEPT ![n] = [p EXCEPT !.apc = "upload", !.done = p.done]]
      BY <1>2, <3>1, SameField, Zenon
    <3> QED BY <3>2, <3>3, Zenon
  <2>2. CASE ChannelClosed(n)
    <3>1. PICK a : /\ a = IF p.buf = <<>> THEN "end" ELSE "last"
                   /\ proc' = [proc EXCEPT ![n] = [p EXCEPT !.apc = a]]
      BY <1>1, <2>2, Zenon DEF ChannelClosed
    <3>2. a \in {"upload", "last"} => p.buf # <<>>
      BY <3>1
    <3>3. a \in {"upload", "last"} => p.start # ZeroTS
      BY <1>2, <3>2, Started, Zenon
    <3>4. a \in {"off", "recv", "upload", "last", "end"}
      BY <3>1, Zenon
    <3>5. p.done \in BOOLEAN /\ proc' = [proc EXCEPT ![n] = [p EXCEPT !.apc = a, !.done = p.done]]
      BY <1>2, <3>1, SameField, Zenon
    <3> QED BY <3>3, <3>4, <3>5, Zenon
  <2>3. CASE Signal(n)
    <3>1. proc' = [proc EXCEPT ![n] = [p EXCEPT !.done = TRUE]]
      BY <1>1, <2>3, Zenon DEF Signal
    <3>2. p.apc \in {"upload", "last"} => p.start # ZeroTS
      BY <1>2, Zenon DEF BatchInv
    <3>3. /\ p.apc \in {"off", "recv", "upload", "last", "end"}
          /\ proc' = [proc EXCEPT ![n] = [p EXCEPT !.apc = p.apc, !.done = TRUE]]
      BY <1>2, <3>1, SameField, Zenon
    <3> QED BY <3>2, <3>3, Zenon
  <2> QED BY <2>1, <2>2, <2>3, Zenon
<1>5. PICK q : q = [p EXCEPT !.apc = a, !.done = d]
  BY Zenon
<1>6. Becomes(n, q) /\ BatchInv(q) /\ FetchInv(n, q)
  BY <1>1, <1>4, <1>5, ApplierMoves, Zenon
<1> QED BY <1>3, <1>6, QuietStep, Zenon

LEMMA UploadStep ==
    ASSUME PushInv, NEW n \in Nodes, UploadOplogArchive(n) \/ UploadFails(n)
    PROVE  PushInv'
<1>1. PICK p : p = proc[n]
  BY Zenon
<1>2. ReplicaInv /\ proc \in [Nodes -> ProcType] /\ p \in ProcType /\ BatchInv(p) /\ FetchInv(n, p)
  BY <1>1, ProcFacts, Zenon
<1>3. p.apc \in {"upload", "last"} /\ UNCHANGED mongodVars
  BY <1>1, Zenon DEF UploadOplogArchive, UploadFails
<1>4. p.start # ZeroTS /\ Holds(p.buf, p.start, p.last)
  BY <1>2, <1>3, Started, Zenon
<1>5. PICK a : a = NewArchive(p.start, p.last, "oplog", p.buf)
  BY Zenon
<1>6. a.end = p.last /\ a.start = p.start /\ a.ops = p.buf
  BY <1>5 DEF NewArchive
<1>7. p.last \in Nat \ {0} /\ p.last \in Nat /\ p.last <= maj
  BY <1>4, HoldsFacts, Zenon
<1>8. a.end \in Nat /\ a.end <= maj /\ (a.type = "oplog" => Holds(a.ops, a.start, a.end))
  BY <1>4, <1>6, <1>7, Zenon
<1>9. CASE UploadOplogArchive(n)
  <2>1. archives' = Upload(archives, a)
    BY <1>1, <1>5, <1>9, Zenon DEF UploadOplogArchive
  <2>2. PICK ap : ap = IF p.apc = "last" THEN "end" ELSE "recv"
    BY Zenon
  <2>3. ap \in {"end", "recv"} /\ <<>> \in Seq(Nat)
    BY <2>2
  <2>4. PICK q : q = [p EXCEPT !.buf = <<>>, !.start = p.last, !.apc = ap]
    BY Zenon
  <2>5. /\ q \in ProcType /\ q.fpc = p.fpc /\ q.since = p.since /\ q.apc = ap /\ q.maj = p.maj /\ q.buf = <<>>
        /\ q.start = p.last /\ q.last = p.last /\ q.cur = p.cur /\ q.op = p.op
    BY <1>2, <1>7, <2>3, <2>4, Zenon DEF ProcType
  <2>6. proc' = [proc EXCEPT ![n] = q]
    <3>1. proc' = [proc EXCEPT ![n].buf = <<>>, ![n].start = p.last, ![n].apc = ap]
      BY <1>1, <1>2, <1>9, <2>2 DEF UploadOplogArchive
    <3> QED BY <1>1, <1>2, <2>4, <3>1, Zenon
  <2>7. Becomes(n, q)
    BY <1>2, <2>5, <2>6, Replaced, Zenon
  <2>8. BatchInv(q)
    <3>1. p.last # ZeroTS
      BY <1>7 DEF ZeroTS
    <3>2. Holds(<<>>, p.last, p.last)
      <4>1. PICK l : l = p.last
        BY Zenon
      <4>2. Holds(<<>>, l, l)
        BY <1>2, <1>7, <4>1, HoldsEmpty, Zenon
      <4> QED BY <4>1, <4>2, Zenon
    <3> QED BY <2>5, <3>1, <3>2, Zenon DEF BatchInv
  <2>9. FetchInv(n, q)
    BY <1>2, <1>4, <2>5, Zenon DEF FetchInv, FollowsInv
  <2> QED BY <1>3, <1>8, <2>1, <2>7, <2>8, <2>9, UploadingStep, Zenon
<1>10. CASE UploadFails(n)
  <2>1. archives' = archives \/ archives' = Upload(archives, a)
    BY <1>1, <1>5, <1>10, Zenon DEF UploadFails
  <2>2. PICK q : q = [p EXCEPT !.apc = "end", !.done = TRUE]
    BY Zenon
  <2>3. proc' = [proc EXCEPT ![n] = q]
    <3>1. proc' = [proc EXCEPT ![n].apc = "end", ![n].done = TRUE]
      BY <1>10, Zenon DEF UploadFails
    <3> QED BY <1>1, <1>2, <2>2, <3>1, Zenon
  <2>4. Becomes(n, q) /\ BatchInv(q) /\ FetchInv(n, q)
    BY <1>1, <2>2, <2>3, ApplierMoves, Zenon
  <2>5. CASE archives' = archives
    BY <1>3, <2>4, <2>5, QuietStep, Zenon
  <2>6. CASE archives' = Upload(archives, a)
    BY <1>3, <1>8, <2>4, <2>6, UploadingStep, Zenon
  <2> QED BY <2>1, <2>5, <2>6, Zenon
<1> QED BY <1>9, <1>10, Zenon

LEMMA OffStep ==
    ASSUME PushInv, NEW n \in Nodes, HandleOplogPushReturns(n) \/ Crash(n)
    PROVE  PushInv'
<1>1. ReplicaInv /\ proc \in [Nodes -> ProcType]
  BY ProcFacts, Zenon
<1>2. UNCHANGED <<mongodVars, archives>> /\ proc' = [proc EXCEPT ![n] = Off]
  BY Zenon DEF HandleOplogPushReturns, Crash
<1>3. Off \in ProcType /\ BatchInv(Off) /\ FetchInv(n, Off)
  BY <1>1, OffOk, Zenon
<1>4. Becomes(n, Off)
  BY <1>1, <1>2, <1>3, Replaced, Zenon
<1> QED BY <1>2, <1>3, <1>4, QuietStep, Zenon

LEMMA PushStutter ==
    ASSUME PushInv, UNCHANGED pushVars
    PROVE  PushInv'
<1>1. UNCHANGED <<oplog, clock, maj, primary, history, archives, proc>>
  BY Zenon DEF pushVars, mongodVars
<1>2. ReplicaInv' /\ Grown
  <2>1. ReplicaInv /\ Grown
    BY <1>1, ReplicaStep, Zenon DEF PushInv, mongodVars
  <2> QED BY <2>1, Zenon DEF Grown
<1>3. ArchivesInv'
  BY <1>1, <1>2, ArchivesStay, Zenon DEF PushInv
<1>4. ASSUME NEW n \in Nodes PROVE BatchInv(proc[n])' /\ FetchInv(n, proc[n])'
  <2>1. PICK p : p = proc[n]
    BY Zenon
  <2>2. ReplicaInv /\ p \in ProcType /\ BatchInv(p) /\ FetchInv(n, p)
    BY <2>1, ProcFacts, Zenon
  <2>3. p.fpc = "wait" /\ primary' = n => p.op \in oplog' \cup history'
    BY <1>1, <2>2, Zenon DEF FetchInv
  <2>4. BatchInv(p)' /\ FetchInv(n, p)'
    BY <1>2, <2>2, <2>3, ProcStays, Zenon
  <2> QED BY <1>1, <2>1, <2>4, Zenon
<1> QED BY <1>1, <1>2, <1>3, <1>4, Zenon DEF PushInv, ProcInv

LEMMA PushInitial ==
    ASSUME PushInit
    PROVE  PushInv
<1>1. ReplicaInv
  BY DEF PushInit, ReplicaInv
<1>2. ProcInv
  <2>1. \A n \in Nodes : Off \in ProcType /\ BatchInv(Off) /\ FetchInv(n, Off)
    BY <1>1, OffOk, Zenon
  <2>2. proc = [n \in Nodes |-> Off]
    BY Zenon DEF PushInit
  <2> QED BY <2>1, <2>2, Zenon DEF ProcInv
<1>3. ArchivesInv
  <2>1. PICK a : a = NewArchive(1, 1, "oplog", <<1>>)
    BY Zenon
  <2>2. a.end = 1 /\ a.start = 1 /\ a.ops = <<1>>
    BY <2>1 DEF NewArchive
  <2>3. maj = 1 /\ 1 \in Nat \ {0} /\ 1 <= maj /\ <<1>> = Append(<<>>, 1)
    BY DEF PushInit
  <2>4. Holds(Append(<<>>, 1), 1, 1)
    BY <1>1, <2>3, HoldsFirst, Zenon
  <2>5. archives \subseteq {a}
    BY <2>1, Zenon DEF PushInit
  <2> QED BY <2>2, <2>3, <2>4, <2>5, Zenon DEF ArchivesInv
<1> QED BY <1>1, <1>2, <1>3, Zenon DEF PushInv

LEMMA PushPreserved ==
    ASSUME SlowElections, PushInv, [PushNext]_pushVars
    PROVE  PushInv'
<1>1. CASE UNCHANGED pushVars
  BY <1>1, PushStutter, Zenon
<1>2. CASE Write \/ Replicate \/ CapOplog \/ \E n \in Nodes : Elect(n)
  BY <1>2, MongodStep, Zenon
<1>3. ASSUME NEW n \in Nodes, PushStep(n) PROVE PushInv'
  BY <1>3, ResolveStep, BuildStep, GapStep, FetchStep, WaitStep, EndStep, ReceiveStep, ApplierStep, UploadStep,
     OffStep, Zenon DEF PushStep
<1>4. ASSUME NEW n \in Nodes, FetchFails(n) \/ UploadFails(n) \/ Signal(n) \/ Crash(n) PROVE PushInv'
  BY <1>4, EndStep, UploadStep, ApplierStep, OffStep, Zenon
<1> QED BY <1>1, <1>2, <1>3, <1>4, Zenon DEF PushNext

LEMMA PushInvContiguous ==
    ASSUME PushInv
    PROVE  ArchivesContiguous
  BY Zenon DEF PushInv, ArchivesInv, Holds, ArchivesContiguous

\* Whatever the interleaving of writes, replication, elections with rollback, capping of
\* the oplog, crashes, signals and failed uploads, for any number of nodes and any size of
\* a batch: every archive StorageApplier.Apply uploads holds exactly the records of its
\* interval that a majority has, in order, because CursorMajFetcher.Fetch hands over each
\* record only once a majority has it, and skips none.  A fetcher that waits must see each
\* loss of the primary role before the node is elected again.
THEOREM ArchivesAreContiguous ==
    ASSUME SlowElections
    PROVE  PushSpec => []ArchivesContiguous
<1>1. PushInit => PushInv
  BY PushInitial
<1>2. PushInv /\ [PushNext]_pushVars => PushInv'
  BY PushPreserved
<1>3. PushInv => ArchivesContiguous
  BY PushInvContiguous
<1> QED BY <1>1, <1>2, <1>3, PTL DEF PushSpec
=============================================================================
