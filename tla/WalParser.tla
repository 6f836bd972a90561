------------------------------- MODULE WalParser -------------------------------
(***************************************************************************)
(* internal/walparser: takes the pages of a WAL file and returns the       *)
(* records on them.  A record may begin on one page and end on a later one *)
(* or in a later file; what a page begins with that belongs to a record    *)
(* the parser has not seen the beginning of is handed back as the tail.    *)
(*                                                                         *)
(* WAL is a sequence of units.  A unit is <<r, k>>, the k-th of record r,  *)
(* or Zero.  A record begins with HeaderSize units that hold its length.   *)
(***************************************************************************)
EXTENDS Integers, Sequences

CONSTANTS
    HeaderSize,     \* XLogRecordHeaderSize, in units
    PageSize,       \* WalPageSize without the page header, in units
    PagesInFile     \* pages of a WAL segment

ASSUME ParserAssumption ==
    HeaderSize \in Nat \ {0} /\ PageSize \in Nat \ {0} /\ PagesInFile \in Nat \ {0}

Zero == <<0, 0>>
Prefix(s, n) == SubSeq(s, 1, IF n < Len(s) THEN n ELSE Len(s))
Rest(s, n) == SubSeq(s, n + 1, Len(s))
allZero(data) == \A i \in DOMAIN data : data[i] = Zero

\* A layout is a sequence of records [len, end, switch].  The header of a record tells
\* its length.
TotalRecordLength(layout, data) == layout[data[1][1]].len

isWALSwitch(layout, r) == layout[r].switch

NewWalParser == [data |-> <<>>, begins |-> FALSE]

setCurrentRecordData(data) == [data |-> data, begins |-> data # <<>>]

LoadWalParserFromCurrentRecordHead(head) == [data |-> head, begins |-> TRUE]

\* Save and LoadWalParser: the data alone are kept.
SaveAndLoad(parser) == setCurrentRecordData(parser.data)

\* A record changes two blocks of a relation; the second block reference has no
\* relation of its own.
BlocksOf(r) == <<[sameRel |-> FALSE, rel |-> r % 2, no |-> r], [sameRel |-> TRUE, rel |-> 0, no |-> r + 1]>>

-----------------------------------------------------------------------------
\* A block reference without relation is to the one of the reference before it.
readXLogRecordBlockHeaderPart(r) ==
    LET blocks == BlocksOf(r)
        rel[i \in DOMAIN blocks] == IF blocks[i].sameRel THEN rel[i - 1] ELSE blocks[i].rel
    IN  {[rel |-> rel[i], no |-> blocks[i].no] : i \in DOMAIN blocks}

ExtractBlockLocations(records) == UNION {readXLogRecordBlockHeaderPart(records[i]) : i \in DOMAIN records}

\* Bytes are a record when they are all of it, from its header on.
ParseXLogRecordFromBytes(layout, data) ==
    IF /\ data # <<>> /\ data[1] # Zero /\ data[1][2] = 1
       /\ data = [k \in 1 .. TotalRecordLength(layout, data) |-> <<data[1][1], k>>]
    THEN [ok |-> TRUE, record |-> data[1][1]] ELSE [ok |-> FALSE, record |-> 0]

\* What follows on the page: a whole record, the head of one, nothing, or zeros.
tryReadXLogRecordData(layout, data) ==
    IF data = <<>> THEN [kind |-> "head", data |-> <<>>]
    ELSE IF data[1] = Zero THEN [kind |-> IF allZero(data) THEN "zero" ELSE "error", data |-> <<>>]
    ELSE IF Len(data) < HeaderSize THEN [kind |-> "head", data |-> data]
    ELSE IF Len(data) < TotalRecordLength(layout, data) THEN [kind |-> "head", data |-> data]
    ELSE [kind |-> "whole", data |-> Prefix(data, TotalRecordLength(layout, data))]

\* The records of a page up to the one that does not end on it, or a WAL switch.
readXLogPage(layout, data) ==
    LET from[i \in 0 .. Len(data)] ==
            LET next == tryReadXLogRecordData(layout, Rest(data, i))
                record == ParseXLogRecordFromBytes(layout, next.data)
                rest == from[i + Len(next.data)]
            IN  CASE next.kind = "head" -> [err |-> "none", records |-> <<>>, head |-> next.data]
                  [] next.kind = "zero" -> [err |-> "partial", records |-> <<>>, head |-> <<>>]
                  [] next.kind = "whole" /\ record.ok ->
                        IF isWALSwitch(layout, record.record)
                        THEN [err |-> "none", records |-> <<record.record>>, head |-> <<>>]
                        ELSE [rest EXCEPT !.records = <<record.record>> \o @]
                  [] OTHER -> [err |-> "error", records |-> <<>>, head |-> <<>>]
    IN  from[0]

\* A page is [remaining, data]: its header says how much of a record begun earlier
\* is still to come.
parsePage(layout, parser, page) ==
    LET trailing == Prefix(page.data, page.remaining)
        continued == ParseXLogRecordFromBytes(layout, parser.data \o trailing)
        noMore == [err |-> "none", records |-> <<>>, head |-> <<>>, trailing |-> trailing]
        records == readXLogPage(layout, Rest(page.data, page.remaining))
    IN  IF allZero(page.data) THEN [noMore EXCEPT !.err = "zeropage"]
        ELSE IF Len(trailing) # page.remaining THEN noMore
        ELSE IF parser.begins /\ ~continued.ok THEN [noMore EXCEPT !.err = "error"]
        ELSE IF parser.begins /\ isWALSwitch(layout, continued.record) THEN noMore
        ELSE [err |-> records.err, records |-> records.records, head |-> records.head, trailing |-> trailing]

\* The tail of a record without beginning, the records that end on the page, and the
\* parser after it.
ParseRecordsFromPage(layout, parser, page) ==
    LET p == parsePage(layout, parser, page)
        current == parser.data \o p.trailing
        record == ParseXLogRecordFromBytes(layout, current)
    IN  IF p.err \notin {"none", "partial"}
        THEN [err |-> p.err, tail |-> <<>>, records |-> <<>>, parser |-> parser]
        ELSE IF Len(p.trailing) < page.remaining
        THEN [err |-> p.err, tail |-> <<>>, records |-> <<>>, parser |-> [parser EXCEPT !.data = current]]
        ELSE IF ~parser.begins
        THEN [err |-> p.err, tail |-> current, records |-> p.records, parser |-> setCurrentRecordData(p.head)]
        ELSE [err |-> p.err, tail |-> <<>>, records |-> <<record.record>> \o p.records,
              parser |-> setCurrentRecordData(p.head)]

-----------------------------------------------------------------------------
(* What the server wrote: record r of a layout takes the len units that end at *)
(* its end; the rest of a file after a WAL switch is zero.                     *)

FileSize == PageSize * PagesInFile

UnitAt(layout, p) ==
    LET there == {r \in DOMAIN layout : layout[r].end - layout[r].len < p /\ p <= layout[r].end}
    IN  IF there = {} THEN Zero ELSE LET r == CHOOSE r \in there : TRUE IN <<r, p - layout[r].end + layout[r].len>>

\* Page number p, from 0.
PageAt(layout, p) ==
    LET data == [i \in 1 .. PageSize |-> UnitAt(layout, p * PageSize + i)]
        first == data[1]
    IN  [data |-> data,
         remaining |-> IF first = Zero \/ first[2] = 1 THEN 0 ELSE layout[first[1]].len - first[2] + 1]

FilePages(layout, f) == [i \in 1 .. PagesInFile |-> PageAt(layout, f * PagesInFile + i - 1)]
=============================================================================
