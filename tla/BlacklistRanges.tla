--------------------------- MODULE BlacklistRanges ---------------------------
(***************************************************************************)
(* The lookup structure of internal/blacklist/manager.go: the listed CIDR  *)
(* blocks become spans, sorted and merged (buildBlacklistRangeCache), and   *)
(* an address is looked up by binary search (inRange).                      *)
(*                                                                         *)
(* Addresses are numbers: IPv4 below FamilySize, IPv6 from there on, which  *)
(* is how netip.Addr.Compare orders them.  A block is an aligned run of     *)
(* 2^k addresses of one family.  The loop that merges the sorted spans is   *)
(* one action, taken once per span.                                         *)
(***************************************************************************)
EXTENDS Naturals, Integers, Sequences, SequencesExt, FiniteSets

CONSTANTS AddressBits, MaxListed

FamilySize == 2^AddressBits
Address == 0..(2 * FamilySize - 1)
SameFamily(a, b) == (a < FamilySize) <=> (b < FamilySize)

\* prefix.Masked() and lastAddressInPrefix: the first and the last address of a block.
Block(a, k) == [start |-> (a \div 2^k) * 2^k, end |-> (a \div 2^k) * 2^k + 2^k - 1]
Prefix == {Block(a, k) : a \in Address, k \in 0..AddressBits}

\* The last address of a block is none before its first, and of its family.
Span == [start : Nat, end : Nat]
SpanOfFamily(s) == s \in Span /\ s.start =< s.end /\ SameFamily(s.start, s.end)
RangesConstants == FamilySize \in Nat /\ \A p \in Prefix : SpanOfFamily(p)

VARIABLES listed,   \* the blocks of the lists
          pending,  \* those of them that the loop has not come to
          merged    \* the spans it has made

rangeVars == <<listed, pending, merged>>

RangesInit == listed = {} /\ pending = {} /\ merged = <<>>

ListPrefix(p) ==
  /\ merged = <<>> /\ Cardinality(listed) < MaxListed
  /\ listed' = listed \union {p} /\ pending' = pending \union {p}
  /\ UNCHANGED merged

\* sort.Slice: by start, and of two spans that start together the longer first.
SpanBefore(p, q) == p.start < q.start \/ (p.start = q.start /\ p.end > q.end)

\* A span that starts inside the last merged one (of its family) extends it.
ExtendLastTo(spans, span) == [spans EXCEPT ![Len(spans)].end = span.end]
ExtendLast(spans, span) ==
  [spans EXCEPT ![Len(spans)].end = IF span.end > @ THEN span.end ELSE @]
MergeSpan(spans, span) ==
  IF /\ spans # <<>>
     /\ SameFamily(Last(spans).start, span.start)
     /\ span.start =< Last(spans).end
  THEN ExtendLast(spans, span)
  ELSE Append(spans, span)
MergeNext(span) ==
  /\ span \in pending /\ \A q \in pending \ {span} : SpanBefore(span, q)
  /\ merged' = MergeSpan(merged, span)
  /\ pending' = pending \ {span}
  /\ UNCHANGED listed

RangesNext == \E p \in Prefix : ListPrefix(p) \/ MergeNext(p)
RangesSpec == RangesInit /\ [][RangesNext]_rangeVars

-----------------------------------------------------------------------------
\* sort.Search finds how many spans start at the address or before it; the
\* last of them is the candidate.
SearchIndex(spans, a) ==
  CHOOSE i \in 0..Len(spans) :
    /\ \A j \in 1..i : spans[j].start =< a
    /\ \A j \in (i + 1)..Len(spans) : spans[j].start > a
InRange(a, spans) ==
  LET i == SearchIndex(spans, a) IN
  /\ i > 0
  /\ SameFamily(spans[i].start, a)
  /\ a =< spans[i].end

-----------------------------------------------------------------------------
\* Whatever blocks are listed, nested, equal or of both families, the search in
\* the merged spans finds exactly the addresses that some block merged so far
\* holds; with none pending, FilterProxies neither lets an address of a listed
\* block through nor stops any other.
LookupExact ==
  \A a \in Address :
    InRange(a, merged) <=> \E p \in listed \ pending : a \in p.start .. p.end
=============================================================================
