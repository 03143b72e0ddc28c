----------------------------- MODULE PrefixScan -----------------------------
(***************************************************************************)
(* Prefix scans with cursor pagination: ScanPrefix and prefixUpperBound of *)
(* internal/storage/pebble.go under ListKeys of internal/service and       *)
(* api/http, called page after page by a client while keys are written and *)
(* deleted.  A key is a sequence of bytes; each page reads one consistent  *)
(* view of the store, because a Pebble iterator does.                      *)
(***************************************************************************)
EXTENDS Integers, Sequences, SequencesExt, FiniteSets

CONSTANTS
  MaxByte,     \* 0xff in the program
  KeySpace,    \* the keys that can be in the store
  AskedPrefixes,    \* the prefixes clients ask for
  Limits,      \* the limit parameters clients send, zero and negative ones too
  defaultLimit, maxLimit,  \* 100 and 1000 in the program
  MaxWrites    \* bound on the writes that run during a scan

Bytes == 0 .. MaxByte

ASSUME PrefixScanAssumption ==
  /\ MaxByte \in Nat \ {0}
  /\ KeySpace \subseteq Seq(Bytes) /\ AskedPrefixes \subseteq Seq(Bytes)
  /\ Limits \subseteq Int
  /\ defaultLimit \in Nat \ {0} /\ maxLimit \in Nat \ {0}
  /\ defaultLimit <= maxLimit
  /\ MaxWrites \in Nat

VARIABLES
  db,        \* the keys present
  prefix,    \* of the client's scan
  limit,     \* of the client's scan
  cursor,    \* what the client sends with its next request; <<>> for none
  pages,     \* the keys returned so far, in order
  done,      \* the last answer carried no nextCursor
  writes,    \* writes so far
  stable,    \* history: the keys present since the scan began
  seen       \* history: the keys present at some time of the scan

scanVars == <<cursor, pages, done>>
vars == <<db, prefix, limit, cursor, pages, done, writes, stable, seen>>

-----------------------------------------------------------------------------
(* bytes.Compare(a, b) < 0, the order of Pebble's keys.                     *)
Less(a, b) ==
  \E n \in 0 .. Len(a) :
    /\ n < Len(b)
    /\ \A i \in 1 .. n : a[i] = b[i]
    /\ n < Len(a) => a[n + 1] < b[n + 1]

AtLeast(a, b) == ~Less(a, b)

Nil == <<>>   \* a nil slice: no upper bound

\* Mutant: the trailing 0xff bytes are kept.
UpperBoundKeepingTail(p) ==
  LET below == {i \in DOMAIN p : p[i] < MaxByte}
  IN  IF below = {} THEN Nil
      ELSE LET last == CHOOSE i \in below : \A j \in below : j <= i
           IN  [p EXCEPT ![last] = @ + 1]

\* The last byte below 0xff is incremented and what follows it is cut.
prefixUpperBound(p) ==
  LET below == {i \in DOMAIN p : p[i] < MaxByte}
  IN  IF below = {} THEN Nil
      ELSE LET last == CHOOSE i \in below : \A j \in below : j <= i
           IN  [SubSeq(p, 1, last) EXCEPT ![last] = @ + 1]

\* Mutant: the iterator has no UpperBound.
InLowerBound(k, p) == AtLeast(k, p)

\* LowerBound and UpperBound of the iterator.
InBounds(k, p) ==
  /\ AtLeast(k, p)
  /\ prefixUpperBound(p) # Nil => Less(k, prefixUpperBound(p))

\* Keys in the iterator's order.
Sorted(S) ==
  [i \in 1 .. Cardinality(S) |->
     CHOOSE k \in S : Cardinality({j \in S : Less(j, k)}) = i - 1]

\* Up to lim keys from the cursor on, and the key off places after the last.
Page(p, lim, cur, off) ==
  LET seek  == IF cur # <<>> THEN cur ELSE p
      found == Sorted({k \in db : InBounds(k, p) /\ AtLeast(k, seek)})
      n     == IF Len(found) < lim THEN Len(found) ELSE lim
  IN  [results    |-> SubSeq(found, 1, n),
       nextCursor |-> IF Len(found) >= lim + off THEN found[lim + off] ELSE <<>>]

\* Mutants: the cursor names the last key returned, or skips a key.
ScanPrefixLastKey(p, lim, cur) == Page(p, lim, cur, 0)
ScanPrefixSkips(p, lim, cur)   == Page(p, lim, cur, 2)

\* One page: the cursor names the first key not returned.
ScanPrefix(p, lim, cur) == Page(p, lim, cur, 1)

\* Mutant: a limit above the maximum becomes 0.
ClampToZero(l) == IF l <= 0 THEN defaultLimit ELSE IF l > maxLimit THEN 0 ELSE l

\* The handler and the service both do this to the limit.
Clamped(l) == IF l <= 0 THEN defaultLimit ELSE IF l > maxLimit THEN maxLimit ELSE l

-----------------------------------------------------------------------------
\* Every variable has its type; a cursor is a key with the prefix.
TypeOK ==
  /\ db \subseteq KeySpace /\ stable \subseteq db /\ db \subseteq seen
  /\ prefix \in AskedPrefixes /\ limit \in Limits
  /\ cursor \in {k \in KeySpace : IsPrefix(prefix, k)} \cup {<<>>}
  /\ pages \in Seq(KeySpace)
  /\ done \in BOOLEAN
  /\ writes \in 0 .. MaxWrites
  /\ seen \subseteq KeySpace

Init ==
  /\ db \in SUBSET KeySpace /\ IsFiniteSet(db)
  /\ prefix \in AskedPrefixes
  /\ limit \in Limits
  /\ cursor = <<>> /\ pages = <<>> /\ done = FALSE
  /\ writes = 0
  /\ stable = db /\ seen = db

\* A request for the next page, from HTTP to the iterator and back.
ListKeys ==
  /\ ~done
  /\ LET page == ScanPrefix(prefix, Clamped(limit), cursor)
     IN  /\ pages' = pages \o page.results
         /\ cursor' = page.nextCursor
         /\ done' = (page.nextCursor = <<>>)
  /\ UNCHANGED <<db, prefix, limit, writes, stable, seen>>

Put(k) ==
  /\ writes < MaxWrites
  /\ k \notin db
  /\ db' = db \cup {k} /\ seen' = seen \cup {k}
  /\ writes' = writes + 1
  /\ UNCHANGED <<prefix, limit, scanVars, stable>>

Delete(k) ==
  /\ writes < MaxWrites
  /\ k \in db
  /\ db' = db \ {k} /\ stable' = stable \ {k}
  /\ writes' = writes + 1
  /\ UNCHANGED <<prefix, limit, scanVars, seen>>

\* The scan has ended; the client asks no more.
Finished == done /\ UNCHANGED vars

Next ==
  \/ ListKeys
  \/ \E k \in KeySpace : ~done /\ (Put(k) \/ Delete(k))
  \/ Finished

\* The client asks for page after page.
Spec == Init /\ [][Next]_vars /\ WF_vars(ListKeys)

-----------------------------------------------------------------------------
(* The bounds handed to the iterator hold exactly the keys with the prefix, *)
(* also when the prefix ends in 0xff or consists of nothing else.           *)
BoundsArePrefix ==
  \A k \in KeySpace : InBounds(k, prefix) <=> IsPrefix(prefix, k)

(* Whatever is written between two pages, the keys come in strictly         *)
(* increasing order over all pages (so none comes twice), and each has the  *)
(* prefix and was present at some time of the scan.                         *)
PagesSound ==
  /\ \A i \in 1 .. Len(pages) - 1 : Less(pages[i], pages[i + 1])
  /\ \A i \in DOMAIN pages : IsPrefix(prefix, pages[i]) /\ pages[i] \in seen

(* When the last page has no nextCursor, every key with the prefix that was *)
(* present all along has been returned.                                     *)
PagesComplete ==
  done => \A k \in stable : IsPrefix(prefix, k) => \E i \in DOMAIN pages : pages[i] = k

(* A scan ends: no page is empty while it names a next one.                 *)
ScanEnds == <>done
=============================================================================
