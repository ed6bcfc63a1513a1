-------------------------------- MODULE Pages --------------------------------
(***************************************************************************)
(* The paged queries of the staking client: a caller asks for one page     *)
(* after the other while entries come and go at the node.  ParsePage turns *)
(* a page into an offset and a limit, in unsigned numbers of Width bits.   *)
(***************************************************************************)
EXTENDS Integers, Sequences, FiniteSets, SequencesExt

CONSTANTS Width,        \* bits of an unsigned number: 64 in the code
          Entries,      \* numbers: the keys of the entries, in the order of the store
          FirstPages,   \* the pages that the caller starts with
          Sizes,        \* the sizes of a page it asks for
          MaxChanges    \* bound: entries that come or go

VARIABLES stored,       \* the entries at the node
          page,         \* the page to ask for next
          size,
          read,         \* the pages read
          done,         \* a page was not full
          first,        \* history: the page asked for first
          came, gone    \* history: entries that came and went since

vars == <<stored, page, size, read, done, first, came, gone>>

-----------------------------------------------------------------------------
\* Mutant: pages are counted from 0.
ParsePageFromZero(p, s) ==
    LET s1 == IF s = 0 THEN 10 ELSE s
    IN  [offset |-> (p * s1) % 2^Width, limit |-> s1]

\* Mutant: the product loses its highest bit.
ParsePageNarrow(p, s) ==
    LET p1 == IF p = 0 THEN 1 ELSE p
        s1 == IF s = 0 THEN 10 ELSE s
    IN  [offset |-> ((p1 - 1) * s1) % 2^(Width - 1), limit |-> s1]

ParsePage(p, s) ==
    LET p1 == IF p = 0 THEN 1 ELSE p
        s1 == IF s = 0 THEN 10 ELSE s
    IN  [offset |-> ((p1 - 1) * s1) % 2^Width, limit |-> s1]

\* The answer of the node to an offset and a limit: entries in the order of their keys.
Paginate(r) ==
    LET all == SetToSortSeq(stored, <)
        last == IF r.offset + r.limit < Len(all) THEN r.offset + r.limit ELSE Len(all)
    IN  SubSeq(all, r.offset + 1, last)

-----------------------------------------------------------------------------
Init == /\ stored \in SUBSET Entries
        /\ first \in FirstPages /\ page = first
        /\ size \in Sizes
        /\ read = << >> /\ done = FALSE
        /\ came = {} /\ gone = {}

\* Mutant: a page is asked for again.
QueryTwice ==
    /\ ~ done
    /\ LET r == ParsePage(page, size)
           answer == Paginate(r)
       IN  /\ read' = Append(read, answer)
           /\ done' = (Len(answer) < r.limit)
           /\ page' = IF Len(read) = 1 THEN page ELSE page + 1
    /\ UNCHANGED <<stored, size, first, came, gone>>

\* One page of QueryValidators, QueryValidatorDelegations and the others like them.
QueryPage ==
    /\ ~ done
    /\ LET r == ParsePage(page, size)
           answer == Paginate(r)
       IN  /\ read' = Append(read, answer)
           /\ done' = (Len(answer) < r.limit)
           /\ page' = page + 1
    /\ UNCHANGED <<stored, size, first, came, gone>>

Changes == Cardinality(came) + Cardinality(gone) < MaxChanges /\ ~ done /\ read # << >>

Come(e) == /\ Changes /\ e \notin stored
           /\ stored' = stored \cup {e} /\ came' = came \cup {e}
           /\ UNCHANGED <<page, size, read, done, first, gone>>

Go(e) == /\ Changes /\ e \in stored
         /\ stored' = stored \ {e} /\ gone' = gone \cup {e}
         /\ UNCHANGED <<page, size, read, done, first, came>>

Next == QueryPage \/ \E e \in Entries : Come(e) \/ Go(e)

Spec == Init /\ [][Next]_vars

-----------------------------------------------------------------------------
(* Properties *)

Entire == FlattenSeq(read)
Start == IF first = 0 THEN 1 ELSE first
Fits == (page - 1) * (IF size = 0 THEN 10 ELSE size) < 2^Width

\* A caller that walks from the first page until one is not full has read every
\* entry that was there all the time, unless one before it went: the later entries
\* move up by one and the next page starts after one of them.
MissedOnlyIfOneWent ==
    done /\ Start = 1 /\ Fits =>
        \A e \in stored \ came :
            (\A k \in DOMAIN Entire : Entire[k] # e) => \E g \in gone : g < e

\* No entry is read twice, unless one came before it, or the walk began with page
\* 0, which is page 1 again, or the offset wrapped around.
TwiceOnlyIfOneCame ==
    Fits =>
        \A j, k \in DOMAIN Entire :
            j < k /\ Entire[j] = Entire[k] =>
                first = 0 \/ \E c \in came : c <= Entire[k]

\* A page beyond the last entry is empty; only if the product of ParsePage exceeds
\* an unsigned number does an early page come back in its place.
EarlyPageOnlyIfWrapped ==
    \A k \in DOMAIN read :
        LET n == IF first = 0 /\ k = 1 THEN 1 ELSE first + k - 1
            begin == (n - 1) * (IF size = 0 THEN 10 ELSE size)
        IN  read[k] # << >> => begin < Cardinality(Entries) \/ begin >= 2^Width
=============================================================================
