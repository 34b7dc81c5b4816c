------------------------------ MODULE ListPager ------------------------------
(***************************************************************************)
(* list and list_with_delimiter of durable-object/src/r2_store.rs and      *)
(* container/src/binding_store.rs: one listing, fetched page by page while *)
(* others create and delete objects.  list is a stream that its consumer   *)
(* polls, so what it yields may be older than the bucket;                  *)
(* list_with_delimiter gathers all pages and then returns.                 *)
(*                                                                         *)
(* The keys under the listed prefix are numbered in R2's order.  With the  *)
(* delimiter, the keys of Nested are rolled up into one common prefix.     *)
(* A cursor is the last key that the pages so far have covered.            *)
(***************************************************************************)
EXTENDS Naturals, Sequences, FiniteSets, Functions

CONSTANTS
    MaxKey,     \* bound: the keys there can be
    Nested,     \* the keys below the listed level
    NoCursor    \* None

Keys == 1..MaxKey
Cursors == 0..MaxKey

ASSUME MaxKeyAssumption == MaxKey \in Nat
ASSUME NestedAssumption == Nested \subseteq Keys
ASSUME NoCursorAssumption == NoCursor \notin Cursors

VARIABLES
    present,    \* the keys in the bucket
    mode,       \* "list" or "delimited"
    state,      \* of the stream, or of the call
    cursor,     \* where the next page starts
    buffered,   \* items of the last page, the next one at the end
    finished,   \* the last page has been fetched
    listed,     \* the keys yielded, or gathered
    prefixes,   \* how often the common prefix was gathered
    always,     \* history: keys present ever since the listing began
    ever        \* history: keys present at some time since

call == <<mode, state, cursor, buffered, finished, listed, prefixes>>
vars == <<present, call, always, ever>>

ListTypeOK ==
    /\ present \in SUBSET Keys
    /\ mode \in {"list", "delimited"}
    /\ state \in {"running", "ended", "error"}
    /\ cursor \in Cursors \cup {NoCursor}
    /\ buffered \in Seq(Keys)
    /\ finished \in BOOLEAN
    /\ listed \in Seq(Keys)
    /\ prefixes \in 0..MaxKey
    /\ always \in SUBSET Keys
    /\ ever \in SUBSET Keys

Init ==
    /\ present \in SUBSET Keys
    /\ mode \in {"list", "delimited"}
    /\ state = "running"
    /\ cursor = 0 /\ buffered = <<>> /\ finished = FALSE
    /\ listed = <<>> /\ prefixes = 0
    /\ always = present /\ ever = present

----------------------------------------------------------------------------
(* R2. *)

Create(k) ==
    /\ state = "running" /\ k \notin present
    /\ present' = present \cup {k}
    /\ ever' = ever \cup {k}
    /\ UNCHANGED <<call, always>>

Delete(k) ==
    /\ state = "running" /\ k \in present
    /\ present' = present \ {k}
    /\ always' = always \ {k}
    /\ UNCHANGED <<call, ever>>

\* R2 ends a page where it likes, also without a key on it.  It goes further
\* with every truncated page; a page that is not truncated misses nothing.
PageEnd(last, truncated) ==
    /\ last >= cursor
    /\ truncated => last > cursor
    /\ ~truncated => \A k \in present : k <= last

Span(last) == (cursor + 1)..last

\* The objects of a page, those below the delimiter left out; R2 lists them in
\* order.
OnPage(last) == {k \in present \cap Span(last) : mode = "list" \/ k \notin Nested}

Objects(last) ==
    {page \in [1..Cardinality(OnPage(last)) -> OnPage(last)] :
        /\ Range(page) = OnPage(last)
        /\ \A i, j \in DOMAIN page : i < j => page[i] < page[j]}

----------------------------------------------------------------------------
(* The adapter. *)

\* MUTANT: the cursor is used although the page is not truncated.
StaleCursor(truncated, last) == last

\* MUTANT: the next page begins one key too far.
CursorPastPage(truncated, last) == IF truncated THEN last + 1 ELSE NoCursor

\* next_list_cursor: a cursor counts only on a truncated page.
NextListCursor(truncated, last) == IF truncated THEN last ELSE NoCursor

Fetching == state = "running" /\ buffered = <<>> /\ ~finished

Yield ==
    /\ state = "running" /\ buffered # <<>>
    /\ listed' = Append(listed, buffered[Len(buffered)])
    /\ buffered' = SubSeq(buffered, 1, Len(buffered) - 1)
    /\ UNCHANGED <<present, mode, state, cursor, finished, prefixes, always, ever>>

StreamEnds ==
    /\ state = "running" /\ buffered = <<>> /\ finished
    /\ state' = "ended"
    /\ UNCHANGED <<present, mode, cursor, buffered, finished, listed, prefixes, always, ever>>

\* MUTANT: the items are popped from the end without being reversed first.
Unreversed(items) == items

Reversed(items) == [i \in 1..Len(items) |-> items[Len(items) + 1 - i]]

\* list: the first item of a page is yielded at once, the rest is buffered.
PageYields(last, truncated) ==
    /\ Fetching /\ mode = "list" /\ PageEnd(last, truncated)
    /\ OnPage(last) # {}
    /\ \E page \in Objects(last) :
         LET items == Reversed(page) IN
         /\ listed' = Append(listed, items[Len(items)])
         /\ buffered' = SubSeq(items, 1, Len(items) - 1)
    /\ cursor' = NextListCursor(truncated, last)
    /\ finished' = (cursor' = NoCursor)
    /\ UNCHANGED <<present, mode, state, prefixes, always, ever>>

\* MUTANT: a page without objects ends the listing.
EmptyPageEnds(last, truncated) ==
    /\ Fetching /\ mode = "list" /\ PageEnd(last, truncated)
    /\ OnPage(last) = {}
    /\ state' = "ended"
    /\ UNCHANGED <<present, mode, cursor, buffered, finished, listed, prefixes, always, ever>>

\* list: an empty page is passed over, or the stream ends with it.
EmptyPage(last, truncated) ==
    /\ Fetching /\ mode = "list" /\ PageEnd(last, truncated)
    /\ OnPage(last) = {}
    /\ cursor' = NextListCursor(truncated, last)
    /\ state' = IF cursor' = NoCursor THEN "ended" ELSE "running"
    /\ UNCHANGED <<present, mode, buffered, finished, listed, prefixes, always, ever>>

\* list_with_delimiter: a page is gathered; R2 may name the common prefix on
\* every page that has a key under it.
PageGathered(last, truncated) ==
    /\ Fetching /\ mode = "delimited" /\ PageEnd(last, truncated)
    /\ \E page \in Objects(last) : listed' = listed \o page
    /\ prefixes' = prefixes + (IF present \cap Nested \cap Span(last) = {} THEN 0 ELSE 1)
    /\ cursor' = NextListCursor(truncated, last)
    /\ state' = IF cursor' = NoCursor THEN "ended" ELSE "running"
    /\ UNCHANGED <<present, mode, buffered, finished, always, ever>>

\* list_page fails: the stream yields the error and ends, the call returns it.
PageFails ==
    /\ Fetching
    /\ state' = "error"
    /\ UNCHANGED <<present, mode, cursor, buffered, finished, listed, prefixes, always, ever>>

PageArrives ==
    \E last \in Cursors, truncated \in BOOLEAN :
        \/ PageYields(last, truncated)
        \/ EmptyPage(last, truncated)
        \/ PageGathered(last, truncated)

\* The consumer polls the stream, or the caller awaits the call.
Poll == Yield \/ StreamEnds \/ PageArrives

Over == state # "running" /\ UNCHANGED vars

Next ==
    \/ \E k \in Keys : Create(k) \/ Delete(k)
    \/ Poll \/ PageFails \/ Over

Spec == Init /\ [][Next]_vars

\* The consumer reads on, and R2 answers.
FairSpec == Spec /\ WF_vars(Poll)

----------------------------------------------------------------------------
\* What is listed was there at some time of the listing, each key once and in
\* order, whatever is created and deleted between and during the pages.
ListingIsTrue ==
    /\ Range(listed) \subseteq ever
    /\ \A i, j \in DOMAIN listed : i < j => listed[i] < listed[j]

\* A listing that ends without an error names every key, or its common prefix,
\* that was there all the time: no page is lost at a boundary, and no empty page
\* is taken for the last one.
ListingIsComplete ==
    state = "ended" =>
        IF mode = "list"
        THEN always \subseteq Range(listed)
        ELSE /\ always \ Nested \subseteq Range(listed)
             /\ always \cap Nested # {} => prefixes > 0

\* A listing ends, although the bucket keeps changing: each page gets further.
ListingEnds == <>(state # "running")
=============================================================================
