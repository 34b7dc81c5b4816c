----------------------------- MODULE ScanRoute ------------------------------
(***************************************************************************)
(* The scan route of durable-object/src/lib.rs, which scan() of            *)
(* container/src/main.rs repeats: how the answer is cut from what the      *)
(* engine's iterator yields.  Waiting for the Db and failing on it are     *)
(* those of a get, in SlateDbObject; the iterator walks the view the Db    *)
(* had when it was asked, and each write has a key of its own.             *)
(***************************************************************************)
EXTENDS SlateDbObject, Functions

CONSTANTS
    DefaultLimit,   \* 100
    MaxLimit        \* 1000

ASSUME LimitsAssumption == MaxLimit \in Nat \ {0} /\ DefaultLimit \in 1..MaxLimit

\* The limit of a query that names one, or None: unwrap_or, then clamp.
Limit(query) ==
    LET wanted == IF query = None THEN DefaultLimit ELSE query
    IN  IF wanted < 1 THEN 1 ELSE IF wanted > MaxLimit THEN MaxLimit ELSE wanted

\* MUTANT: the loop stops at the limit and never meets the item after it.
StopsAtLimit(n, limit, found) == n < limit /\ n < found

\* With n items, the loop asks for another and there is one.
ReadsOn(n, limit, found) == n <= limit /\ n < found

\* The items the loop has when it ends.
Collected(limit, found) ==
    CHOOSE n \in 0..found :
        /\ ~ReadsOn(n, limit, found)
        /\ \A m \in 0..(n - 1) : ReadsOn(m, limit, found)

\* The answer to a scan that finds these keys.
ScanResponse(keys, query) ==
    LET limit == Limit(query)
        items == SubSeq(keys, 1, Collected(limit, Len(keys)))
    IN  [items     |-> SubSeq(items, 1, IF Len(items) > limit THEN limit ELSE Len(items)),
         truncated |-> Len(items) > limit]

\* The orders in which an iterator may yield the finitely many keys it finds.
Listings(found) == Injection(1..Cardinality(found), found)

Queries == {None} \cup 0..(MaxLimit + 1)

----------------------------------------------------------------------------
\* A scan may be taken at its word: whatever keys are under its prefix, every
\* one of them whose write was answered before the scan was sent is listed, or
\* the answer says truncated and the key comes after those listed; and it says
\* truncated only when it lists something and leaves something out.
ScanSeesAcks ==
    \A r \in Requests :
        pc[r] = "call" /\ kind[r] = "get" /\ status[held[r]] = "open" =>
            \A matching \in SUBSET Writes, query \in Queries :
            LET found == View(held[r]) \cap matching IN
            IsFiniteSet(found) => \A keys \in Listings(found) :
                LET scan == ScanResponse(keys, query) IN
                /\ scan.items = SubSeq(keys, 1, Len(scan.items))
                /\ Len(scan.items) <= MaxLimit
                /\ AckedPuts(asked[r]) \cap matching
                     \subseteq Range(IF scan.truncated THEN keys ELSE scan.items)
                /\ scan.truncated => Len(scan.items) \in 1..(Len(keys) - 1)
=============================================================================
