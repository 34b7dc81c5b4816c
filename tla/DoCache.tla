------------------------------- MODULE DoCache -------------------------------
(***************************************************************************)
(* durable-object/src/do_cache.rs: the cache of immutable R2 objects in    *)
(* Durable Object storage, cut into parts, with one entry per object and   *)
(* part size.  SlateDB's tasks fill and read an entry while it is deleted  *)
(* or cleared; every storage call is one step, and may fail before or      *)
(* after it took effect.  The storage outlives the object's eviction.      *)
(*                                                                         *)
(* Modelled from SlateDB (external): a task that misses the head saves     *)
(* the head and then every part; one that finds it reads parts and saves   *)
(* those it misses.  A storage error ends the task.                        *)
(***************************************************************************)
EXTENDS Naturals, Sequences, FiniteSets

CONSTANTS
    Tasks,      \* SlateDB's concurrent reads
    Locations,  \* of the objects
    Entries,    \* the entries in use: an object's location and size, a part size
    Chunk,      \* the most keys of one delete_multiple; the code has 128
    None

\* The objects are immutable: a location has one size.
ASSUME EntriesAssumption ==
    /\ Entries \subseteq [location: Locations, size: Nat, ps: Nat \ {0}]
    /\ \A d, e \in Entries : d.location = e.location => d.size = e.size
ASSUME ChunkAssumption == Chunk \in Nat \ {0}
ASSUME CacheNoneAssumption ==
    /\ None \notin Entries
    /\ None \notin Nat
    /\ None \notin Seq(Locations \X Nat)

VARIABLES
    head,       \* head[prefix]: the size in the saved head, or None
    part,       \* part[prefix][n]: the saved bytes of part n, or None
    task,       \* task[t]: the step of a task, its entry and its next part
    deleting,   \* the entry being deleted, its step and the parts still to go
    alone,      \* history: no fill ran beside the deletion
    clean       \* history: nor did it meet an error, or parts without a head

vars == <<head, part, task, deleting, alone, clean>>

\* div_ceil
PartCount(size, ps) == (size + ps - 1) \div ps

PartIds(e) == 0..(PartCount(e.size, e.ps) - 1)

\* Part numbers and byte positions.
Positions == {0} \cup UNION {0..e.size : e \in Entries}

\* MUTANT: the part size, or the location, is left out of an entry's keys.
PrefixOfLocation(e) == <<1, e.location>>
PrefixOfPartSize(e) == <<e.ps, "location">>

\* entry_prefix: the location's length before it makes the text of the two
\* unambiguous, so that it is this pair.
EntryPrefix(e) == <<e.ps, e.location>>

Prefixes == {EntryPrefix(e) : e \in Entries}

\* The bytes of an object are numbered from 0.
Bytes(e, from, to) == [i \in 1..(to - from) |-> <<e.location, from + i - 1>>]
PartBytes(e, n) ==
    Bytes(e, n * e.ps, IF (n + 1) * e.ps < e.size THEN (n + 1) * e.ps ELSE e.size)

Idle == [step |-> "idle", entry |-> None, next |-> 0]
NoDeletion == [step |-> "idle", entry |-> None, left |-> {}]

\* Every variable keeps its type: an entry's head has the size of its object, a
\* part holds bytes of its object under a number the object has, and a deletion
\* counts no part too many.
CacheTypeOK ==
    /\ head \in [Prefixes -> Nat \cup {None}]
    /\ DOMAIN part = Prefixes
    /\ \A e \in Entries :
         /\ head[EntryPrefix(e)] \in {None, e.size}
         /\ \A n \in DOMAIN part[EntryPrefix(e)] :
              part[EntryPrefix(e)][n] # None =>
                /\ n \in PartIds(e)
                /\ part[EntryPrefix(e)][n] \in Seq({e.location} \X (0..(e.size - 1)))
    /\ task \in [Tasks -> [step: {"idle", "fill", "parts", "read"},
                           entry: Entries \cup {None}, next: Positions]]
    /\ deleting.step \in {"idle", "head", "parts", "done"}
    /\ deleting.step # "idle" => deleting.left \subseteq PartIds(deleting.entry)
    /\ alone \in BOOLEAN /\ clean \in BOOLEAN

Init ==
    /\ head = [x \in Prefixes |-> None]
    /\ part = [x \in Prefixes |-> [n \in Positions |-> None]]
    /\ task = [t \in Tasks |-> Idle]
    /\ deleting = NoDeletion
    /\ alone = FALSE /\ clean = FALSE

----------------------------------------------------------------------------
(* The tasks. *)

Goes(t, step, e, n) ==
    task' = [task EXCEPT ![t] = [step |-> step, entry |-> e, next |-> n]]
Ends(t) == task' = [task EXCEPT ![t] = Idle]

\* A fill while an entry is deleted may leave parts behind.
Spoils(e) ==
    /\ alone' = (alone /\ deleting.entry # e)
    /\ clean' = (clean /\ deleting.entry # e)

ReadHead(t, e) ==
    /\ task[t].step = "idle"
    /\ \/ head[EntryPrefix(e)] # None /\ Goes(t, "read", e, 0)
       \/ head[EntryPrefix(e)] = None /\ Goes(t, "fill", e, 0)
    /\ Spoils(e)
    /\ UNCHANGED <<head, part, deleting>>

SaveHead(t) ==
    LET e == task[t].entry IN
    /\ task[t].step = "fill"
    /\ \/ head' = [head EXCEPT ![EntryPrefix(e)] = e.size] /\ Goes(t, "parts", e, 0)
       \/ head' = [head EXCEPT ![EntryPrefix(e)] = e.size] /\ Ends(t)
       \/ UNCHANGED head /\ Ends(t)
    /\ UNCHANGED <<part, deleting, alone, clean>>

\* save_part answers with an error only if the put failed.
SavePart(t, n) ==
    LET e == task[t].entry IN
    /\ task[t].step = "parts" /\ n = task[t].next /\ n \in PartIds(e)
    /\ \/ /\ part' = [part EXCEPT ![EntryPrefix(e)][n] = PartBytes(e, n)]
          /\ IF n + 1 \in PartIds(e) THEN Goes(t, "parts", e, n + 1) ELSE Ends(t)
       \/ part' = [part EXCEPT ![EntryPrefix(e)][n] = PartBytes(e, n)] /\ Ends(t)
       \/ UNCHANGED part /\ Ends(t)
    /\ UNCHANGED <<head, deleting, alone, clean>>

\* cached_range: the bytes asked for, or an error (None) if the part is short.
CachedRange(bytes, from, to) ==
    IF to <= Len(bytes) THEN SubSeq(bytes, from + 1, to) ELSE None

\* read_part, of a part that is saved: what it answers now.
Served(e, n, from, to) == CachedRange(part[EntryPrefix(e)][n], from, to)

\* A task that knows the object's size reads a part: it is served, or saves the
\* part and those that follow.
ReadPart(t, n) ==
    LET e == task[t].entry IN
    /\ task[t].step = "read"
    /\ n \in PartIds(e)
    /\ IF part[EntryPrefix(e)][n] # None THEN Ends(t) ELSE Goes(t, "parts", e, n)
    /\ UNCHANGED <<head, part, deleting, alone, clean>>

\* A storage error, or SlateDB drops the task.
Fails(t) ==
    /\ task[t].step # "idle"
    /\ Ends(t)
    /\ UNCHANGED <<head, part, deleting, alone, clean>>

----------------------------------------------------------------------------
(* delete and clear. *)

Filling(e) == \E t \in Tasks : task[t].entry = e

\* The parts of the entry that no head accounts for.
PartsWithoutHead(e) ==
    /\ head[EntryPrefix(e)] = None
    /\ \E n \in DOMAIN part[EntryPrefix(e)] : part[EntryPrefix(e)][n] # None

\* MUTANT: a size rounded down.
WholePartKeys(size, ps) == 0..((size \div ps) - 1)

\* The parts to delete, from the size in the head.
PartKeys(size, ps) == 0..(PartCount(size, ps) - 1)

\* read_head().ok().flatten(): an error counts as no head.
DeleteReadsHead(e) ==
    /\ deleting.step = "idle"
    /\ alone' = ~Filling(e)
    /\ \/ /\ head[EntryPrefix(e)] # None
          /\ deleting' = [step |-> "head", entry |-> e,
                          left |-> PartKeys(head[EntryPrefix(e)], e.ps)]
          /\ clean' = alone'
       \/ /\ deleting' = [step |-> "head", entry |-> e, left |-> {}]
          /\ clean' = (alone' /\ head[EntryPrefix(e)] = None /\ ~PartsWithoutHead(e))
    /\ UNCHANGED <<head, part, task>>

\* The error of deleting the head is ignored.
DeleteHead ==
    /\ deleting.step = "head"
    /\ deleting' = [deleting EXCEPT !.step = "parts"]
    /\ \/ head' = [head EXCEPT ![EntryPrefix(deleting.entry)] = None] /\ UNCHANGED clean
       \/ UNCHANGED head /\ clean' = FALSE
    /\ UNCHANGED <<part, task, alone>>

\* chunks(128): the lowest Chunk of the parts left.
FirstChunk(left) == {n \in left : Cardinality({m \in left : m < n}) < Chunk}

\* delete_multiple; its error is ignored too, and the next chunk follows.
DeleteChunk ==
    LET chunk == FirstChunk(deleting.left) IN
    /\ deleting.step = "parts" /\ deleting.left # {}
    /\ deleting' = [deleting EXCEPT !.left = @ \ chunk]
    /\ \/ /\ part' = [part EXCEPT ![EntryPrefix(deleting.entry)] =
                       [n \in DOMAIN @ |-> IF n \in chunk THEN None ELSE @[n]]]
          /\ UNCHANGED clean
       \/ UNCHANGED part /\ clean' = FALSE
    /\ UNCHANGED <<head, task, alone>>

DeleteEnds ==
    /\ deleting.step = "parts" /\ deleting.left = {}
    /\ deleting' = [deleting EXCEPT !.step = "done"]
    /\ UNCHANGED <<head, part, task, alone, clean>>

\* A later delete may follow; the entry may be filled again before it.
DeleteReturns ==
    /\ deleting.step = "done"
    /\ deleting' = NoDeletion
    /\ alone' = FALSE /\ clean' = FALSE
    /\ UNCHANGED <<head, part, task>>

\* delete_all; when it fails, the entries are as they were.
Clear ==
    /\ head' = [x \in Prefixes |-> None]
    /\ part' = [x \in Prefixes |-> [n \in Positions |-> None]]
    /\ UNCHANGED <<task, deleting, alone, clean>>

\* The object is evicted between two storage calls: its reads and its deletion
\* are gone, what they stored stays for the next instance.
Evict ==
    /\ deleting.step # "idle" \/ \E t \in Tasks : task[t] # Idle
    /\ task' = [t \in Tasks |-> Idle]
    /\ deleting' = NoDeletion
    /\ alone' = FALSE /\ clean' = FALSE
    /\ UNCHANGED <<head, part>>

Next ==
    \/ \E t \in Tasks :
         \/ \E e \in Entries : ReadHead(t, e)
         \/ SaveHead(t) \/ Fails(t)
         \/ \E n \in Positions : SavePart(t, n) \/ ReadPart(t, n)
    \/ \E e \in Entries : DeleteReadsHead(e)
    \/ DeleteHead \/ DeleteChunk \/ DeleteEnds \/ DeleteReturns \/ Clear \/ Evict

Spec == Init /\ [][Next]_vars

----------------------------------------------------------------------------
\* What a reader is served is what it asked for, whatever is filled, deleted
\* and cleared around it: no part is short, and none is of another part size or
\* of another object.
ServedIsAsked ==
    \A e \in Entries : \A n \in PartIds(e), from, to \in Positions :
        ( /\ part[EntryPrefix(e)][n] # None
          /\ from < to /\ to <= Len(PartBytes(e, n)) )
            => Served(e, n, from, to) = Bytes(e, n * e.ps + from, n * e.ps + to)

Nothing(e) ==
    /\ head[EntryPrefix(e)] = None
    /\ \A n \in DOMAIN part[EntryPrefix(e)] : part[EntryPrefix(e)][n] = None

\* A delete that met no storage error, no fill and no parts without a head
\* leaves nothing of its entry: it found every part from the head's size.
CleanDeleteLeavesNothing ==
    deleting.step = "done" /\ clean => Nothing(deleting.entry)

\* durable-object/README.md:228 "Cache entries remain until SlateDB deletes the
\* corresponding SST": once the delete of an entry has returned, and no fill ran
\* beside it, it leaves no part without the head that a later delete needs.
DeleteLeavesNoOrphans ==
    deleting.step = "done" /\ alone => ~PartsWithoutHead(deleting.entry)
=============================================================================
