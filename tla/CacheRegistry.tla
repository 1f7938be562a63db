--------------------------- MODULE CacheRegistry ---------------------------
(***************************************************************************)
(* The registry of cached device registers, services/cache/bvstk_cache.c.  *)
(* The I2C and MDIO services publish their caches into it through the      *)
(* bridges of bvstk_cache_bridges.c; DCP2 clients copy a device and then   *)
(* follow the change journal.                                              *)
(*                                                                         *)
(* A device slot holds one catalog: its generation (0 marks a free slot),  *)
(* name, revision, presence and entries.  Replacing the catalog gives it   *)
(* a fresh generation and restarts its revision.  Every change of an entry *)
(* or of the presence appends one record to a journal ring shared by all   *)
(* devices.  Each operation holds the registry guard (a FreeRTOS critical  *)
(* section), so each is one atomic step.                                   *)
(*                                                                         *)
(* An entry keeps validity and value; its id is its index, its source and  *)
(* time stamp are left out.  A call that fails changes nothing.            *)
(***************************************************************************)
EXTENDS Integers, FiniteSets

CONSTANTS
    DevicesMax,     \* BVSTK_CACHE_DEVICES_MAX
    ResourcesMax,   \* BVSTK_CACHE_RESOURCES_MAX
    JournalSize,    \* BVSTK_CACHE_JOURNAL_SIZE
    Names,          \* (subsystem, device) names
    Values          \* values that fit a register's width

ASSUME RegistryAssumption ==
    /\ DevicesMax \in Nat \ {0}
    /\ ResourcesMax \in Nat
    /\ JournalSize \in Nat \ {0}
    /\ Values \subseteq Nat

VARIABLES
    devices,        \* the slots, by handle
    generation,     \* the last generation given out
    head,           \* records appended since boot
    journal         \* the ring

registryVars == <<devices, generation, head, journal>>

Handles == 1 .. DevicesMax
Resources == 0 .. ResourcesMax - 1
Presences == {"unknown", "ready", "unavailable"}

\* normalize: an invalid entry carries the value 0.
Empty == [valid |-> FALSE, value |-> 0]
Entry(valid, value) == IF valid THEN [valid |-> TRUE, value |-> value] ELSE Empty
Entries == {Empty} \cup [valid : {TRUE}, value : Values]

NoName == "none"
NoDevice == [generation |-> 0, name |-> NoName, revision |-> 0, count |-> 0,
             presence |-> "unknown", entries |-> [i \in Resources |-> Empty]]
Devices == [generation : Nat, name : Names \cup {NoName}, revision : Nat,
            count : 0 .. ResourcesMax, presence : Presences,
            entries : [Resources -> Entries]]

NoRecord == [serial |-> 0, handle |-> 0, generation |-> 0, revision |-> 0,
             kind |-> "none", presence |-> "unknown", index |-> 0, entry |-> Empty]
Records == [serial : Nat, handle : Nat, generation : Nat, revision : Nat,
            kind : {"none", "change", "presence"}, presence : Presences,
            index : Nat, entry : Entries]

RegistryTypeOK ==
    /\ devices \in [Handles -> Devices]
    /\ generation \in Nat
    /\ head \in Nat
    /\ journal \in [0 .. JournalSize - 1 -> Records]

RegistryInit ==
    /\ devices = [h \in Handles |-> NoDevice]
    /\ generation = 0
    /\ head = 0
    /\ journal = [i \in 0 .. JournalSize - 1 |-> NoRecord]

-----------------------------------------------------------------------------
Defined(h) == h \in Handles /\ devices[h].generation # 0

\* append: the device's next revision becomes the journal's next record.
AppendChange(h, d, kind, index, entry) ==
    /\ devices' = [devices EXCEPT ![h] = [d EXCEPT !.revision = @ + 1]]
    /\ head' = head + 1
    /\ journal' = [journal EXCEPT ![head % JournalSize] =
          [serial |-> head + 1, handle |-> h, generation |-> d.generation,
           revision |-> d.revision + 1, kind |-> kind, presence |-> d.presence,
           index |-> index, entry |-> entry]]
    /\ UNCHANGED generation

Duplicate(h, name) ==
    \E i \in Handles \ {h} : Defined(i) /\ devices[i].name = name

\* Handle 0 asks for a new device and takes the first free slot.
SlotFor(h) ==
    IF h # 0 THEN h
    ELSE CHOOSE i \in Handles : ~Defined(i) /\ \A j \in 1 .. i - 1 : Defined(j)

\* A mistake: a catalog that replaces another keeps its generation.
KeptGeneration(h) == IF h = 0 THEN generation + 1 ELSE devices[h].generation

\* Every published catalog gets a generation of its own.
FreshGeneration(h) == generation + 1

\* The catalog is staged and published as a whole; a malformed description,
\* a duplicate name, an unknown handle or a full registry fails before that.
bvstk_cache_define(h, name, count, presence, entries) ==
    LET slot == SlotFor(h)
    IN  /\ IF h # 0 THEN Defined(h) ELSE \E i \in Handles : ~Defined(i)
        /\ ~Duplicate(h, name)
        /\ generation' = FreshGeneration(h)
        /\ devices' = [devices EXCEPT ![slot] =
              [generation |-> FreshGeneration(h), name |-> name, revision |-> 0,
               count |-> count, presence |-> presence,
               entries |-> [i \in Resources |->
                               IF i < count THEN entries[i] ELSE Empty]]]
        /\ UNCHANGED <<head, journal>>

\* Repeated invalidation is not a change; a repeated valid value is one.
bvstk_cache_put(h, index, value, valid) ==
    LET entry == Entry(valid, value)
    IN  /\ Defined(h)
        /\ index < devices[h].count
        /\ valid => value \in Values
        /\ IF ~valid /\ ~devices[h].entries[index].valid
           THEN UNCHANGED registryVars
           ELSE AppendChange(h, [devices[h] EXCEPT !.entries[index] = entry],
                             "change", index, entry)

bvstk_cache_presence(h, presence) ==
    /\ Defined(h)
    /\ IF devices[h].presence = presence
       THEN UNCHANGED registryVars
       ELSE AppendChange(h, [devices[h] EXCEPT !.presence = presence],
                         "presence", 0, Empty)

\* The handle bvstk_cache_snapshot finds for a name (0: NOT_FOUND).
Lookup(name) ==
    IF \E h \in Handles : Defined(h) /\ devices[h].name = name
    THEN CHOOSE h \in Handles : Defined(h) /\ devices[h].name = name
    ELSE 0

-----------------------------------------------------------------------------
\* The journal record with sequence number s.
Rec(s) == journal[(s - 1) % JournalSize]

\* The next record of device h after a cursor, and the ones before it that
\* belong to other devices are passed over.
Ahead(h, cursor) == {s \in cursor + 1 .. head : Rec(s).handle = h}
FirstAhead(h, cursor) ==
    CHOOSE s \in Ahead(h, cursor) : \A t \in Ahead(h, cursor) : s <= t

\* Whether a follower at this cursor is out of the journal.
Lost(cursor) == cursor > head \/ head - cursor > JournalSize

\* bvstk_cache_next: what the follower gets, and its new cursor.
bvstk_cache_next(h, gen, cursor) ==
    IF ~Defined(h) \/ devices[h].generation # gen
        THEN [status |-> "reconfigured", cursor |-> cursor]
    ELSE IF Lost(cursor)
        THEN [status |-> "lost", cursor |-> cursor]
    ELSE IF Ahead(h, cursor) = {}
        THEN [status |-> "none", cursor |-> head]
    ELSE [status |-> "change", cursor |-> FirstAhead(h, cursor)]
=============================================================================
