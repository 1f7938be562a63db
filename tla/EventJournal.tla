---------------------------- MODULE EventJournal ----------------------------
(***************************************************************************)
(* The RAM journal of bus observations: shared/events/bvstk_journal.c      *)
(* behind the FreeRTOS adapter apps/freertos/runtime/bvstk_observer.c.     *)
(*                                                                         *)
(* Every bus has two rings, one for control events and one for telemetry.  *)
(* A ring is an array of Capacity slots and a head that counts every       *)
(* record ever published; the record with sequence number s lies in slot   *)
(* (s - 1) % Capacity until record s + Capacity overwrites it.  A reader   *)
(* keeps its own cursor (the last sequence it has scanned) and presents it *)
(* with each read.  Each operation runs inside a critical section, so each *)
(* one is atomic here.                                                     *)
(*                                                                         *)
(* An event keeps the fields that decide where it goes and who sees it:    *)
(* bus, type, the UNCONFIRMED flag and arg0, the device address.           *)
(***************************************************************************)
EXTENDS Integers, Sequences, FiniteSets

CONSTANTS
    Buses,          \* the buses that have rings (BVSTK_JOURNAL_BUSES)
    OtherBuses,     \* buses an event may name that have no ring
    EventTypes,     \* REG_ATTEMPT .. FAULT
    TelemetryTypes, \* CAPTURE_WRITE .. SLAVE_REPLY_PREPARED
    OtherTypes,     \* type codes in neither range
    Addresses,      \* values of arg0
    Capacity,       \* BVSTK_JOURNAL_CAPACITY
    Batch,          \* BVSTK_JOURNAL_BATCH
    NoEvent         \* the content of a slot never written (zeroed RAM)

ASSUME JournalAssumption ==
    /\ Capacity \in Nat \ {0}
    /\ Batch \in Nat \ {0}
    /\ Buses \cap OtherBuses = {}
    /\ EventTypes \cap TelemetryTypes = {}
    /\ OtherTypes \cap (EventTypes \cup TelemetryTypes) = {}
    /\ Addresses \subseteq Nat

VARIABLES
    head,       \* head[r]: records published to ring r since boot
    entries,    \* entries[r]: the slots of ring r
    log         \* history: log[r] is every event published to ring r, in order

journalVars == <<head, entries, log>>

Channels == {"events", "telemetry"}
Rings == Buses \X Channels
Slots == 0 .. Capacity - 1
Events == [bus : Buses \cup OtherBuses,
           type : EventTypes \cup TelemetryTypes \cup OtherTypes,
           unconfirmed : BOOLEAN,
           arg0 : Addresses]

\* "after" value that asks for the retained history (UINT64_MAX in the code).
HISTORY == -1
\* "address" value that selects every device (any negative int in the code).
ANY == -1

\* A mistake: the slot of the record after it.
SlotOfNext(sequence) == sequence % Capacity

\* The slot a reader looks for a sequence number in.
SlotOf(sequence) == (sequence - 1) % Capacity

-----------------------------------------------------------------------------
(* Publishing                                                              *)

bvstk_event_is_telemetry(e) == e.type \in TelemetryTypes

\* The ring an event belongs to.
RingOf(e) ==
    <<e.bus, IF bvstk_event_is_telemetry(e) THEN "telemetry" ELSE "events">>

\* The adapter drops unconfirmed telemetry; the journal drops an event whose
\* bus has no ring or whose type is in neither range.
Accepted(e) ==
    /\ ~(e.unconfirmed /\ bvstk_event_is_telemetry(e))
    /\ e.bus \in Buses
    /\ e.type \in EventTypes \cup TelemetryTypes

bvstk_observer_publish(e) ==
    LET r == RingOf(e)
    IN  IF Accepted(e)
        THEN /\ entries' = [entries EXCEPT ![r][head[r] % Capacity] = e]
             /\ head' = [head EXCEPT ![r] = @ + 1]
             /\ log' = [log EXCEPT ![r] = Append(@, e)]
        ELSE UNCHANGED journalVars

-----------------------------------------------------------------------------
(* Reading                                                                 *)

\* A mistake: one record more than the ring holds is read.
FirstTooOld(h) == IF h > Capacity THEN h - Capacity - 1 ELSE 0

\* The last sequence already overwritten (0 while nothing is).
First(h) == IF h > Capacity THEN h - Capacity ELSE 0

\* Records overwritten between a reader's cursor and the retained window.
Lost(h, after) ==
    IF after # HISTORY /\ after < First(h) THEN First(h) - after ELSE 0

\* Where the scan starts for a reader that presents the cursor "after".
ScanStart(h, after) ==
    IF after = HISTORY \/ after > h \/ after < First(h) THEN First(h) ELSE after

\* Sequences in start+1 .. n that pass the address filter.
Hits(r, address, start, n) ==
    {s \in start + 1 .. n :
        address = ANY \/ entries[r][SlotOf(s)].arg0 = address}

\* The scan ends at the head, or at the record that fills the batch.
ScanEnd(r, address, start) ==
    CHOOSE n \in start .. head[r] :
        /\ n = head[r] \/ Cardinality(Hits(r, address, start, n)) = Batch
        /\ \A m \in start .. n - 1 :
              Cardinality(Hits(r, address, start, m)) < Batch

\* The reply: records are [sequence, event] pairs in increasing sequence.
bvstk_journal_read(r, address, after) ==
    LET start == ScanStart(head[r], after)
        next  == ScanEnd(r, address, start)
    IN  [head    |-> head[r],
         next    |-> next,
         reset   |-> after # HISTORY /\ after > head[r],
         lost    |-> Lost(head[r], after),
         count   |-> Cardinality(Hits(r, address, start, next)),
         records |-> {[sequence |-> s, event |-> entries[r][SlotOf(s)]] :
                          s \in Hits(r, address, start, next)}]

\* Where a new subscription starts.
bvstk_journal_head(r) == head[r]

-----------------------------------------------------------------------------
JournalInit ==
    /\ head = [r \in Rings |-> 0]
    /\ entries = [r \in Rings |-> [i \in Slots |-> NoEvent]]
    /\ log = [r \in Rings |-> <<>>]

JournalTypeOK ==
    /\ head \in [Rings -> Nat]
    /\ entries \in [Rings -> [Slots -> Events \cup {NoEvent}]]
    /\ log \in [Rings -> Seq(Events)]

\* The retained window of every ring holds exactly the newest Capacity
\* published events, each in the slot a reader computes for its sequence:
\* the publish index (head % Capacity) and the read index agree.
RingContent ==
    \A r \in Rings :
        /\ Len(log[r]) = head[r]
        /\ \A s \in First(head[r]) + 1 .. head[r] :
              entries[r][SlotOf(s)] = log[r][s]
=============================================================================
