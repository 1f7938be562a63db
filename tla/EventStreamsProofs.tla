------------------------- MODULE EventStreamsProofs -------------------------
(***************************************************************************)
(* Proofs about the observation journal and its delivery by the DCP2       *)
(* server, for every capacity, batch size, set of buses and set of events. *)
(*                                                                         *)
(* The inductive invariant is the conjunction Inv.  RingContent is what    *)
(* makes a slot's content the record a reader takes it for,                *)
(* CursorBehindHead bounds the cursors, and only together do they give the *)
(* accounting and the content of what is delivered.  NoSilentLoss is       *)
(* inductive beside Inv: a drain adds as much to the loss count as it adds *)
(* to the set of records that are overdue.                                 *)
(***************************************************************************)
EXTENDS EventStreams, RingArithmetic, FiniteSetTheorems

Inv ==
    /\ TypeOK
    /\ RingContent
    /\ CursorBehindHead
    /\ Accounted
    /\ DeliveredIsPublished

-----------------------------------------------------------------------------
(* The journal's operations                                                *)

\* The ring an accepted event is stored in exists.
LEMMA AcceptedRing ==
    ASSUME NEW e \in Events, Accepted(e)
    PROVE  RingOf(e) \in Rings
BY DEF Accepted, RingOf, Rings, Channels

\* The window of retained records lies between 0 and the head.
LEMMA FirstBounds ==
    ASSUME NEW h \in Nat
    PROVE  /\ First(h) \in Nat
           /\ First(h) <= h
           /\ h - First(h) <= Capacity
           /\ h <= Capacity => First(h) = 0
           /\ h > Capacity => First(h) = h - Capacity
BY JournalAssumption DEF First

\* bvstk_journal_publish keeps the journal's types and the content of the
\* retained window: the slot it overwrites is that of the oldest record.
LEMMA PublishStep ==
    ASSUME JournalTypeOK, RingContent, NEW e \in Events,
           bvstk_observer_publish(e)
    PROVE  /\ JournalTypeOK'
           /\ RingContent'
           /\ \A r \in Rings : head[r] <= head'[r]
           /\ \A r \in Rings : \A s \in 1 .. head[r] : log'[r][s] = log[r][s]
<1>1. CASE ~Accepted(e)
    BY <1>1 DEF bvstk_observer_publish, journalVars, JournalTypeOK, RingContent,
                SlotOf
<1>2. CASE Accepted(e)
    <2> DEFINE q == RingOf(e)
    <2>1. q \in Rings
        BY <1>2, AcceptedRing
    <2>2. /\ entries' = [entries EXCEPT ![q][head[q] % Capacity] = e]
          /\ head' = [head EXCEPT ![q] = @ + 1]
          /\ log' = [log EXCEPT ![q] = Append(@, e)]
        BY <1>2 DEF bvstk_observer_publish
    <2> HIDE DEF q
    <2>3. head[q] \in Nat /\ head[q] % Capacity \in Slots
        BY <2>1, DivMod, JournalAssumption DEF JournalTypeOK, Slots
    <2>4. JournalTypeOK'
        <3>1. head' \in [Rings -> Nat]
            BY <2>1, <2>2 DEF JournalTypeOK
        <3>2. entries' \in [Rings -> [Slots -> Events \cup {NoEvent}]]
            BY <2>1, <2>2, <2>3 DEF JournalTypeOK
        <3>3. log' \in [Rings -> Seq(Events)]
            BY <2>1, <2>2 DEF JournalTypeOK
        <3> QED
            BY <3>1, <3>2, <3>3 DEF JournalTypeOK
    <2>5. ASSUME NEW r \in Rings
          PROVE  /\ head[r] <= head'[r]
                 /\ \A s \in 1 .. head[r] : log'[r][s] = log[r][s]
                 /\ Len(log'[r]) = head'[r]
                 /\ \A s \in First(head'[r]) + 1 .. head'[r] :
                       entries'[r][SlotOf(s)] = log'[r][s]
        <3>1. CASE r # q
            BY <3>1, <2>1, <2>2 DEF JournalTypeOK, RingContent
        <3>2. CASE r = q
            <4>1. /\ head'[q] = head[q] + 1
                  /\ log'[q] = Append(log[q], e)
                  /\ entries'[q] = [entries[q] EXCEPT ![head[q] % Capacity] = e]
                BY <2>1, <2>2 DEF JournalTypeOK
            <4>2. Len(log[q]) = head[q] /\ log[q] \in Seq(Events)
                BY <2>1 DEF JournalTypeOK, RingContent
            <4>3. \A s \in 1 .. head[q] : log'[q][s] = log[q][s]
                BY <4>1, <4>2
            <4>4. Len(log'[q]) = head'[q] /\ log'[q][head'[q]] = e
                BY <4>1, <4>2
            <4>5. ASSUME NEW s \in First(head'[q]) + 1 .. head'[q]
                  PROVE  entries'[q][SlotOf(s)] = log'[q][s]
                <5>1. /\ First(head'[q]) \in Nat /\ First(head[q]) \in Nat
                      /\ First(head[q]) <= First(head'[q])
                      /\ head'[q] - First(head'[q]) <= Capacity
                      /\ s \in Nat /\ s >= 1
                    BY <2>3, <4>1, FirstBounds, JournalAssumption DEF First
                <5>2. CASE s = head'[q]
                    <6>1. SlotOf(s) = head[q] % Capacity
                        BY <5>2, <4>1, <2>3 DEF SlotOf
                    <6> QED
                        BY <6>1, <5>2, <4>1, <4>4, <2>1, <2>3 DEF JournalTypeOK
                <5>3. CASE s # head'[q]
                    <6>1. s \in First(head[q]) + 1 .. head[q]
                        BY <5>1, <5>3, <4>1, <2>3
                    <6>2. entries[q][SlotOf(s)] = log[q][s]
                        BY <6>1, <2>1 DEF RingContent
                    <6>3. (s - 1) % Capacity # head[q] % Capacity
                        <7>1. s - 1 \in Nat /\ s - 1 < head[q]
                            BY <6>1, <5>1, <2>3
                        <7>2. head[q] < (s - 1) + Capacity
                            BY <5>1, <4>1, <2>3, JournalAssumption
                        <7> QED
                            BY <7>1, <7>2, <2>3, SlotsDiffer, JournalAssumption
                    <6>4. SlotOf(s) \in Slots
                        BY <5>1, DivMod, JournalAssumption DEF SlotOf, Slots
                    <6>5. entries'[q][SlotOf(s)] = entries[q][SlotOf(s)]
                        BY <6>3, <6>4, <4>1, <2>1 DEF SlotOf, JournalTypeOK
                    <6> QED
                        BY <6>1, <6>2, <6>5, <4>3, <5>1
                <5> QED
                    BY <5>2, <5>3
            <4>6. head[q] <= head'[q]
                BY <4>1, <2>3
            <4> QED
                BY <3>2, <4>3, <4>4, <4>5, <4>6
        <3> QED
            BY <3>1, <3>2
    <2> QED
        BY <2>4, <2>5 DEF RingContent
<1> QED
    BY <1>1, <1>2

\* What bvstk_journal_read returns to a reader without address filter whose
\* cursor is not ahead of the head: it skips exactly what was overwritten,
\* says so, and hands over the records up to the head or a full batch.
LEMMA ReadAll ==
    ASSUME JournalTypeOK, RingContent, NEW r \in Rings,
           NEW after \in Nat, after <= head[r]
    PROVE  LET b == bvstk_journal_read(r, ANY, after)
           IN  \E start \in Nat :
                 /\ after <= start /\ start <= head[r]
                 /\ b.next \in Nat /\ start <= b.next /\ b.next <= head[r]
                 /\ b.lost = start - after
                 /\ b.count = b.next - start
                 /\ b.lost > 0 => b.count > 0
                 /\ b.records = {[sequence |-> s, event |-> log[r][s]] :
                                    s \in start + 1 .. b.next}
<1> DEFINE h == head[r]
           start == ScanStart(h, after)
           next == ScanEnd(r, ANY, start)
<1>1. h \in Nat
    BY DEF JournalTypeOK
<1>2. /\ start \in Nat /\ First(h) <= start
      /\ after <= start /\ start <= h
      /\ Lost(h, after) = start - after
      /\ Lost(h, after) > 0 => start < h
    <2>1. after # HISTORY
        BY DEF HISTORY
    <2> QED
        BY <1>1, <2>1, FirstBounds, JournalAssumption DEF ScanStart, Lost, First
<1>3. ASSUME NEW n \in Nat
      PROVE  /\ Hits(r, ANY, start, n) = start + 1 .. n
             /\ n >= start => Cardinality(start + 1 .. n) = n - start
    <2>1. Hits(r, ANY, start, n) = start + 1 .. n
        BY DEF Hits
    <2>2. CASE n >= start
        BY <2>1, <2>2, <1>2, FS_Interval
    <2> QED
        BY <2>1, <2>2
<1> DEFINE Stops(n) ==
        /\ n = h \/ Cardinality(Hits(r, ANY, start, n)) = Batch
        /\ \A m \in start .. n - 1 : Cardinality(Hits(r, ANY, start, m)) < Batch
<1>4. \E n \in start .. h : Stops(n)
    <2> DEFINE n == IF h <= start + Batch THEN h ELSE start + Batch
    <2>1. n \in start .. h /\ n \in Nat
        BY <1>1, <1>2, JournalAssumption
    <2>2. n = h \/ Cardinality(Hits(r, ANY, start, n)) = Batch
        BY <2>1, <1>2, <1>3, JournalAssumption
    <2>3. ASSUME NEW m \in start .. n - 1
          PROVE  Cardinality(Hits(r, ANY, start, m)) < Batch
        <3>1. m \in Nat /\ m >= start /\ m - start < Batch
            BY <1>1, <1>2, JournalAssumption
        <3> QED
            BY <3>1, <1>3
    <2> QED
        BY <2>1, <2>2, <2>3
<1>5. next \in start .. h /\ Stops(next)
    <2>1. next = CHOOSE n \in start .. h : Stops(n)
        BY DEF ScanEnd
    <2> HIDE DEF next, Stops, start, h
    <2> QED
        BY <2>1, <1>4
<1>6. /\ next \in Nat /\ start <= next /\ next <= h
      /\ Hits(r, ANY, start, next) = start + 1 .. next
      /\ Cardinality(Hits(r, ANY, start, next)) = next - start
    <2>1. next \in Nat /\ start <= next /\ next <= h
        BY <1>1, <1>2, <1>5
    <2> QED
        BY <2>1, <1>3
<1>7. start < h => next > start
    <2>1. next = h \/ next - start = Batch
        BY <1>5, <1>6
    <2> QED
        BY <2>1, <1>1, <1>2, <1>6, JournalAssumption
<1>8. \A s \in start + 1 .. next : entries[r][SlotOf(s)] = log[r][s]
    <2>1. \A s \in start + 1 .. next : s \in First(h) + 1 .. h
        <3>1. First(h) \in Nat
            BY <1>1, FirstBounds
        <3> HIDE DEF start, next, h
        <3> QED
            BY <3>1, <1>1, <1>2, <1>6
    <2> QED
        BY <2>1 DEF RingContent
<1> DEFINE b == bvstk_journal_read(r, ANY, after)
<1>9. /\ b.next = next
      /\ b.lost = Lost(h, after)
      /\ b.count = Cardinality(Hits(r, ANY, start, next))
      /\ b.records = {[sequence |-> s, event |-> entries[r][SlotOf(s)]] :
                         s \in Hits(r, ANY, start, next)}
    BY DEF bvstk_journal_read
<1>10. b.records = {[sequence |-> s, event |-> log[r][s]] : s \in start + 1 .. next}
    BY <1>6, <1>8, <1>9
<1>11. b = bvstk_journal_read(r, ANY, after)
    OBVIOUS
<1> HIDE DEF b, next, start
<1>12. /\ b.next \in Nat /\ start <= b.next /\ b.next <= head[r]
       /\ b.lost = start - after
       /\ b.count = b.next - start
       /\ b.lost > 0 => b.count > 0
    BY <1>1, <1>2, <1>6, <1>7, <1>9
<1> QED
    BY <1>2, <1>9, <1>10, <1>11, <1>12

-----------------------------------------------------------------------------
(* The server's steps                                                      *)

\* A reader's ring exists.
LEMMA RingForType ==
    ASSUME NEW rd \in Readers
    PROVE  RingFor(rd) \in Rings
BY DEF Readers, RingFor, Rings, Channels

\* Boot establishes the invariant.
LEMMA InitInv == Init => Inv
<1> SUFFICES ASSUME Init PROVE Inv
    OBVIOUS
<1> USE DEF Init, JournalInit
<1>1. JournalTypeOK
    BY DEF JournalTypeOK
<1>2. TypeOK
    BY <1>1 DEF TypeOK, NotifyOff
<1>3. RingContent
    <2>1. First(0) = 0
        BY JournalAssumption DEF First
    <2> QED
        BY <2>1 DEF RingContent
<1>4. CursorBehindHead
    BY RingForType DEF CursorBehindHead
<1>5. Accounted /\ DeliveredIsPublished
    BY DEF Accounted, DeliveredIsPublished
<1> QED
    BY <1>2, <1>3, <1>4, <1>5 DEF Inv

\* A connection that starts or ends leaves the journal alone and zeroes the
\* rest.
LEMMA ConnectionStep ==
    ASSUME Inv, NEW up \in BOOLEAN, ConnectionState(up), UNCHANGED journalVars
    PROVE  Inv'
<1> USE DEF ConnectionState, journalVars
<1>1. JournalTypeOK' /\ RingContent'
    BY DEF Inv, TypeOK, JournalTypeOK, RingContent, SlotOf
<1>2. TypeOK'
    BY <1>1 DEF TypeOK, NotifyOff
<1>3. CursorBehindHead'
    <2>1. \A rd \in Readers : head'[RingFor(rd)] \in Nat
        BY <1>1, RingForType DEF JournalTypeOK
    <2> QED
        BY <2>1 DEF CursorBehindHead
<1>4. Accounted' /\ DeliveredIsPublished'
    BY DEF Accounted, DeliveredIsPublished
<1> QED
    BY <1>1, <1>2, <1>3, <1>4 DEF Inv

\* Publishing moves heads only forward and keeps what readers have.
LEMMA PublishInv ==
    ASSUME Inv, NEW e \in Published, Publish(e)
    PROVE  Inv'
<1>1. /\ JournalTypeOK'
      /\ RingContent'
      /\ \A r \in Rings : head[r] <= head'[r]
      /\ \A r \in Rings : \A s \in 1 .. head[r] : log'[r][s] = log[r][s]
    BY PublishStep, PublishedAssumption DEF Publish, Inv, TypeOK
<1>2. UNCHANGED <<serverVars, historyVars>>
    BY DEF Publish
<1> USE <1>2 DEF serverVars, historyVars
<1>3. TypeOK'
    BY <1>1 DEF Inv, TypeOK
<1>4. CursorBehindHead'
    <2> SUFFICES ASSUME NEW rd \in Readers
                 PROVE  /\ origin[rd] <= cursor[rd]
                        /\ cursor[rd] <= head'[RingFor(rd)]
        BY DEF CursorBehindHead
    <2>1. /\ origin[rd] <= cursor[rd]
          /\ cursor[rd] <= head[RingFor(rd)]
          /\ cursor[rd] \in Nat
        BY DEF Inv, CursorBehindHead, TypeOK
    <2>2. /\ head[RingFor(rd)] <= head'[RingFor(rd)]
          /\ head[RingFor(rd)] \in Nat /\ head'[RingFor(rd)] \in Nat
        BY <1>1, RingForType DEF Inv, TypeOK, JournalTypeOK
    <2> QED
        BY <2>1, <2>2
<1>5. Accounted'
    BY DEF Inv, Accounted
<1>6. DeliveredIsPublished'
    <2> SUFFICES ASSUME NEW rd \in Readers, NEW x \in delivered[rd]
                 PROVE  /\ x.sequence \in origin[rd] + 1 .. cursor[rd]
                        /\ log'[RingFor(rd)][x.sequence] = x.event
        BY DEF DeliveredIsPublished
    <2>1. /\ x.sequence \in origin[rd] + 1 .. cursor[rd]
          /\ log[RingFor(rd)][x.sequence] = x.event
        BY DEF Inv, DeliveredIsPublished
    <2>2. x.sequence \in 1 .. head[RingFor(rd)]
        BY <2>1, RingForType
           DEF Inv, CursorBehindHead, TypeOK, JournalTypeOK
    <2> QED
        BY <2>1, <2>2, <1>1, RingForType
<1> QED
    BY <1>1, <1>3, <1>4, <1>5, <1>6 DEF Inv

\* Draining a bus hands over or announces exactly the records it moves past.
LEMMA DrainInv ==
    ASSUME Inv, NEW rd \in Readers, Drain(rd)
    PROVE  Inv'
<1> DEFINE r == RingFor(rd)
           b == bvstk_journal_read(r, ANY, cursor[rd])
           sent == {x \in b.records : Wanted(rd, x.event)}
<1>1. CASE ConnectionState(FALSE)
    BY <1>1, ConnectionStep DEF Drain
<1>2. CASE /\ Advance(rd[2])
           /\ cursor' = [cursor EXCEPT ![rd] = b.next]
           /\ got' = [got EXCEPT ![rd] = @ + b.count]
           /\ lost' = [lost EXCEPT ![rd] = @ + Announced(rd, b)]
           /\ delivered' = [delivered EXCEPT ![rd] = @ \cup sent]
           /\ UNCHANGED <<conn, notify, streams, origin>>
    <2>1. UNCHANGED journalVars /\ phase = rd[1] /\ rd[2] \in todo
        BY DEF Drain
    <2>2. /\ JournalTypeOK /\ RingContent
          /\ r \in Rings
          /\ cursor[rd] \in Nat /\ cursor[rd] <= head[r]
          /\ head[r] \in Nat
        BY RingForType DEF Inv, TypeOK, JournalTypeOK, CursorBehindHead
    <2>3. PICK start \in Nat :
             /\ cursor[rd] <= start /\ start <= head[r]
             /\ b.next \in Nat /\ start <= b.next /\ b.next <= head[r]
             /\ b.lost = start - cursor[rd]
             /\ b.count = b.next - start
             /\ b.lost > 0 => b.count > 0
             /\ b.records = {[sequence |-> s, event |-> log[r][s]] :
                                s \in start + 1 .. b.next}
        BY <2>2, ReadAll
    <2>4. Announced(rd, b) = b.lost /\ b.lost \in Nat /\ b.count \in Nat
        BY <2>2, <2>3 DEF Announced
    <2>5. \A x \in sent : /\ x.sequence \in start + 1 .. b.next
                          /\ x.event = log[r][x.sequence]
                          /\ x \in Records
        <3> SUFFICES ASSUME NEW s \in start + 1 .. b.next
                     PROVE  s \in Nat /\ log[r][s] \in Events
            BY <2>3 DEF Records
        <3>1. s \in 1 .. head[r]
            BY <2>2, <2>3
        <3>2. log[r] \in Seq(Events) /\ Len(log[r]) = head[r]
            BY <2>2 DEF JournalTypeOK, RingContent
        <3> QED
            BY <3>1, <3>2
    <2> HIDE DEF b, sent, r
    <2>6. JournalTypeOK' /\ RingContent'
        BY <2>1, <2>2 DEF journalVars, JournalTypeOK, RingContent, SlotOf
    <2>7. TypeOK'
        <3>1. phase' \in {"notify", "stream", "request"} /\ todo' \in SUBSET Buses
            BY <1>2, <2>1 DEF Advance, Inv, TypeOK, Readers
        <3>2. /\ cursor' \in [Readers -> Nat] /\ got' \in [Readers -> Nat]
              /\ lost' \in [Readers -> Nat]
            BY <1>2, <2>3, <2>4 DEF Inv, TypeOK
        <3>3. delivered' \in [Readers -> SUBSET Records]
            BY <1>2, <2>5 DEF Inv, TypeOK
        <3> QED
            BY <1>2, <2>6, <3>1, <3>2, <3>3 DEF Inv, TypeOK
    <2>8. CursorBehindHead'
        <3> SUFFICES ASSUME NEW x \in Readers
                     PROVE  origin[x] <= cursor'[x] /\ cursor'[x] <= head[RingFor(x)]
            BY <1>2, <2>1 DEF CursorBehindHead, journalVars
        <3>1. CASE x = rd
            BY <3>1, <1>2, <2>2, <2>3 DEF Inv, TypeOK, CursorBehindHead, r
        <3>2. CASE x # rd
            BY <3>2, <1>2 DEF Inv, TypeOK, CursorBehindHead
        <3> QED
            BY <3>1, <3>2
    <2>9. Accounted'
        <3> SUFFICES ASSUME NEW x \in Readers
                     PROVE  origin[x] + got'[x] + lost'[x] = cursor'[x]
            BY <1>2 DEF Accounted
        <3>1. CASE x = rd
            <4>1. origin[rd] + got[rd] + lost[rd] = cursor[rd]
                BY DEF Inv, Accounted
            <4>2. /\ got'[rd] = got[rd] + (b.next - start)
                  /\ lost'[rd] = lost[rd] + (start - cursor[rd])
                  /\ cursor'[rd] = b.next
                BY <1>2, <2>3, <2>4 DEF Inv, TypeOK
            <4>3. origin[rd] \in Nat /\ got[rd] \in Nat /\ lost[rd] \in Nat
                BY DEF Inv, TypeOK
            <4>4. b.next \in Nat /\ cursor[rd] \in Nat
                BY <2>2, <2>3
            <4>5. origin[rd] + (got[rd] + (b.next - start))
                    + (lost[rd] + (start - cursor[rd])) = b.next
                BY <4>1, <4>3, <4>4
            <4> QED
                BY <3>1, <4>2, <4>5
        <3>2. CASE x # rd
            <4>1. got'[x] = got[x] /\ lost'[x] = lost[x] /\ cursor'[x] = cursor[x]
                BY <3>2, <1>2 DEF Inv, TypeOK
            <4> QED
                BY <4>1 DEF Inv, Accounted
        <3> QED
            BY <3>1, <3>2
    <2>10. DeliveredIsPublished'
        <3> SUFFICES ASSUME NEW y \in Readers, NEW x \in delivered'[y]
                     PROVE  /\ x.sequence \in origin[y] + 1 .. cursor'[y]
                            /\ log[RingFor(y)][x.sequence] = x.event
            BY <1>2, <2>1 DEF DeliveredIsPublished, journalVars
        <3>1. CASE y # rd
            BY <3>1, <1>2 DEF Inv, TypeOK, DeliveredIsPublished
        <3>2. CASE y = rd /\ x \in sent
            <4>1. origin[rd] \in Nat /\ origin[rd] <= cursor[rd]
                  /\ cursor'[rd] = b.next
                BY <1>2 DEF Inv, TypeOK, CursorBehindHead
            <4> QED
                BY <3>2, <4>1, <2>2, <2>3, <2>5 DEF r
        <3>3. CASE y = rd /\ x \in delivered[rd]
            <4>1. /\ x.sequence \in origin[rd] + 1 .. cursor[rd]
                  /\ log[RingFor(rd)][x.sequence] = x.event
                BY <3>3 DEF Inv, DeliveredIsPublished
            <4>2. origin[rd] \in Nat /\ cursor'[rd] = b.next
                BY <1>2 DEF Inv, TypeOK
            <4> QED
                BY <3>3, <4>1, <4>2, <2>2, <2>3
        <3> QED
            BY <3>1, <3>2, <3>3, <1>2 DEF Inv, TypeOK
    <2> QED
        BY <2>6, <2>7, <2>8, <2>9, <2>10 DEF Inv
<1> QED
    BY <1>1, <1>2 DEF Drain

\* A subscription starts its readers at the head with nothing owed.
LEMMA SubscribeInv ==
    ASSUME Inv, NextRound, NEW rds \in SUBSET Readers, StartAt(rds),
           notify' \in [enabled : BOOLEAN, classes : SUBSET EventTypes,
                        buses : SUBSET (Buses \cup OtherBuses)],
           streams' \in SUBSET Buses
    PROVE  Inv'
<1>1. JournalTypeOK' /\ RingContent'
    BY DEF NextRound, journalVars, Inv, TypeOK, JournalTypeOK, RingContent, SlotOf
<1>2. \A rd \in Readers : head[RingFor(rd)] \in Nat
    BY RingForType DEF Inv, TypeOK, JournalTypeOK
<1>3. \A rd \in Readers :
        IF rd \in rds
        THEN /\ cursor'[rd] = head[RingFor(rd)]
             /\ origin'[rd] = head[RingFor(rd)]
             /\ got'[rd] = 0 /\ lost'[rd] = 0 /\ delivered'[rd] = {}
        ELSE /\ cursor'[rd] = cursor[rd] /\ origin'[rd] = origin[rd]
             /\ got'[rd] = got[rd] /\ lost'[rd] = lost[rd]
             /\ delivered'[rd] = delivered[rd]
    BY DEF StartAt, bvstk_journal_head
<1>4. TypeOK'
    <2>1. /\ cursor' \in [Readers -> Nat] /\ origin' \in [Readers -> Nat]
          /\ got' \in [Readers -> Nat] /\ lost' \in [Readers -> Nat]
          /\ delivered' \in [Readers -> SUBSET Records]
        BY <1>2 DEF StartAt, bvstk_journal_head, Inv, TypeOK
    <2> QED
        BY <1>1, <2>1 DEF NextRound, Inv, TypeOK
<1>5. CursorBehindHead'
    BY <1>2, <1>3 DEF NextRound, journalVars, Inv, CursorBehindHead
<1>6. Accounted'
    <2> SUFFICES ASSUME NEW rd \in Readers
                 PROVE  origin'[rd] + got'[rd] + lost'[rd] = cursor'[rd]
        BY DEF Accounted
    <2>1. CASE rd \in rds
        BY <2>1, <1>2, <1>3
    <2>2. CASE rd \notin rds
        BY <2>2, <1>3 DEF Inv, Accounted
    <2> QED
        BY <2>1, <2>2
<1>7. DeliveredIsPublished'
    BY <1>3 DEF NextRound, journalVars, Inv, DeliveredIsPublished
<1> QED
    BY <1>1, <1>4, <1>5, <1>6, <1>7 DEF Inv

\* Steps that move no cursor and write no record.
LEMMA QuietInv ==
    ASSUME Inv, UNCHANGED <<journalVars, cursor, historyVars>>,
           conn' \in BOOLEAN, phase' \in {"notify", "stream", "request"},
           todo' \in SUBSET Buses, streams' \in SUBSET Buses,
           notify' \in [enabled : BOOLEAN, classes : SUBSET EventTypes,
                        buses : SUBSET (Buses \cup OtherBuses)]
    PROVE  Inv'
<1> USE DEF journalVars, historyVars
<1>1. JournalTypeOK' /\ RingContent'
    BY DEF Inv, TypeOK, JournalTypeOK, RingContent, SlotOf
<1>2. TypeOK'
    BY <1>1 DEF Inv, TypeOK
<1>3. CursorBehindHead' /\ Accounted' /\ DeliveredIsPublished'
    BY DEF Inv, CursorBehindHead, Accounted, DeliveredIsPublished
<1> QED
    BY <1>1, <1>2, <1>3 DEF Inv

\* Every step keeps the invariant.
LEMMA NextInv ==
    ASSUME Inv, [Next]_vars
    PROVE  Inv'
<1>t. /\ conn \in BOOLEAN /\ phase \in {"notify", "stream", "request"}
      /\ todo \in SUBSET Buses /\ streams \in SUBSET Buses
      /\ notify \in [enabled : BOOLEAN, classes : SUBSET EventTypes,
                     buses : SUBSET (Buses \cup OtherBuses)]
    BY DEF Inv, TypeOK
<1>off. NotifyOff \in [enabled : BOOLEAN, classes : SUBSET EventTypes,
                       buses : SUBSET (Buses \cup OtherBuses)]
    BY DEF NotifyOff
<1>1. ASSUME NEW e \in Published, Publish(e) PROVE Inv'
    BY <1>1, PublishInv
<1>2. CASE Connect
    BY <1>2, ConnectionStep DEF Connect
<1>3. ASSUME NEW rd \in Readers, Drain(rd) PROVE Inv'
    BY <1>3, DrainInv
<1>4. ASSUME NEW rd \in Readers, Skip(rd) PROVE Inv'
    BY <1>4, <1>t, QuietInv DEF Skip, Advance, Readers
<1>5. ASSUME NEW classes \in SUBSET EventTypes,
             NEW buses \in SUBSET (Buses \cup OtherBuses),
             NotifySubscribe(classes, buses)
      PROVE  Inv'
    <2>1. {"notify"} \X Buses \in SUBSET Readers
        BY DEF Readers
    <2> QED
        BY <2>1, <1>5, <1>t, SubscribeInv DEF NotifySubscribe
<1>6. CASE NotifyUnsubscribe
    BY <1>6, <1>t, <1>off, QuietInv DEF NotifyUnsubscribe, NextRound
<1>7. ASSUME NEW b \in Buses, StreamSubscribe(b) PROVE Inv'
    <2>1. {<<"stream", b>>} \in SUBSET Readers
        BY DEF Readers
    <2> QED
        BY <2>1, <1>7, <1>t, SubscribeInv DEF StreamSubscribe
<1>8. ASSUME NEW b \in Buses, StreamUnsubscribe(b) PROVE Inv'
    BY <1>8, <1>t, QuietInv DEF StreamUnsubscribe, NextRound
<1>9. CASE OtherRequest
    BY <1>9, <1>t, QuietInv DEF OtherRequest, NextRound
<1>10. CASE Disconnect
    BY <1>10, ConnectionStep DEF Disconnect
<1>11. CASE UNCHANGED vars
    BY <1>11, <1>t, QuietInv DEF vars, serverVars
<1> QED
    BY <1>1, <1>2, <1>3, <1>4, <1>5, <1>6, <1>7, <1>8, <1>9, <1>10, <1>11 DEF Next

-----------------------------------------------------------------------------
(* Silent loss.  Overdue is the set NoSilentLoss counts; it is empty when a *)
(* reader starts, and a drain adds no more to it than it announces.         *)

Overdue(rd) ==
    {s \in origin[rd] + 1 .. cursor[rd] :
        /\ Wanted(rd, log[RingFor(rd)][s])
        /\ \A x \in delivered[rd] : x.sequence # s}

\* Sets of sequence numbers between two cursors are finite.
LEMMA Between ==
    ASSUME NEW a \in Nat, NEW c \in Nat, NEW S \in SUBSET (a + 1 .. c)
    PROVE  /\ IsFiniteSet(S) /\ Cardinality(S) \in Nat
           /\ a = c => Cardinality(S) = 0
<1>1. a + 1 \in Int /\ c \in Int
    OBVIOUS
<1>2. IsFiniteSet(a + 1 .. c)
    BY <1>1, FS_Interval
<1>3. IsFiniteSet(S) /\ Cardinality(S) \in Nat
    BY <1>2, FS_Subset, FS_CardinalityType
<1>4. a = c => S = {}
    OBVIOUS
<1> QED
    BY <1>3, <1>4, FS_EmptySet

\* The overdue records can be counted.
LEMMA OverdueFinite ==
    ASSUME Inv, NEW rd \in Readers
    PROVE  IsFiniteSet(Overdue(rd)) /\ Cardinality(Overdue(rd)) \in Nat
<1>1. origin[rd] \in Nat /\ cursor[rd] \in Nat
    BY DEF Inv, TypeOK
<1>2. Overdue(rd) \in SUBSET (origin[rd] + 1 .. cursor[rd])
    BY DEF Overdue
<1> QED
    BY <1>1, <1>2, Between

\* A reader that is not drained keeps what it is owed.
Undrained(rd) ==
    /\ conn /\ Subscribed(rd)
    /\ rd[1] = "notify" => notify' = notify
    /\ origin'[rd] = origin[rd] /\ cursor'[rd] = cursor[rd]
    /\ delivered'[rd] = delivered[rd] /\ lost'[rd] = lost[rd]
    /\ \A s \in 1 .. head[RingFor(rd)] : log'[RingFor(rd)][s] = log[RingFor(rd)][s]

\* A reader starts at its head with nothing owed.
Started(rd) == origin'[rd] = cursor'[rd]

\* Neither of these adds to what is owed beyond the loss count.
LEMMA UndrainedKeeps ==
    ASSUME Inv, NoSilentLoss, Inv', NEW rd \in Readers, Undrained(rd) \/ Started(rd)
    PROVE  Cardinality(Overdue(rd)') <= lost'[rd]
<1>1. lost'[rd] \in Nat
    BY DEF Inv, TypeOK
<1>2. CASE Started(rd)
    <2>1. origin'[rd] \in Nat /\ cursor'[rd] \in Nat
        BY DEF Inv, TypeOK
    <2>2. Overdue(rd)' \in SUBSET (origin'[rd] + 1 .. cursor'[rd])
        BY DEF Overdue
    <2>3. Cardinality(Overdue(rd)') = 0
        BY <2>1, <2>2, <1>2, Between DEF Started
    <2> QED
        BY <2>3, <1>1
<1>3. CASE Undrained(rd)
    <2>1. \A s \in origin[rd] + 1 .. cursor[rd] : s \in 1 .. head[RingFor(rd)]
        BY RingForType DEF Inv, TypeOK, JournalTypeOK, CursorBehindHead
    <2>2. \A s \in origin[rd] + 1 .. cursor[rd] :
             Wanted(rd, log[RingFor(rd)][s])' <=> Wanted(rd, log[RingFor(rd)][s])
        BY <1>3, <2>1 DEF Undrained, Wanted, RingFor
    <2>3. Overdue(rd)' = Overdue(rd)
        BY <1>3, <2>2 DEF Undrained, Overdue
    <2>4. Cardinality(Overdue(rd)) <= lost[rd]
        BY <1>3 DEF Undrained, NoSilentLoss, Overdue
    <2> QED
        BY <1>3, <2>3, <2>4 DEF Undrained
<1> QED
    BY <1>2, <1>3

\* What a drain moves past is handed over if it was wanted, or announced.
LEMMA DrainAnnounces ==
    ASSUME Inv, NoSilentLoss, Inv', NEW rd \in Readers, Drain(rd), conn'
    PROVE  NoSilentLoss'
<1> DEFINE r == RingFor(rd)
           b == bvstk_journal_read(r, ANY, cursor[rd])
           sent == {x \in b.records : Wanted(rd, x.event)}
<1>1. /\ conn /\ Subscribed(rd)
      /\ cursor' = [cursor EXCEPT ![rd] = b.next]
      /\ lost' = [lost EXCEPT ![rd] = @ + Announced(rd, b)]
      /\ delivered' = [delivered EXCEPT ![rd] = @ \cup sent]
      /\ UNCHANGED <<journalVars, notify, streams, origin>>
    BY DEF Drain, ConnectionState
<1>2. /\ JournalTypeOK /\ RingContent /\ r \in Rings
      /\ cursor[rd] \in Nat /\ cursor[rd] <= head[r] /\ head[r] \in Nat
    BY RingForType DEF Inv, TypeOK, JournalTypeOK, CursorBehindHead
<1>3. PICK start \in Nat :
         /\ cursor[rd] <= start /\ start <= head[r]
         /\ b.next \in Nat /\ start <= b.next /\ b.next <= head[r]
         /\ b.lost = start - cursor[rd]
         /\ b.count = b.next - start
         /\ b.lost > 0 => b.count > 0
         /\ b.records = {[sequence |-> s, event |-> log[r][s]] :
                            s \in start + 1 .. b.next}
    BY <1>2, ReadAll
<1>4. Announced(rd, b) = start - cursor[rd]
    BY <1>2, <1>3 DEF Announced
<1>5. \A s \in start + 1 .. b.next :
         Wanted(rd, log[r][s]) => [sequence |-> s, event |-> log[r][s]] \in sent
    BY <1>3
<1> HIDE DEF b, sent, r
<1> DEFINE gone == cursor[rd] + 1 .. start
<1>6. /\ cursor'[rd] = b.next /\ origin'[rd] = origin[rd]
      /\ lost'[rd] = lost[rd] + (start - cursor[rd])
      /\ delivered'[rd] = delivered[rd] \cup sent
      /\ log' = log
    BY <1>1, <1>4 DEF Inv, TypeOK, journalVars
<1>7. Overdue(rd)' \subseteq Overdue(rd) \cup gone
    <2> SUFFICES ASSUME NEW s \in Overdue(rd)', s \notin gone
                 PROVE  s \in Overdue(rd)
        OBVIOUS
    <2>1. /\ s \in origin[rd] + 1 .. b.next
          /\ Wanted(rd, log[r][s])
          /\ \A x \in delivered[rd] \cup sent : x.sequence # s
        BY <1>1, <1>6 DEF Overdue, Wanted, r, RingFor
    <2>2. s \notin start + 1 .. b.next
        <3> SUFFICES ASSUME s \in start + 1 .. b.next PROVE FALSE
            OBVIOUS
        <3> DEFINE x == [sequence |-> s, event |-> log[r][s]]
        <3>1. x \in delivered[rd] \cup sent
            BY <2>1, <1>5
        <3>2. x.sequence = s
            OBVIOUS
        <3> QED
            BY <2>1, <3>1, <3>2
    <2>3. s \in origin[rd] + 1 .. cursor[rd]
        BY <2>1, <2>2, <1>2, <1>3 DEF Inv, TypeOK
    <2> QED
        BY <2>1, <2>3 DEF Overdue, r
<1>8. /\ Cardinality(Overdue(rd)') <= Cardinality(Overdue(rd)) + (start - cursor[rd])
      /\ Cardinality(Overdue(rd)') \in Nat
    <2>1. IsFiniteSet(gone) /\ Cardinality(gone) = start - cursor[rd]
        <3>1. /\ cursor[rd] + 1 \in Int /\ start \in Int
              /\ IF cursor[rd] + 1 > start THEN start - cursor[rd] = 0
                 ELSE start - (cursor[rd] + 1) + 1 = start - cursor[rd]
            BY <1>2, <1>3
        <3> QED
            BY <3>1, FS_Interval
    <2>2. IsFiniteSet(Overdue(rd)) /\ Cardinality(Overdue(rd)) \in Nat
        BY OverdueFinite
    <2> HIDE DEF gone
    <2>3. /\ IsFiniteSet(Overdue(rd) \cup gone)
          /\ Cardinality(Overdue(rd) \cup gone) =
                Cardinality(Overdue(rd)) + Cardinality(gone)
                  - Cardinality(Overdue(rd) \cap gone)
        BY <2>1, <2>2, FS_Union
    <2>4. Cardinality(Overdue(rd) \cap gone) \in Nat
        BY <2>2, FS_Subset, FS_CardinalityType
    <2>5. /\ Cardinality(Overdue(rd)') <= Cardinality(Overdue(rd) \cup gone)
          /\ Cardinality(Overdue(rd)') \in Nat
        BY <1>7, <2>3, FS_Subset, FS_CardinalityType
    <2> QED
        BY <2>1, <2>2, <2>3, <2>4, <2>5, <1>2
<1>9. Cardinality(Overdue(rd)') <= lost'[rd]
    <2>1. Cardinality(Overdue(rd)) <= lost[rd] /\ lost[rd] \in Nat
        BY <1>1 DEF NoSilentLoss, Overdue, Inv, TypeOK
    <2>2. Cardinality(Overdue(rd)) \in Nat
        BY OverdueFinite
    <2> QED
        BY <2>1, <2>2, <1>2, <1>6, <1>8
<1>10. ASSUME NEW x \in Readers, x # rd, Subscribed(x)'
       PROVE  Cardinality(Overdue(x)') <= lost'[x]
    <2>1. Subscribed(x)
        BY <1>10, <1>1 DEF Subscribed
    <2>2. Undrained(x)
        BY <2>1, <1>10, <1>1 DEF Undrained, journalVars, Inv, TypeOK
    <2> QED
        BY <2>2, UndrainedKeeps
<1> QED
    BY <1>9, <1>10 DEF NoSilentLoss, Overdue

\* Every other step drains no reader, or starts it at its head.
LEMMA OthersKeep ==
    ASSUME Inv, Inv', NoSilentLoss,
           \A rd \in Readers : conn' /\ Subscribed(rd)' => Undrained(rd) \/ Started(rd)
    PROVE  NoSilentLoss'
BY UndrainedKeeps DEF NoSilentLoss, Overdue

\* Every step keeps the loss announced.
LEMMA LossStep ==
    ASSUME Inv, NoSilentLoss, [Next]_vars
    PROVE  NoSilentLoss'
<1> DEFINE Fine(rd) == conn' /\ Subscribed(rd)' => Undrained(rd) \/ Started(rd)
<1>inv. Inv'
    BY NextInv
<1>ok. (\A rd \in Readers : Fine(rd)) => NoSilentLoss'
    BY <1>inv, OthersKeep
<1>1. ASSUME NEW e \in Published, Publish(e) PROVE NoSilentLoss'
    <2>1. \A q \in Rings : \A s \in 1 .. head[q] : log'[q][s] = log[q][s]
        BY <1>1, PublishStep, PublishedAssumption DEF Publish, Inv, TypeOK
    <2> QED
        BY <2>1, <1>1, <1>ok, RingForType
           DEF Publish, Undrained, Subscribed, serverVars, historyVars
<1>2. ASSUME NEW up \in BOOLEAN, ConnectionState(up) PROVE NoSilentLoss'
    BY <1>2, <1>ok DEF ConnectionState, Started
<1>3. ASSUME NEW rd \in Readers, Drain(rd) PROVE NoSilentLoss'
    <2>1. CASE conn'
        BY <2>1, <1>3, <1>inv, DrainAnnounces
    <2>2. CASE ~conn'
        BY <2>2 DEF NoSilentLoss
    <2> QED
        BY <2>1, <2>2
<1>4. ASSUME NEW rd \in Readers, Skip(rd) PROVE NoSilentLoss'
    BY <1>4, <1>ok DEF Skip, Undrained, Subscribed, journalVars, historyVars
<1>5. ASSUME NEW classes \in SUBSET EventTypes,
             NEW buses \in SUBSET (Buses \cup OtherBuses),
             NotifySubscribe(classes, buses)
      PROVE  NoSilentLoss'
    <2>1. ASSUME NEW rd \in Readers, rd[1] = "notify" PROVE Started(rd)
        BY <2>1, <1>5 DEF NotifySubscribe, StartAt, Started, Readers
    <2>2. ASSUME NEW rd \in Readers, rd[1] # "notify" PROVE Fine(rd)
        BY <2>2, <1>5
           DEF NotifySubscribe, StartAt, NextRound, Undrained, Subscribed, journalVars
    <2> QED
        BY <2>1, <2>2, <1>ok
<1>6. CASE NotifyUnsubscribe
    BY <1>6, <1>ok DEF NotifyUnsubscribe, NextRound, NotifyOff, Undrained, Subscribed,
                       journalVars, historyVars
<1>7. ASSUME NEW b \in Buses, StreamSubscribe(b) PROVE NoSilentLoss'
    <2>1. ASSUME NEW rd \in Readers PROVE Fine(rd)
        <3>1. CASE rd = <<"stream", b>>
            BY <3>1, <1>7 DEF StreamSubscribe, StartAt, Started
        <3>2. CASE rd # <<"stream", b>>
            BY <3>2, <1>7 DEF StreamSubscribe, StartAt, NextRound, Undrained, Subscribed,
                              journalVars, Readers
        <3> QED
            BY <3>1, <3>2
    <2> QED
        BY <2>1, <1>ok
<1>8. ASSUME NEW b \in Buses, StreamUnsubscribe(b) PROVE NoSilentLoss'
    BY <1>8, <1>ok DEF StreamUnsubscribe, NextRound, Undrained, Subscribed,
                       journalVars, historyVars
<1>9. CASE OtherRequest
    BY <1>9, <1>ok DEF OtherRequest, NextRound, Undrained, Subscribed,
                       journalVars, historyVars
<1>10. CASE UNCHANGED vars
    BY <1>10, <1>ok DEF vars, serverVars, Undrained, Subscribed, journalVars, historyVars
<1> QED
    BY <1>1, <1>2, <1>3, <1>4, <1>5, <1>6, <1>7, <1>8, <1>9, <1>10
       DEF Next, Connect, Disconnect

-----------------------------------------------------------------------------
(* The theorems                                                            *)

\* The inductive invariant of the journal and the server's delivery loop.
THEOREM Invariance == Spec => []Inv
<1>1. Init => Inv
    BY InitInv
<1>2. Inv /\ [Next]_vars => Inv'
    BY NextInv
<1> QED
    BY <1>1, <1>2, PTL DEF Spec

\* Type correctness of the journal and of the connection's state.
THEOREM TypeCorrect == Spec => []TypeOK
<1>1. Inv => TypeOK
    BY DEF Inv
<1> QED
    BY <1>1, Invariance, PTL

\* Whatever the capacity, a retained record is found in the slot a reader
\* computes for it (bvstk_journal_publish against bvstk_journal_read).
THEOREM RingIsFaithful == Spec => []RingContent
<1>1. Inv => RingContent
    BY DEF Inv
<1> QED
    BY <1>1, Invariance, PTL

\* dcp2_drain_notify_events and dcp2_drain_stream_events lose nothing from
\* the books: every record since the subscription is handed over, announced
\* as lost, or still to come.
THEOREM NothingUnaccounted == Spec => [](CursorBehindHead /\ Accounted)
<1>1. Inv => CursorBehindHead /\ Accounted
    BY DEF Inv
<1> QED
    BY <1>1, Invariance, PTL

\* No client receives a record other than the one published under that
\* sequence number after it subscribed.
THEOREM DeliveryIsFaithful == Spec => []DeliveredIsPublished
<1>1. Inv => DeliveredIsPublished
    BY DEF Inv
<1> QED
    BY <1>1, Invariance, PTL

\* Nothing a client asked for disappears silently: what a drain moves it past
\* is handed over, or covered by the loss count it announces.
THEOREM LossIsAnnounced == Spec => []NoSilentLoss
<1>1. Init => Inv /\ NoSilentLoss
    BY InitInv DEF Init, NoSilentLoss
<1>2. Inv /\ NoSilentLoss /\ [Next]_vars => (Inv /\ NoSilentLoss)'
    BY NextInv, LossStep
<1> QED
    BY <1>1, <1>2, PTL DEF Spec
=============================================================================
