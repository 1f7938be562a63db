------------------------- MODULE CacheSessionProofs -------------------------
(***************************************************************************)
(* Why a DCP2 CACHE client that reads a snapshot and then follows the      *)
(* change journal holds the registry's state, for journals, pages, tables  *)
(* and catalogs of every size.                                             *)
(*                                                                         *)
(* The registry is handed to the operators below as its four parts, the    *)
(* devices D, the last generation G, the ring J and the head H, so that a  *)
(* lemma about one step relates two registries.                            *)
(***************************************************************************)
EXTENDS CacheSession, RingArithmetic, WellFoundedInduction

RecAt(J, s) == J[(s - 1) % JournalSize]

\* The records still in the ring, and the ones of device h behind a cursor.
Window(H) == {s \in 1 .. H : H - s < JournalSize}
Beyond(J, H, h, c) == {s \in c + 1 .. H : RecAt(J, s).handle = h}

\* The records of the catalog that h has now.
Own(D, J, H, h) ==
    {s \in Window(H) : /\ RecAt(J, s).handle = h
                       /\ RecAt(J, s).generation = D[h].generation}

Changes(r, i) == r.kind = "change" /\ r.index = i

\* The records of a catalog tell how it came to be what it is: revisions
\* rise up to the device's own, the newest record has its presence and the
\* newest record about an entry has that entry.
OwnFits(D, J, H, h) ==
    \A s \in Own(D, J, H, h) :
        /\ RecAt(J, s).revision <= D[h].revision
        /\ \A t \in Own(D, J, H, h) :
              s < t => RecAt(J, s).revision < RecAt(J, t).revision
        /\ (\A t \in Own(D, J, H, h) : t <= s) =>
              /\ RecAt(J, s).revision = D[h].revision
              /\ RecAt(J, s).presence = D[h].presence
        /\ \A i \in 0 .. D[h].count - 1 :
              /\ Changes(RecAt(J, s), i)
              /\ \A t \in Own(D, J, H, h) : t > s => ~Changes(RecAt(J, t), i)
              => RecAt(J, s).entry = D[h].entries[i]

Registered(D, G, J, H) ==
    /\ D \in [Handles -> Devices] /\ G \in Nat /\ H \in Nat
    /\ J \in [0 .. JournalSize - 1 -> Records]
    /\ \A h \in Handles : D[h].generation <= G
    /\ \A s \in Window(H) : RecAt(J, s).generation <= G
    /\ \A h \in Handles : OwnFits(D, J, H, h)

\* A subscription whose catalog stands and whose position is in the journal.
InJournal(D, H, sub) ==
    /\ sub.handle \in Handles /\ D[sub.handle].generation = sub.generation
    /\ H - sub.cursor <= JournalSize

\* The records behind its cursor are exactly the revisions it misses, and
\* what they do not mention is what it knows already: presence p, entries e.
Follows(D, J, H, sub, p, e) ==
    InJournal(D, H, sub) =>
        LET d == D[sub.handle]
            A == Beyond(J, H, sub.handle, sub.cursor)
        IN  /\ sub.revision <= d.revision
            /\ \A s \in A : /\ RecAt(J, s).generation = sub.generation
                            /\ RecAt(J, s).revision > sub.revision
            /\ \A m \in sub.revision + 1 .. d.revision :
                  \E s \in A : RecAt(J, s).revision = m
            /\ A = {} => p = d.presence
            /\ \A i \in 0 .. d.count - 1 :
                  (\A s \in A : ~Changes(RecAt(J, s), i)) => e[i] = d.entries[i]

\* What a live subscription will hold when it has read its snapshot.
Target(j) == IF subs[j].pending THEN snapshot.entries ELSE view[j].entries
Live(j) == subs[j].id # 0 /\ subs[j].paused = "no"

SubFits(j) ==
    /\ subs[j].id # 0 =>
          /\ subs[j].id <= nextSub
          /\ subs[j].cursor <= head
          /\ subs[j].generation \in 1 .. generation
    /\ subs[j].paused = "told" => ~subs[j].pending
    /\ Live(j) =>
          /\ view[j].generation = subs[j].generation
          /\ view[j].revision = subs[j].revision
          /\ Follows(devices, journal, head, subs[j], view[j].presence, Target(j))

\* The snapshot of the subscription that is reading.
ReadingFits(j) ==
    Live(j) /\ subs[j].pending =>
        /\ snapshotSub = subs[j].id
        /\ snapshotId # 0
        /\ snapshot.generation = subs[j].generation
        /\ snapshot.revision = subs[j].revision
        /\ InJournal(devices, head, subs[j]) =>
              snapshot.count = devices[subs[j].handle].count
        /\ \A i \in 0 .. progress - 1 : view[j].entries[i] = snapshot.entries[i]

\* Steps of the round from the slot where the next event call starts to j.
Distance(from, j) == IF j >= from THEN j - from ELSE j - from + Subscriptions

Inv ==
    /\ TypeOK
    /\ Registered(devices, generation, journal, head)
    /\ \A i, j \in Slots : subs[i].id # 0 /\ subs[i].id = subs[j].id => i = j
    /\ \A j \in Slots : SubFits(j)
    /\ \A j \in Slots : ReadingFits(j)
    /\ snapshotId # 0 => \A j \in SlotsOf(snapshotSub) : subs[j].paused # "expired"
    /\ \A j \in Slots : passedOver[j] + Distance(roundRobin, j) < Subscriptions
-----------------------------------------------------------------------------
(* The registry.                                                           *)

\* A record of the ring is a record.
LEMMA RecType ==
    ASSUME NEW J \in [0 .. JournalSize - 1 -> Records], NEW s \in Nat \ {0}
    PROVE  RecAt(J, s) \in Records
  <1>1. s - 1 \in Nat /\ JournalSize \in Nat \ {0}
    BY RegistryAssumption
  <1>2. (s - 1) % JournalSize \in 0 .. JournalSize - 1
    BY <1>1, DivMod
  <1> QED BY <1>2 DEF RecAt

\* bvstk_cache_put and bvstk_cache_presence append rec and make the device nd.
Appended(D, J, H, D2, J2, H2, h, nd, rec) ==
    /\ H2 = H + 1
    /\ D2 = [D EXCEPT ![h] = nd]
    /\ J2 = [J EXCEPT ![H % JournalSize] = rec]
    /\ nd \in Devices /\ rec \in Records
    /\ nd.generation = D[h].generation /\ nd.count = D[h].count
    /\ nd.revision = D[h].revision + 1
    /\ rec.handle = h /\ rec.generation = nd.generation
    /\ rec.revision = nd.revision /\ rec.presence = nd.presence
    /\ \A i \in 0 .. nd.count - 1 :
          IF Changes(rec, i) THEN nd.entries[i] = rec.entry
                             ELSE nd.entries[i] = D[h].entries[i]

\* The appended record is the newest, and the ones still in the window are
\* as they were.
Grown(J, H, J2, H2, rec) ==
    /\ J2 \in [0 .. JournalSize - 1 -> Records]
    /\ RecAt(J2, H2) = rec
    /\ \A s \in Window(H2) : s # H2 => s \in Window(H) /\ RecAt(J2, s) = RecAt(J, s)
    /\ H2 \in Window(H2)

\* Appending moves the window of the ring on by one record.
LEMMA AppendWindow ==
    ASSUME NEW J \in [0 .. JournalSize - 1 -> Records], NEW H \in Nat, NEW rec \in Records
    PROVE  Grown(J, H, [J EXCEPT ![H % JournalSize] = rec], H + 1, rec)
  <1> DEFINE J2 == [J EXCEPT ![H % JournalSize] = rec]
  <1>1. JournalSize \in Nat \ {0}
    BY RegistryAssumption
  <1>2. H % JournalSize \in 0 .. JournalSize - 1 /\ (H + 1) - 1 = H
    BY <1>1, DivMod
  <1>3. RecAt(J2, H + 1) = rec
    BY <1>2 DEF RecAt
  <1>4. ASSUME NEW s \in Window(H + 1), s # H + 1
        PROVE  s \in Window(H) /\ RecAt(J2, s) = RecAt(J, s)
    <2>1. s \in 1 .. H /\ H + 1 - s < JournalSize
      BY <1>4 DEF Window
    <2>2. s \in Window(H)
      BY <1>1, <2>1 DEF Window
    <2>3. s - 1 \in Nat /\ s - 1 < H /\ H < (s - 1) + JournalSize
      BY <1>1, <2>1
    <2>4. (s - 1) % JournalSize # H % JournalSize
      BY <1>1, <2>3, SlotsDiffer
    <2>5. (s - 1) % JournalSize \in 0 .. JournalSize - 1
      BY <1>1, <2>3, DivMod
    <2> QED BY <2>2, <2>4, <2>5 DEF RecAt
  <1>5. H + 1 \in Window(H + 1)
    BY <1>1 DEF Window
  <1>6. J2 \in [0 .. JournalSize - 1 -> Records]
    OBVIOUS
  <1> HIDE DEF J2
  <1>7. Grown(J, H, J2, H + 1, rec)
    BY <1>3, <1>4, <1>5, <1>6 DEF Grown
  <1> QED BY <1>7 DEF J2

\* An append leaves the records of every catalog telling its history.
LEMMA AppendRegistered ==
    ASSUME NEW D, NEW G, NEW J, NEW H, NEW D2, NEW J2, NEW H2,
           NEW h \in Handles, NEW nd, NEW rec,
           Registered(D, G, J, H), Appended(D, J, H, D2, J2, H2, h, nd, rec)
    PROVE  Registered(D2, G, J2, H2)
  <1>1. /\ D \in [Handles -> Devices] /\ G \in Nat /\ H \in Nat
        /\ J \in [0 .. JournalSize - 1 -> Records] /\ D[h] \in Devices
        /\ \A g \in Handles : D[g].generation <= G
        /\ \A s \in Window(H) : RecAt(J, s).generation <= G
        /\ \A g \in Handles : OwnFits(D, J, H, g)
    BY DEF Registered
  <1>2. /\ H2 = H + 1 /\ nd \in Devices /\ rec \in Records
        /\ J2 = [J EXCEPT ![H % JournalSize] = rec]
        /\ nd.generation = D[h].generation /\ nd.count = D[h].count
        /\ nd.revision = D[h].revision + 1
        /\ rec.handle = h /\ rec.generation = nd.generation
        /\ rec.revision = nd.revision /\ rec.presence = nd.presence
        /\ D2 = [D EXCEPT ![h] = nd]
    BY DEF Appended
  <1>3. /\ J2 \in [0 .. JournalSize - 1 -> Records]
        /\ RecAt(J2, H2) = rec
        /\ \A s \in Window(H2) : s # H2 => s \in Window(H) /\ RecAt(J2, s) = RecAt(J, s)
        /\ H2 \in Window(H2)
    <2>1. Grown(J, H, [J EXCEPT ![H % JournalSize] = rec], H + 1, rec)
      BY <1>1, <1>2, AppendWindow
    <2>2. Grown(J, H, J2, H2, rec)
      BY <1>2, <2>1
    <2> QED BY <2>2 DEF Grown
  <1>4. D2 \in [Handles -> Devices] /\ D2[h] = nd /\ \A g \in Handles \ {h} : D2[g] = D[g]
    BY <1>1, <1>2
  <1>5. \A g \in Handles : D2[g].generation = D[g].generation /\ D2[g].generation <= G
    BY <1>1, <1>2, <1>4
  <1>6. \A s \in Window(H2) : RecAt(J2, s).generation <= G
    BY <1>1, <1>2, <1>3
  <1>7. H2 \in Nat /\ \A s \in Window(H2) : s \in Nat /\ s <= H2
    BY <1>1, <1>2 DEF Window
  <1>8. ASSUME NEW g \in Handles PROVE OwnFits(D2, J2, H2, g)
    <2>1. ASSUME NEW s \in Own(D2, J2, H2, g), s # H2
          PROVE  s \in Own(D, J, H, g) /\ RecAt(J2, s) = RecAt(J, s)
      BY <1>3, <1>5, <2>1 DEF Own
    <2>2. OwnFits(D, J, H, g)
      BY <1>1
    <2>3. CASE g # h
      <3>1. H2 \notin Own(D2, J2, H2, g) /\ D2[g] = D[g]
        BY <1>2, <1>3, <1>4, <2>3 DEF Own
      <3>2. \A s \in Own(D, J, H, g) : s \in Window(H2) => s \in Own(D2, J2, H2, g)
        <4>1. \A s \in Window(H) : s # H2
          BY <1>1, <1>2 DEF Window
        <4> QED BY <1>3, <1>5, <4>1 DEF Own
      <3>3. \A s \in Own(D2, J2, H2, g), t \in Own(D, J, H, g) : t >= s => t \in Own(D2, J2, H2, g)
        <4> SUFFICES ASSUME NEW s \in Own(D2, J2, H2, g), NEW t \in Own(D, J, H, g), t >= s
                     PROVE  t \in Window(H2)
          BY <3>2
        <4>1. s \in Window(H2) /\ t \in Window(H)
          BY DEF Own
        <4> QED BY <1>1, <1>2, <4>1, RegistryAssumption DEF Window
      <3> SUFFICES ASSUME NEW s \in Own(D2, J2, H2, g)
                   PROVE
          /\ RecAt(J2, s).revision <= D2[g].revision
          /\ \A t \in Own(D2, J2, H2, g) :
                s < t => RecAt(J2, s).revision < RecAt(J2, t).revision
          /\ (\A t \in Own(D2, J2, H2, g) : t <= s) =>
                /\ RecAt(J2, s).revision = D2[g].revision
                /\ RecAt(J2, s).presence = D2[g].presence
          /\ \A i \in 0 .. D2[g].count - 1 :
                /\ Changes(RecAt(J2, s), i)
                /\ \A t \in Own(D2, J2, H2, g) : t > s => ~Changes(RecAt(J2, t), i)
                => RecAt(J2, s).entry = D2[g].entries[i]
        BY DEF OwnFits
      <3>4. s \in Own(D, J, H, g) /\ RecAt(J2, s) = RecAt(J, s) /\ s \in Nat
        BY <1>7, <2>1, <3>1 DEF Own
      <3>5. \A t \in Own(D2, J2, H2, g) : t \in Own(D, J, H, g) /\ RecAt(J2, t) = RecAt(J, t)
        BY <2>1, <3>1
      <3>6. \A t \in Own(D, J, H, g) : t \in Nat /\ (t >= s \/ t <= s)
        BY <3>4 DEF Own, Window
      <3>7. RecAt(J2, s).revision <= D2[g].revision
        BY <2>2, <3>1, <3>4 DEF OwnFits
      <3>8. \A t \in Own(D2, J2, H2, g) :
                s < t => RecAt(J2, s).revision < RecAt(J2, t).revision
        BY <2>2, <3>4, <3>5 DEF OwnFits
      <3>9. ASSUME \A t \in Own(D2, J2, H2, g) : t <= s
            PROVE  /\ RecAt(J2, s).revision = D2[g].revision
                   /\ RecAt(J2, s).presence = D2[g].presence
        <4>1. \A t \in Own(D, J, H, g) : t <= s
          BY <3>3, <3>6, <3>9
        <4> QED BY <2>2, <3>1, <3>4, <4>1 DEF OwnFits
      <3>10. ASSUME NEW i \in 0 .. D2[g].count - 1, Changes(RecAt(J2, s), i),
                    \A t \in Own(D2, J2, H2, g) : t > s => ~Changes(RecAt(J2, t), i)
             PROVE  RecAt(J2, s).entry = D2[g].entries[i]
        <4>1. ASSUME NEW t \in Own(D, J, H, g), t > s PROVE ~Changes(RecAt(J, t), i)
          <5>1. t \in Own(D2, J2, H2, g)
            BY <3>3, <3>4, <3>6, <4>1
          <5> QED BY <3>5, <3>10, <4>1, <5>1
        <4> QED BY <2>2, <3>1, <3>4, <3>10, <4>1 DEF OwnFits
      <3> QED BY <3>7, <3>8, <3>9, <3>10
    <2>4. CASE g = h
      <3>1. H2 \in Own(D2, J2, H2, g) /\ D2[g] = nd
        BY <1>2, <1>3, <1>4, <2>4 DEF Own
      <3> SUFFICES ASSUME NEW s \in Own(D2, J2, H2, g)
                   PROVE
          /\ RecAt(J2, s).revision <= nd.revision
          /\ \A t \in Own(D2, J2, H2, g) :
                s < t => RecAt(J2, s).revision < RecAt(J2, t).revision
          /\ (\A t \in Own(D2, J2, H2, g) : t <= s) =>
                /\ RecAt(J2, s).revision = nd.revision
                /\ RecAt(J2, s).presence = nd.presence
          /\ \A i \in 0 .. nd.count - 1 :
                /\ Changes(RecAt(J2, s), i)
                /\ \A t \in Own(D2, J2, H2, g) : t > s => ~Changes(RecAt(J2, t), i)
                => RecAt(J2, s).entry = nd.entries[i]
        BY <3>1 DEF OwnFits
      <3>2. D[h].revision \in Nat /\ nd.revision = D[h].revision + 1
        BY <1>1, <1>2 DEF Devices
      <3>3. \A t \in Own(D2, J2, H2, g) : t \in Nat /\ t <= H2
        BY <1>7 DEF Own
      <3>4. CASE s = H2
        <4>1. RecAt(J2, s) = rec
          BY <1>3, <3>4
        <4>2. \A i \in 0 .. nd.count - 1 : Changes(rec, i) => rec.entry = nd.entries[i]
          BY DEF Appended
        <4>3. rec.revision = nd.revision /\ nd.revision \in Nat
          BY <1>2, <3>2
        <4>4. \A t \in Own(D2, J2, H2, g) : ~(s < t)
          BY <1>7, <3>3, <3>4
        <4>5. rec.presence = nd.presence /\ rec.revision <= nd.revision
          BY <1>2, <4>3
        <4>6. \A i \in 0 .. nd.count - 1 : Changes(RecAt(J2, s), i) => RecAt(J2, s).entry = nd.entries[i]
          BY <4>1, <4>2
        <4> QED BY <4>1, <4>3, <4>4, <4>5, <4>6
      <3>5. CASE s # H2
        <4>1. s \in Own(D, J, H, g) /\ RecAt(J2, s) = RecAt(J, s)
          BY <2>1, <3>5
        <4>2. s < H2
          BY <1>7, <3>3, <3>5
        <4>3. RecAt(J, s).revision <= D[h].revision /\ RecAt(J, s) \in Records
          <5>1. s \in Nat \ {0}
            BY <4>1 DEF Own, Window
          <5> QED BY <1>1, <2>2, <2>4, <4>1, <5>1, RecType DEF OwnFits
        <4>4. RecAt(J, s).revision \in Nat
          BY <4>3 DEF Records
        <4>5. RecAt(J2, s).revision < nd.revision /\ RecAt(J2, s).revision <= nd.revision
          BY <3>2, <4>1, <4>3, <4>4
        <4>6. ASSUME NEW t \in Own(D2, J2, H2, g), s < t
              PROVE  RecAt(J2, s).revision < RecAt(J2, t).revision
          <5>1. CASE t = H2
            BY <1>2, <1>3, <4>5, <5>1
          <5>2. CASE t # H2
            <6>1. t \in Own(D, J, H, g) /\ RecAt(J2, t) = RecAt(J, t)
              BY <2>1, <5>2
            <6> QED BY <2>2, <4>1, <4>6, <6>1 DEF OwnFits
          <5> QED BY <5>1, <5>2
        <4>7. ~\A t \in Own(D2, J2, H2, g) : t <= s
          BY <1>7, <3>1, <3>3, <4>2
        <4>8. ASSUME NEW i \in 0 .. nd.count - 1, Changes(RecAt(J2, s), i),
                     \A t \in Own(D2, J2, H2, g) : t > s => ~Changes(RecAt(J2, t), i)
              PROVE  RecAt(J2, s).entry = nd.entries[i]
          <5>1. ~Changes(rec, i)
            BY <1>3, <3>1, <4>2, <4>8, <1>7, <3>3
          <5>2. nd.entries[i] = D[h].entries[i] /\ i \in 0 .. D[h].count - 1
            BY <1>2, <5>1 DEF Appended
          <5>3. ASSUME NEW t \in Own(D, J, H, g), t > s
                PROVE  ~Changes(RecAt(J, t), i)
            <6>1. t \in Window(H) /\ s \in Window(H2) /\ t # H2
              BY <1>1, <1>2, <5>3 DEF Own, Window
            <6>2. t \in Window(H2)
              BY <1>1, <1>2, <5>3, <6>1, RegistryAssumption DEF Window
            <6>3. t \in Own(D2, J2, H2, g) /\ RecAt(J2, t) = RecAt(J, t)
              BY <1>3, <1>5, <5>3, <6>1, <6>2 DEF Own
            <6> QED BY <4>8, <5>3, <6>3
          <5> QED BY <2>2, <2>4, <4>1, <4>8, <5>2, <5>3 DEF OwnFits
        <4> QED BY <4>5, <4>6, <4>7, <4>8
      <3> QED BY <3>4, <3>5
    <2> QED BY <2>3, <2>4
  <1> QED BY <1>1, <1>3, <1>4, <1>5, <1>6, <1>7, <1>8 DEF Registered

\* bvstk_cache_define puts the catalog nd, with the next generation, in slot h.
LEMMA DefineRegistered ==
    ASSUME NEW D, NEW G, NEW J, NEW H, NEW h \in Handles, NEW nd \in Devices,
           Registered(D, G, J, H), nd.generation = G + 1
    PROVE  Registered([D EXCEPT ![h] = nd], G + 1, J, H)
  <1> DEFINE D2 == [D EXCEPT ![h] = nd]
  <1>1. /\ D \in [Handles -> Devices] /\ G \in Nat /\ H \in Nat
        /\ J \in [0 .. JournalSize - 1 -> Records]
        /\ \A g \in Handles : D[g].generation <= G
        /\ \A s \in Window(H) : RecAt(J, s).generation <= G
        /\ \A g \in Handles : OwnFits(D, J, H, g)
    BY DEF Registered
  <1>2. D2 \in [Handles -> Devices] /\ D2[h] = nd /\ \A g \in Handles \ {h} : D2[g] = D[g]
    BY <1>1
  <1> HIDE DEF D2
  <1>3. \A g \in Handles : D[g].generation \in Nat
    BY <1>1 DEF Devices
  <1>4. \A g \in Handles : D2[g].generation <= G + 1
    BY <1>1, <1>2, <1>3
  <1>5. \A s \in Window(H) : RecAt(J, s).generation \in Nat
    <2>1. \A s \in Window(H) : s \in Nat \ {0}
      BY DEF Window
    <2>2. \A s \in Window(H) : RecAt(J, s) \in Records
      BY <1>1, <2>1, RecType
    <2> QED BY <2>2 DEF Records
  <1>6. \A s \in Window(H) : RecAt(J, s).generation <= G + 1 /\ RecAt(J, s).generation # G + 1
    BY <1>1, <1>5
  <1>7. ASSUME NEW g \in Handles PROVE OwnFits(D2, J, H, g)
    <2>1. CASE g = h
      <3>1. Own(D2, J, H, g) = {}
        BY <1>2, <1>6, <2>1 DEF Own
      <3> QED BY <3>1 DEF OwnFits
    <2>2. CASE g # h
      <3>1. D2[g] = D[g] /\ OwnFits(D, J, H, g)
        BY <1>1, <1>2, <2>2
      <3>2. Own(D2, J, H, g) = Own(D, J, H, g)
        BY <3>1 DEF Own
      <3> QED BY <3>1, <3>2 DEF OwnFits
    <2> QED BY <2>1, <2>2
  <1>8. Registered(D2, G + 1, J, H)
    BY <1>1, <1>2, <1>4, <1>6, <1>7 DEF Registered
  <1> QED BY <1>8 DEF D2

-----------------------------------------------------------------------------
(* A follower, step by step.                                               *)

\* The types a follower's position has.
Placed(sub, G, H) ==
    /\ sub.cursor \in Nat /\ sub.cursor <= H /\ sub.revision \in Nat
    /\ sub.generation \in Nat /\ sub.generation <= G

\* A follower in the journal has only records of the window ahead, those of
\* its device's present catalog among them.
LEMMA BeyondInWindow ==
    ASSUME NEW D, NEW G, NEW J, NEW H, NEW sub,
           Registered(D, G, J, H), Placed(sub, G, H), InJournal(D, H, sub)
    PROVE  \A s \in Beyond(J, H, sub.handle, sub.cursor) :
              /\ s \in Window(H) /\ s \in Nat \ {0} /\ s > sub.cursor
              /\ RecAt(J, s).revision \in Nat
              /\ RecAt(J, s).generation = sub.generation => s \in Own(D, J, H, sub.handle)
  <1>1. H \in Nat /\ J \in [0 .. JournalSize - 1 -> Records] /\ JournalSize \in Nat \ {0}
    BY RegistryAssumption DEF Registered
  <1>2. sub.cursor \in Nat /\ sub.cursor <= H /\ H - sub.cursor <= JournalSize
    BY DEF Placed, InJournal
  <1> SUFFICES ASSUME NEW s \in Beyond(J, H, sub.handle, sub.cursor)
               PROVE  /\ s \in Window(H) /\ s \in Nat \ {0} /\ s > sub.cursor
                      /\ RecAt(J, s).revision \in Nat
                      /\ RecAt(J, s).generation = sub.generation => s \in Own(D, J, H, sub.handle)
    OBVIOUS
  <1>3. s \in sub.cursor + 1 .. H /\ RecAt(J, s).handle = sub.handle
    BY DEF Beyond
  <1>4. s \in Window(H) /\ s \in Nat \ {0} /\ s > sub.cursor
    BY <1>1, <1>2, <1>3 DEF Window
  <1>5. RecAt(J, s).revision \in Nat
    BY <1>1, <1>4, RecType DEF Records
  <1> QED BY <1>3, <1>4, <1>5 DEF Own, InJournal

\* An append puts its record ahead of every follower of the device and leaves
\* the others as they were.
LEMMA AppendFollows ==
    ASSUME NEW D, NEW G, NEW J, NEW H, NEW D2, NEW J2, NEW H2,
           NEW h \in Handles, NEW nd, NEW rec, NEW sub, NEW p, NEW e,
           Registered(D, G, J, H), Appended(D, J, H, D2, J2, H2, h, nd, rec),
           Placed(sub, G, H), Follows(D, J, H, sub, p, e)
    PROVE  Follows(D2, J2, H2, sub, p, e)
  <1> DEFINE g == sub.handle
             c == sub.cursor
             A == Beyond(J, H, g, c)
             A2 == Beyond(J2, H2, g, c)
  <1>1. /\ D \in [Handles -> Devices] /\ H \in Nat /\ D[h] \in Devices
        /\ J \in [0 .. JournalSize - 1 -> Records] /\ JournalSize \in Nat \ {0}
    BY RegistryAssumption DEF Registered
  <1>2. /\ H2 = H + 1 /\ nd \in Devices /\ rec \in Records
        /\ J2 = [J EXCEPT ![H % JournalSize] = rec]
        /\ nd.generation = D[h].generation /\ nd.count = D[h].count
        /\ nd.revision = D[h].revision + 1
        /\ rec.handle = h /\ rec.generation = nd.generation
        /\ rec.revision = nd.revision /\ rec.presence = nd.presence
        /\ D2 = [D EXCEPT ![h] = nd]
    BY DEF Appended
  <1>3. Grown(J, H, J2, H2, rec)
    <2>1. Grown(J, H, [J EXCEPT ![H % JournalSize] = rec], H + 1, rec)
      BY <1>1, <1>2, AppendWindow
    <2> QED BY <1>2, <2>1
  <1> SUFFICES ASSUME InJournal(D2, H2, sub)
               PROVE  /\ sub.revision <= D2[g].revision
                      /\ \A s \in A2 : /\ RecAt(J2, s).generation = sub.generation
                                       /\ RecAt(J2, s).revision > sub.revision
                      /\ \A m \in sub.revision + 1 .. D2[g].revision :
                            \E s \in A2 : RecAt(J2, s).revision = m
                      /\ A2 = {} => p = D2[g].presence
                      /\ \A i \in 0 .. D2[g].count - 1 :
                            (\A s \in A2 : ~Changes(RecAt(J2, s), i)) => e[i] = D2[g].entries[i]
    BY DEF Follows
  <1>4. c \in Nat /\ c <= H /\ sub.revision \in Nat /\ g \in Handles /\ H2 - c <= JournalSize
    BY DEF Placed, InJournal
  <1>5. InJournal(D, H, sub)
    BY <1>1, <1>2, <1>4 DEF InJournal
  <1>6. /\ sub.revision <= D[g].revision
        /\ \A s \in A : /\ RecAt(J, s).generation = sub.generation
                        /\ RecAt(J, s).revision > sub.revision
        /\ \A m \in sub.revision + 1 .. D[g].revision :
              \E s \in A : RecAt(J, s).revision = m
        /\ A = {} => p = D[g].presence
        /\ \A i \in 0 .. D[g].count - 1 :
              (\A s \in A : ~Changes(RecAt(J, s), i)) => e[i] = D[g].entries[i]
    BY <1>5 DEF Follows
  <1>7. \A s \in c + 1 .. H : s \in Window(H2) /\ s # H2 /\ RecAt(J2, s) = RecAt(J, s)
    <2> SUFFICES ASSUME NEW s \in c + 1 .. H
                 PROVE  s \in Window(H2) /\ s # H2 /\ RecAt(J2, s) = RecAt(J, s)
      OBVIOUS
    <2>1. s \in 1 .. H2 /\ s # H2 /\ H2 - s < JournalSize
      BY <1>1, <1>2, <1>4
    <2>2. s \in Window(H2)
      BY <2>1 DEF Window
    <2> QED BY <1>3, <2>1, <2>2 DEF Grown
  <1>8. \A s \in c + 1 .. H2 : s = H2 \/ s \in c + 1 .. H
    BY <1>1, <1>2, <1>4
  <1>9. /\ \A s \in A : s \in A2 /\ RecAt(J2, s) = RecAt(J, s)
        /\ \A s \in A2 : s # H2 => s \in A
    <2>1. \A s \in c + 1 .. H : s \in c + 1 .. H2
      BY <1>1, <1>2, <1>4
    <2> HIDE DEF c, g
    <2> QED BY <1>7, <1>8, <2>1 DEF Beyond
  <1>10. RecAt(J2, H2) = rec /\ H2 \in c + 1 .. H2
    BY <1>1, <1>2, <1>3, <1>4 DEF Grown
  <1>11. CASE g # h
    <2>1. H2 \notin A2 /\ D2[g] = D[g]
      BY <1>1, <1>2, <1>4, <1>10, <1>11 DEF Beyond
    <2>2. A2 = A
      BY <1>9, <2>1
    <2> HIDE DEF A, A2
    <2> QED BY <1>6, <1>9, <2>1, <2>2
  <1>12. CASE g = h
    <2>1. H2 \in A2 /\ D2[g] = nd /\ D[g] = D[h]
      BY <1>1, <1>2, <1>4, <1>10, <1>12 DEF Beyond
    <2>2. D[h].revision \in Nat /\ nd.revision = D[h].revision + 1
      BY <1>1, <1>2 DEF Devices
    <2>3. sub.generation = rec.generation
      BY <1>2, <1>5, <1>12 DEF InJournal
    <2> HIDE DEF A, A2
    <2>4. sub.revision <= nd.revision /\ nd.revision > sub.revision
      BY <1>4, <1>6, <2>1, <2>2
    <2>5. \A s \in A2 : /\ RecAt(J2, s).generation = sub.generation
                        /\ RecAt(J2, s).revision > sub.revision
      BY <1>2, <1>6, <1>9, <1>10, <2>3, <2>4
    <2>6. ASSUME NEW m \in sub.revision + 1 .. nd.revision
          PROVE  \E s \in A2 : RecAt(J2, s).revision = m
      <3>1. CASE m = nd.revision
        BY <1>2, <1>10, <2>1, <3>1
      <3>2. CASE m # nd.revision
        <4>1. m \in sub.revision + 1 .. D[g].revision
          BY <1>4, <2>1, <2>2, <3>2
        <4> QED BY <1>6, <1>9, <4>1
      <3> QED BY <3>1, <3>2
    <2>7. ASSUME NEW i \in 0 .. nd.count - 1, \A s \in A2 : ~Changes(RecAt(J2, s), i)
          PROVE  e[i] = nd.entries[i]
      <3>1. ~Changes(rec, i) /\ \A s \in A : ~Changes(RecAt(J, s), i)
        BY <1>9, <1>10, <2>1, <2>7
      <3>2. nd.entries[i] = D[h].entries[i] /\ i \in 0 .. D[h].count - 1
        BY <1>2, <3>1 DEF Appended
      <3> QED BY <1>6, <2>1, <3>1, <3>2
    <2> QED BY <2>1, <2>4, <2>5, <2>6, <2>7
  <1> QED BY <1>11, <1>12

\* Replacing a catalog ends the claim of its followers and touches no other.
LEMMA DefineFollows ==
    ASSUME NEW D, NEW G, NEW J, NEW H, NEW h \in Handles, NEW nd \in Devices,
           NEW sub, NEW p, NEW e,
           Registered(D, G, J, H), nd.generation = G + 1,
           Placed(sub, G, H), Follows(D, J, H, sub, p, e)
    PROVE  Follows([D EXCEPT ![h] = nd], J, H, sub, p, e)
  <1> DEFINE D2 == [D EXCEPT ![h] = nd]
  <1>1. D2[h] = nd /\ (\A g \in Handles \ {h} : D2[g] = D[g]) /\ G \in Nat
    BY DEF Registered
  <1> HIDE DEF D2
  <1>2. ASSUME InJournal(D2, H, sub) PROVE sub.handle # h /\ InJournal(D, H, sub)
    BY <1>1, <1>2 DEF InJournal, Placed
  <1>3. Follows(D2, J, H, sub, p, e)
    <2>1. CASE InJournal(D2, H, sub)
      <3>1. D2[sub.handle] = D[sub.handle] /\ InJournal(D, H, sub)
        BY <1>1, <1>2, <2>1 DEF InJournal
      <3> QED BY <3>1 DEF Follows
    <2>2. CASE ~InJournal(D2, H, sub)
      BY <2>2 DEF Follows
    <2> QED BY <2>1, <2>2
  <1> QED BY <1>3 DEF D2

\* A snapshot taken at the head follows from there.
LEMMA StartFollows ==
    ASSUME NEW D, NEW G, NEW J, NEW H, NEW h \in Handles, NEW sub,
           Registered(D, G, J, H), sub.handle = h, sub.cursor = H,
           sub.revision = D[h].revision
    PROVE  Follows(D, J, H, sub, D[h].presence, D[h].entries)
  <1>1. H \in Nat /\ D[h].revision \in Nat
    BY DEF Registered, Devices
  <1>2. Beyond(J, H, h, H) = {}
    BY <1>1 DEF Beyond
  <1>3. D[h].revision + 1 .. D[h].revision = {}
    BY <1>1
  <1> QED BY <1>1, <1>2, <1>3 DEF Follows

\* Nothing of the device ahead: the cursor may go to the head.
LEMMA ScanFollows ==
    ASSUME NEW D, NEW G, NEW J, NEW H, NEW sub, NEW sub2, NEW p, NEW e,
           Registered(D, G, J, H), Placed(sub, G, H), Follows(D, J, H, sub, p, e),
           InJournal(D, H, sub), Beyond(J, H, sub.handle, sub.cursor) = {},
           sub2.handle = sub.handle, sub2.cursor = H, sub2.revision = sub.revision
    PROVE  Follows(D, J, H, sub2, p, e)
  <1>1. H \in Nat
    BY DEF Registered
  <1>2. Beyond(J, H, sub2.handle, sub2.cursor) = {}
    BY <1>1 DEF Beyond
  <1> QED BY <1>2 DEF Follows

\* The least record ahead is the revision after the follower's, and applied
\* to its copy it leaves a follower one record further.
LEMMA NextFollows ==
    ASSUME NEW D, NEW G, NEW J, NEW H, NEW sub, NEW p, NEW e,
           Registered(D, G, J, H), Placed(sub, G, H), Follows(D, J, H, sub, p, e),
           InJournal(D, H, sub),
           NEW s \in Beyond(J, H, sub.handle, sub.cursor),
           \A t \in Beyond(J, H, sub.handle, sub.cursor) : s <= t,
           NEW sub2, NEW e2,
           sub2.handle = sub.handle, sub2.cursor = s, sub2.generation = sub.generation,
           sub2.revision = RecAt(J, s).revision,
           \A i \in 0 .. D[sub.handle].count - 1 :
              e2[i] = IF Changes(RecAt(J, s), i) THEN RecAt(J, s).entry ELSE e[i]
    PROVE  /\ RecAt(J, s).revision = sub.revision + 1
           /\ RecAt(J, s).generation = sub.generation
           /\ Follows(D, J, H, sub2, RecAt(J, s).presence, e2)
  <1> DEFINE h == sub.handle
             A == Beyond(J, H, h, sub.cursor)
             A2 == Beyond(J, H, h, s)
             O == Own(D, J, H, h)
             rev(x) == RecAt(J, x).revision
  <1>1. /\ sub.revision <= D[h].revision
        /\ \A x \in A : /\ RecAt(J, x).generation = sub.generation
                        /\ rev(x) > sub.revision
        /\ \A m \in sub.revision + 1 .. D[h].revision : \E x \in A : rev(x) = m
        /\ \A i \in 0 .. D[h].count - 1 :
              (\A x \in A : ~Changes(RecAt(J, x), i)) => e[i] = D[h].entries[i]
    BY DEF Follows
  <1>2. /\ \A x \in A : x \in Nat /\ x > sub.cursor /\ rev(x) \in Nat /\ x \in O
        /\ h \in Handles /\ OwnFits(D, J, H, h) /\ H \in Nat
        /\ sub.cursor \in Nat /\ sub.revision \in Nat /\ D[h].revision \in Nat
    BY <1>1, BeyondInWindow DEF InJournal, Registered, Devices, Placed
  <1>3. /\ \A x \in O : rev(x) <= D[h].revision
        /\ \A x, y \in O : x < y => rev(x) < rev(y)
    BY <1>2 DEF OwnFits
  <1>4. rev(s) = sub.revision + 1 /\ RecAt(J, s).generation = sub.generation
    <2>1. sub.revision + 1 \in sub.revision + 1 .. D[h].revision
      <3>1. rev(s) <= D[h].revision /\ rev(s) > sub.revision /\ rev(s) \in Nat
        BY <1>1, <1>2, <1>3
      <3> HIDE DEF rev, h
      <3> QED BY <1>2, <3>1
    <2>2. PICK x \in A : rev(x) = sub.revision + 1
      BY <1>1, <2>1
    <2>3. s <= x /\ s \in Nat /\ x \in Nat /\ s \in O /\ x \in O
      BY <1>2
    <2>4. s # x => rev(s) < rev(x)
      BY <1>3, <2>3
    <2>5. rev(s) > sub.revision /\ rev(s) \in Nat
      BY <1>1, <1>2
    <2> HIDE DEF rev, A, h, O
    <2> QED BY <1>1, <1>2, <2>2, <2>3, <2>4, <2>5
  <1>5. A2 = A \ {s}
    <2>1. \A x \in A : x # s => x > s
      BY <1>2
    <2>2. s \in Nat /\ s > sub.cursor /\ s <= H
      BY <1>2 DEF Beyond
    <2>3. \A x \in A \ {s} : x \in A2
      BY <1>2, <2>1, <2>2 DEF Beyond
    <2>4. \A x \in A2 : x \in A /\ x # s
      BY <1>2, <2>2 DEF Beyond
    <2> QED BY <2>3, <2>4
  <1>6. \A t \in O : t > s => t \in A2
    <2>1. s \in Nat
      BY <1>2
    <2> QED BY <1>2, <2>1 DEF Own, Window, Beyond
  <1>7. rev(s) <= D[h].revision
    BY <1>2, <1>3
  <1>8. \A x \in A2 : /\ RecAt(J, x).generation = sub.generation
                      /\ rev(x) > rev(s)
    <2> SUFFICES ASSUME NEW x \in A2 PROVE RecAt(J, x).generation = sub.generation /\ rev(x) > rev(s)
      OBVIOUS
    <2>1. x \in A /\ x # s /\ s <= x /\ x \in Nat /\ s \in Nat /\ x \in O /\ s \in O
      BY <1>2, <1>5
    <2>2. rev(s) < rev(x) /\ rev(s) \in Nat /\ rev(x) \in Nat
      BY <1>2, <1>3, <2>1
    <2> HIDE DEF rev
    <2> QED BY <1>1, <2>1, <2>2
  <1>9. ASSUME NEW m \in rev(s) + 1 .. D[h].revision PROVE \E x \in A2 : rev(x) = m
    <2>1. m \in sub.revision + 1 .. D[h].revision /\ m # rev(s)
      BY <1>2, <1>4
    <2>2. PICK x \in A : rev(x) = m
      BY <1>1, <2>1
    <2> QED BY <1>5, <2>1, <2>2
  <1>10. ASSUME A2 = {} PROVE RecAt(J, s).presence = D[h].presence
    <2>1. \A t \in O : t <= s
      <3>1. \A t \in O : t \in Nat
        BY DEF Own, Window
      <3> QED BY <1>2, <1>6, <1>10, <3>1
    <2> QED BY <1>2, <2>1 DEF OwnFits
  <1>11. ASSUME NEW i \in 0 .. D[h].count - 1, \A x \in A2 : ~Changes(RecAt(J, x), i)
         PROVE  e2[i] = D[h].entries[i]
    <2>1. CASE Changes(RecAt(J, s), i)
      <3>1. \A t \in O : t > s => ~Changes(RecAt(J, t), i)
        BY <1>6, <1>11
      <3>2. RecAt(J, s).entry = D[h].entries[i]
        BY <1>2, <2>1, <3>1 DEF OwnFits
      <3> QED BY <2>1, <3>2
    <2>2. CASE ~Changes(RecAt(J, s), i)
      <3>1. \A x \in A : ~Changes(RecAt(J, x), i)
        BY <1>5, <1>11, <2>2
      <3> QED BY <1>1, <2>2, <3>1
    <2> QED BY <2>1, <2>2
  <1>12. Follows(D, J, H, sub2, RecAt(J, s).presence, e2)
    BY <1>7, <1>8, <1>9, <1>10, <1>11 DEF Follows
  <1> QED BY <1>4, <1>12

-----------------------------------------------------------------------------
(* Choices of the code: the first slot, the first record, the found device. *)

\* SlotForSub finds a slot of the table or none.
LEMMA SlotForSubIsSlot ==
    ASSUME NEW h, SlotForSub(h) # -1, Subscriptions \in Nat \ {0}
    PROVE  SlotForSub(h) \in Slots
  <1> DEFINE same == {j \in Slots : subs[j].id # 0 /\ subs[j].handle = h}
             free == {j \in Slots : subs[j].id = 0}
             first(S) == CHOOSE j \in S : \A k \in S : j <= k
  <1>1. ASSUME NEW S, S \subseteq Slots, S # {} PROVE first(S) \in Slots
    <2>1. S \subseteq Nat
      BY <1>1 DEF Slots
    <2>2. \E x \in S : \A y \in S : x <= y
      BY <1>1, <2>1, FirstExists
    <2> QED BY <1>1, <2>2
  <1>2. same \subseteq Slots /\ free \subseteq Slots
    OBVIOUS
  <1>3. SlotForSub(h) = IF same # {} THEN first(same) ELSE IF free # {} THEN first(free) ELSE -1
    BY DEF SlotForSub
  <1> HIDE DEF same, free, first
  <1> QED BY <1>1, <1>2, <1>3

\* The slot a catalog is put in.
LEMMA SlotForIsHandle ==
    ASSUME NEW h \in 0 .. DevicesMax, DevicesMax \in Nat \ {0},
           IF h # 0 THEN Defined(h) ELSE \E i \in Handles : ~Defined(i)
    PROVE  SlotFor(h) \in Handles
  <1>1. CASE h # 0
    BY <1>1 DEF SlotFor, Handles
  <1>2. CASE h = 0
    <2> DEFINE S == {i \in Handles : ~Defined(i)}
    <2>1. S \subseteq Nat /\ S # {}
      BY <1>2 DEF Handles
    <2>2. PICK x \in S : \A y \in S : x <= y
      <3> HIDE DEF S
      <3> QED BY <2>1, FirstExists
    <2>3. x \in Handles /\ ~Defined(x) /\ \A j \in 1 .. x - 1 : Defined(j)
      <3>1. x \in Handles /\ ~Defined(x)
        OBVIOUS
      <3>2. ASSUME NEW j \in 1 .. x - 1 PROVE Defined(j)
        <4>1. j \in Handles /\ ~(x <= j)
          BY <3>1, <3>2 DEF Handles
        <4> QED BY <2>2, <4>1
      <3> QED BY <3>1, <3>2
    <2> QED BY <1>2, <2>3 DEF SlotFor
  <1> QED BY <1>1, <1>2

\* A lookup returns a handle or fails.
LEMMA LookupIsHandle ==
    ASSUME NEW name, Lookup(name) # 0
    PROVE  Lookup(name) \in Handles /\ Defined(Lookup(name))
  <1>1. \E h \in Handles : Defined(h) /\ devices[h].name = name
    BY DEF Lookup
  <1> QED BY <1>1 DEF Lookup

\* The record sent next is the first one of its device.
LEMMA FirstAheadIsFirst ==
    ASSUME NEW h, NEW c \in Nat, head \in Nat, Ahead(h, c) # {}
    PROVE  /\ FirstAhead(h, c) \in Beyond(journal, head, h, c)
           /\ \A t \in Beyond(journal, head, h, c) : FirstAhead(h, c) <= t
  <1>1. Ahead(h, c) = Beyond(journal, head, h, c)
    BY DEF Ahead, Beyond, Rec, RecAt
  <1>2. Ahead(h, c) \subseteq Nat
    BY DEF Ahead
  <1>3. \E x \in Ahead(h, c) : \A y \in Ahead(h, c) : x <= y
    BY <1>2, FirstExists
  <1> QED BY <1>1, <1>3 DEF FirstAhead

\* The slots of a round, without the remainder.
LEMMA TurnIs ==
    ASSUME NEW k \in 0 .. Subscriptions, roundRobin \in Slots, Subscriptions \in Nat \ {0}
    PROVE  /\ Turn(k) \in Slots
           /\ Turn(k) = IF roundRobin + k < Subscriptions THEN roundRobin + k
                        ELSE roundRobin + k - Subscriptions
  <1> DEFINE n == Subscriptions
             a == roundRobin + k
             b == IF a < n THEN a ELSE a - n
  <1>1. roundRobin \in Nat /\ roundRobin < n /\ a \in Nat /\ b \in 0 .. n - 1
    BY DEF Slots
  <1>2. b \in Nat /\ a % n \in 0 .. n - 1 /\ (a = b \/ a = b + n)
    BY <1>1, DivMod
  <1>3. a % n = b
    <2>1. /\ b % n \in 0 .. n - 1 /\ b \div n \in Nat /\ b = n * (b \div n) + (b % n)
          /\ a \div n \in Nat /\ a = n * (a \div n) + (a % n)
      BY <1>1, <1>2, DivMod
    <2>2. a \div n \in {0, 1} /\ b \div n = 0
      <3>0. n \in Nat
        OBVIOUS
      <3> HIDE DEF a, b, n
      <3>1. CASE a \div n >= 2
        <4>1. n * (a \div n) >= n * 1 + n
          BY <2>1, <3>0, <3>1, ProductStep
        <4> QED BY <1>1, <1>2, <2>1, <3>0, <4>1
      <3>2. CASE b \div n >= 1
        <4>1. n * (b \div n) >= n * 0 + n
          BY <2>1, <3>0, <3>2, ProductStep
        <4> QED BY <1>1, <1>2, <2>1, <3>0, <4>1
      <3> QED BY <2>1, <3>1, <3>2
    <2> QED BY <1>1, <1>2, <2>1, <2>2
  <1>4. Turn(k) = a % n
    BY DEF Turn
  <1> QED BY <1>1, <1>3, <1>4 DEF Slots

-----------------------------------------------------------------------------
(* The steps of the services.                                              *)

\* The registry goes on, and followers with it.
Continues ==
    /\ Registered(devices', generation', journal', head')
    /\ generation' >= generation /\ head' >= head
    /\ \A sub, p, e :
          Placed(sub, generation, head) =>
            /\ Follows(devices, journal, head, sub, p, e)
                  => Follows(devices', journal', head', sub, p, e)
            /\ InJournal(devices', head', sub) =>
                  /\ InJournal(devices, head, sub)
                  /\ devices'[sub.handle].count = devices[sub.handle].count

\* The position of a subscription has its type.
LEMMA SubPlaced ==
    ASSUME Inv, NEW j \in Slots, subs[j].id # 0
    PROVE  Placed(subs[j], generation, head)
  <1>1. subs[j] \in Subs /\ SubFits(j)
    BY DEF Inv, TypeOK
  <1> QED BY <1>1 DEF Subs, SubFits, Placed

\* A step of the registry that continues the old one keeps the invariant.
LEMMA RegistryStep ==
    ASSUME Inv, Continues, UNCHANGED <<sessionVars, view, passedOver>>
    PROVE  Inv'
  <1>1. /\ subs' = subs /\ snapshot' = snapshot /\ snapshotId' = snapshotId
        /\ snapshotSub' = snapshotSub /\ progress' = progress /\ idle' = idle
        /\ nextSub' = nextSub /\ nextSnapshot' = nextSnapshot /\ roundRobin' = roundRobin
        /\ view' = view /\ passedOver' = passedOver
    BY DEF sessionVars
  <1>2. TypeOK'
    <2>1. RegistryTypeOK'
      BY DEF Continues, Registered, RegistryTypeOK
    <2> QED BY <1>1, <2>1 DEF Inv, TypeOK
  <1>3. ASSUME NEW j \in Slots PROVE SubFits(j)' /\ ReadingFits(j)'
    <2>1. SubFits(j) /\ ReadingFits(j) /\ subs[j] \in Subs /\ generation \in Nat /\ head \in Nat
      BY DEF Inv, TypeOK, RegistryTypeOK
    <2>2. CASE subs[j].id = 0
      BY <1>1, <2>1, <2>2 DEF SubFits, ReadingFits, Live
    <2>3. CASE subs[j].id # 0
      <3>1. Placed(subs[j], generation, head)
        BY <2>3, SubPlaced
      <3>2. Live(j) => Follows(devices', journal', head', subs[j], view[j].presence, Target(j))
        BY <2>1, <3>1 DEF Continues, SubFits
      <3>3. InJournal(devices', head', subs[j]) =>
               /\ InJournal(devices, head, subs[j])
               /\ devices'[subs[j].handle].count = devices[subs[j].handle].count
        BY <3>1 DEF Continues
      <3>4. Target(j)' = Target(j) /\ (Live(j)' <=> Live(j))
        BY <1>1 DEF Target, Live
      <3>5. subs[j].cursor <= head' /\ subs[j].generation \in 1 .. generation'
        <4>1. /\ subs[j].cursor <= head /\ subs[j].generation \in 1 .. generation
              /\ subs[j].cursor \in Nat
          BY <2>1, <2>3 DEF SubFits, Subs
        <4>2. head' \in Nat /\ generation' \in Nat /\ head' >= head /\ generation' >= generation
          BY DEF Continues, Registered
        <4> QED BY <2>1, <4>1, <4>2
      <3>6. SubFits(j)'
        BY <1>1, <2>1, <3>2, <3>4, <3>5 DEF SubFits
      <3>7. ReadingFits(j)'
        BY <1>1, <2>1, <3>3, <3>4 DEF ReadingFits
      <3> QED BY <3>6, <3>7
    <2> QED BY <2>2, <2>3
  <1>4. (\A i, j \in Slots : subs[i].id # 0 /\ subs[i].id = subs[j].id => i = j)'
    BY <1>1 DEF Inv
  <1>5. (snapshotId # 0 => \A j \in SlotsOf(snapshotSub) : subs[j].paused # "expired")'
    BY <1>1 DEF Inv, SlotsOf
  <1>6. (\A j \in Slots : passedOver[j] + Distance(roundRobin, j) < Subscriptions)'
    BY <1>1 DEF Inv, Distance
  <1>7. Registered(devices, generation, journal, head)'
    BY DEF Continues
  <1> QED BY <1>2, <1>3, <1>4, <1>5, <1>6, <1>7 DEF Inv

\* A registry that stays the same continues itself.
LEMMA SameRegistryContinues ==
    ASSUME Inv, UNCHANGED registryVars
    PROVE  Continues
  <1>1. /\ Registered(devices, generation, journal, head) /\ generation \in Nat /\ head \in Nat
    BY DEF Inv, Registered
  <1>2. devices' = devices /\ generation' = generation /\ journal' = journal /\ head' = head
    BY DEF registryVars
  <1> QED BY <1>1, <1>2 DEF Continues

\* A registry that appends one record continues the old one.
LEMMA AppendContinues ==
    ASSUME Inv, NEW h \in Handles, NEW nd, NEW rec, UNCHANGED generation,
           Appended(devices, journal, head, devices', journal', head', h, nd, rec)
    PROVE  Continues
  <1>1. /\ Registered(devices, generation, journal, head) /\ generation \in Nat /\ head \in Nat
        /\ devices \in [Handles -> Devices] /\ JournalSize \in Nat
    BY RegistryAssumption DEF Inv, Registered
  <1>2. Registered(devices', generation', journal', head')
    BY <1>1, AppendRegistered
  <1>3. head' = head + 1 /\ devices' = [devices EXCEPT ![h] = nd]
        /\ nd.generation = devices[h].generation /\ nd.count = devices[h].count
    BY DEF Appended
  <1>4. ASSUME NEW sub, NEW p, NEW e, Placed(sub, generation, head)
        PROVE  /\ Follows(devices, journal, head, sub, p, e)
                     => Follows(devices', journal', head', sub, p, e)
               /\ InJournal(devices', head', sub) =>
                     /\ InJournal(devices, head, sub)
                     /\ devices'[sub.handle].count = devices[sub.handle].count
    <2>1. Follows(devices, journal, head, sub, p, e)
             => Follows(devices', journal', head', sub, p, e)
      BY <1>1, <1>4, AppendFollows
    <2>2. ASSUME InJournal(devices', head', sub)
          PROVE  /\ InJournal(devices, head, sub)
                 /\ devices'[sub.handle].count = devices[sub.handle].count
      <3>1. /\ sub.handle \in Handles /\ devices'[sub.handle].generation = sub.generation
            /\ head' - sub.cursor <= JournalSize /\ sub.cursor \in Nat
        BY <1>4, <2>2 DEF InJournal, Placed
      <3>2. head - sub.cursor <= JournalSize
        BY <1>1, <1>3, <3>1
      <3>3. /\ devices'[sub.handle].count = devices[sub.handle].count
            /\ devices'[sub.handle].generation = devices[sub.handle].generation
        BY <1>1, <1>3, <3>1
      <3> QED BY <3>1, <3>2, <3>3 DEF InJournal
    <2> QED BY <2>1, <2>2
  <1>5. generation' >= generation /\ head' >= head
    BY <1>1, <1>3
  <1> QED BY <1>2, <1>4, <1>5 DEF Continues

\* An entry is stored and, when it changed, recorded.
LEMMA PutEntryStep ==
    ASSUME Inv, NEW h \in Handles, NEW index \in Resources, NEW value \in Values,
           NEW valid \in BOOLEAN, PutEntry(h, index, value, valid)
    PROVE  Inv'
  <1> DEFINE d == devices[h]
             entry == Entry(valid, value)
  <1>1. UNCHANGED <<sessionVars, view, passedOver>> /\ bvstk_cache_put(h, index, value, valid)
    BY DEF PutEntry
  <1>2. CASE ~valid /\ ~devices[h].entries[index].valid
    BY <1>1, <1>2, SameRegistryContinues, RegistryStep DEF bvstk_cache_put
  <1>3. CASE ~(~valid /\ ~devices[h].entries[index].valid)
    <2> DEFINE x == [d EXCEPT !.entries[index] = entry]
               nd == [x EXCEPT !.revision = @ + 1]
               rec == [serial |-> head + 1, handle |-> h, generation |-> x.generation,
                       revision |-> x.revision + 1, kind |-> "change",
                       presence |-> x.presence, index |-> index, entry |-> entry]
    <2>1. AppendChange(h, x, "change", index, entry)
      BY <1>1, <1>3 DEF bvstk_cache_put
    <2>2. d \in Devices /\ head \in Nat /\ h \in Nat /\ index \in Nat
      BY DEF Inv, TypeOK, RegistryTypeOK, Handles, Resources
    <2>3. entry \in Entries
      <3>1. value \in Nat
        BY RegistryAssumption
      <3> QED BY <3>1 DEF Entry, Entries, Empty
    <2> HIDE DEF d, entry
    <2>4. /\ nd \in Devices /\ nd.generation = d.generation /\ nd.count = d.count
          /\ nd.revision = d.revision + 1 /\ nd.presence = d.presence
          /\ nd.entries = [d.entries EXCEPT ![index] = entry]
      <3>1. /\ x \in Devices /\ x.generation = d.generation /\ x.count = d.count
            /\ x.revision = d.revision /\ x.presence = d.presence
            /\ x.entries = [d.entries EXCEPT ![index] = entry]
        BY <2>2, <2>3 DEF Devices
      <3> HIDE DEF x
      <3> QED BY <3>1 DEF Devices
    <2>5. /\ rec \in Records /\ rec.handle = h /\ rec.generation = nd.generation
          /\ rec.revision = nd.revision /\ rec.presence = nd.presence
          /\ rec.kind = "change" /\ rec.index = index /\ rec.entry = entry
      BY <2>2, <2>3 DEF Devices, Records
    <2>6. /\ devices' = [devices EXCEPT ![h] = nd] /\ head' = head + 1
          /\ journal' = [journal EXCEPT ![head % JournalSize] = rec]
          /\ generation' = generation
      BY <2>1 DEF AppendChange
    <2> HIDE DEF nd, rec, x
    <2>7. \A i \in 0 .. nd.count - 1 :
             IF Changes(rec, i) THEN nd.entries[i] = rec.entry ELSE nd.entries[i] = d.entries[i]
      <3>1. d.entries \in [Resources -> Entries] /\ d.count \in 0 .. ResourcesMax /\ ResourcesMax \in Nat
        BY <2>2, RegistryAssumption DEF Devices
      <3>2. \A i \in 0 .. nd.count - 1 : i \in Resources
        BY <2>4, <3>1 DEF Resources
      <3> QED BY <2>4, <2>5, <3>1, <3>2 DEF Changes
    <2>8. Appended(devices, journal, head, devices', journal', head', h, nd, rec)
      BY <2>4, <2>5, <2>6, <2>7 DEF Appended, d
    <2> QED BY <1>1, <2>6, <2>8, AppendContinues, RegistryStep
  <1> QED BY <1>2, <1>3

\* A presence is stored and, when it changed, recorded.
LEMMA SetPresenceStep ==
    ASSUME Inv, NEW h \in Handles, NEW presence \in Reports, SetPresence(h, presence)
    PROVE  Inv'
  <1> DEFINE d == devices[h]
  <1>1. UNCHANGED <<sessionVars, view, passedOver>> /\ bvstk_cache_presence(h, presence)
    BY DEF SetPresence
  <1>2. CASE devices[h].presence = presence
    BY <1>1, <1>2, SameRegistryContinues, RegistryStep DEF bvstk_cache_presence
  <1>3. CASE devices[h].presence # presence
    <2> DEFINE x == [d EXCEPT !.presence = presence]
               nd == [x EXCEPT !.revision = @ + 1]
               rec == [serial |-> head + 1, handle |-> h, generation |-> x.generation,
                       revision |-> x.revision + 1, kind |-> "presence",
                       presence |-> x.presence, index |-> 0, entry |-> Empty]
    <2>1. AppendChange(h, x, "presence", 0, Empty)
      BY <1>1, <1>3 DEF bvstk_cache_presence
    <2>2. d \in Devices /\ head \in Nat /\ h \in Nat /\ presence \in Presences
      BY SessionAssumption DEF Inv, TypeOK, RegistryTypeOK, Handles
    <2>3. Empty \in Entries
      BY DEF Entries
    <2> HIDE DEF d
    <2>4. /\ nd \in Devices /\ nd.generation = d.generation /\ nd.count = d.count
          /\ nd.revision = d.revision + 1 /\ nd.presence = presence
          /\ nd.entries = d.entries
      <3>1. /\ x \in Devices /\ x.generation = d.generation /\ x.count = d.count
            /\ x.revision = d.revision /\ x.presence = presence
            /\ x.entries = d.entries
        BY <2>2 DEF Devices
      <3> HIDE DEF x
      <3> QED BY <3>1 DEF Devices
    <2>5. /\ rec \in Records /\ rec.handle = h /\ rec.generation = nd.generation
          /\ rec.revision = nd.revision /\ rec.presence = nd.presence
          /\ rec.kind = "presence"
      BY <2>2, <2>3 DEF Devices, Records
    <2>6. /\ devices' = [devices EXCEPT ![h] = nd] /\ head' = head + 1
          /\ journal' = [journal EXCEPT ![head % JournalSize] = rec]
          /\ generation' = generation
      BY <2>1 DEF AppendChange
    <2> HIDE DEF nd, rec, x
    <2>7. \A i \in 0 .. nd.count - 1 :
             IF Changes(rec, i) THEN nd.entries[i] = rec.entry ELSE nd.entries[i] = d.entries[i]
      BY <2>4, <2>5 DEF Changes
    <2>8. Appended(devices, journal, head, devices', journal', head', h, nd, rec)
      BY <2>4, <2>5, <2>6, <2>7 DEF Appended, d
    <2> QED BY <1>1, <2>6, <2>8, AppendContinues, RegistryStep
  <1> QED BY <1>2, <1>3

\* A catalog is replaced: its generation is new.
LEMMA ConfigureStep ==
    ASSUME Inv, NEW h \in 0 .. DevicesMax, NEW c \in Catalogs, Configure(h, c)
    PROVE  Inv'
  <1> DEFINE slot == SlotFor(h)
             nd == [generation |-> generation + 1, name |-> c.name, revision |-> 0,
                    count |-> c.count, presence |-> c.presence,
                    entries |-> [i \in Resources |-> IF i < c.count THEN c.entries[i] ELSE Empty]]
  <1>1. /\ UNCHANGED <<sessionVars, view, passedOver>>
        /\ IF h # 0 THEN Defined(h) ELSE \E i \in Handles : ~Defined(i)
        /\ generation' = generation + 1 /\ devices' = [devices EXCEPT ![slot] = nd]
        /\ head' = head /\ journal' = journal
    BY DEF Configure, bvstk_cache_define, FreshGeneration
  <1>2. slot \in Handles
    BY <1>1, RegistryAssumption, SlotForIsHandle
  <1>3. /\ Registered(devices, generation, journal, head) /\ generation \in Nat /\ head \in Nat
        /\ devices \in [Handles -> Devices] /\ JournalSize \in Nat
    BY RegistryAssumption DEF Inv, Registered
  <1>4. nd \in Devices /\ nd.generation = generation + 1
    <2> DEFINE ents == [i \in Resources |-> IF i < c.count THEN c.entries[i] ELSE Empty]
    <2>1. c \in [name : Names, count : 0 .. ResourcesMax, presence : Presences,
                 entries : [Resources -> Entries]]
      BY SessionAssumption
    <2>2. ents \in [Resources -> Entries]
      BY <2>1 DEF Entries
    <2> HIDE DEF ents
    <2>3. [generation |-> generation + 1, name |-> c.name, revision |-> 0,
           count |-> c.count, presence |-> c.presence, entries |-> ents] \in Devices
      BY <1>3, <2>1, <2>2 DEF Devices
    <2> QED BY <2>3 DEF ents
  <1> HIDE DEF nd, slot
  <1>5. Registered(devices', generation', journal', head')
    <2>1. Registered([devices EXCEPT ![slot] = nd], generation + 1, journal, head)
      BY <1>2, <1>3, <1>4, DefineRegistered
    <2> QED BY <1>1, <2>1
  <1>6. ASSUME NEW sub, NEW p, NEW e, Placed(sub, generation, head)
        PROVE  /\ Follows(devices, journal, head, sub, p, e)
                     => Follows(devices', journal', head', sub, p, e)
               /\ InJournal(devices', head', sub) =>
                     /\ InJournal(devices, head, sub)
                     /\ devices'[sub.handle].count = devices[sub.handle].count
    <2>1. ASSUME Follows(devices, journal, head, sub, p, e)
          PROVE  Follows(devices', journal', head', sub, p, e)
      <3>1. Follows([devices EXCEPT ![slot] = nd], journal, head, sub, p, e)
        BY <1>2, <1>3, <1>4, <1>6, <2>1, DefineFollows
      <3> QED BY <1>1, <3>1
    <2>2. ASSUME InJournal(devices', head', sub)
          PROVE  /\ InJournal(devices, head, sub)
                 /\ devices'[sub.handle].count = devices[sub.handle].count
      <3>1. sub.handle # slot
        BY <1>1, <1>2, <1>3, <1>4, <1>6, <2>2 DEF InJournal, Placed
      <3>2. devices'[sub.handle] = devices[sub.handle]
        BY <1>1, <1>2, <1>3, <2>2, <3>1 DEF InJournal
      <3> QED BY <1>1, <2>2, <3>2 DEF InJournal
    <2> QED BY <2>1, <2>2
  <1>7. generation' >= generation /\ head' >= head
    BY <1>1, <1>3
  <1>8. Continues
    BY <1>5, <1>6, <1>7 DEF Continues
  <1> QED BY <1>1, <1>8, RegistryStep

-----------------------------------------------------------------------------
(* The steps of the session.                                               *)

\* What the expiry check leaves of slot j.
ExpiryOf(j) ==
    LET s == ExpiredSubs[j]
    IN  /\ s \in Subs
        /\ s.id = subs[j].id /\ s.handle = subs[j].handle
        /\ s.generation = subs[j].generation /\ s.revision = subs[j].revision
        /\ s.cursor = subs[j].cursor /\ s.pending = subs[j].pending
        /\ ~Overdue => s = subs[j]
        /\ s.paused # "expired" => s = subs[j]
        /\ s.paused = "told" => ~s.pending
        /\ s.id # 0 /\ s.paused = "no" /\ s.pending =>
              /\ ~Overdue /\ LiveId = snapshotId /\ LiveId # 0
              /\ snapshotSub = s.id /\ CaptureBlocked

\* An overdue snapshot is taken from its subscription and from no other.
LEMMA ExpiryFits ==
    ASSUME Inv, NEW j \in Slots
    PROVE  ExpiryOf(j)
  <1> DEFINE s == ExpiredSubs[j]
             o == subs[j]
             out == Overdue /\ j \in SlotsOf(snapshotSub) /\ subs[j].pending
  <1>1. o \in Subs /\ SubFits(j) /\ ReadingFits(j) /\ snapshotId \in Nat
    BY DEF Inv, TypeOK
  <1>2. s = IF out THEN [o EXCEPT !.paused = "expired"] ELSE o
    BY DEF ExpiredSubs
  <1>3. out \in BOOLEAN
    BY DEF Overdue
  <1>4. ~Overdue => ~out
    OBVIOUS
  <1>5. Live(j) /\ o.pending /\ Overdue => out
    BY <1>1 DEF ReadingFits, SlotsOf, Live
  <1>6. Live(j) /\ o.pending => snapshotSub = o.id /\ snapshotId # 0 /\ j \in SlotsOf(snapshotSub)
    BY <1>1 DEF ReadingFits, SlotsOf, Live
  <1>7. o.paused = "told" => ~o.pending
    BY <1>1 DEF SubFits
  <1>8. CASE out
    <2>1. s = [o EXCEPT !.paused = "expired"]
      BY <1>2, <1>8
    <2>2. /\ s \in Subs /\ s.id = o.id /\ s.handle = o.handle /\ s.generation = o.generation
          /\ s.revision = o.revision /\ s.cursor = o.cursor /\ s.pending = o.pending
          /\ s.paused = "expired"
      <3> HIDE DEF s, o
      <3> QED BY <1>1, <2>1 DEF Subs
    <2> HIDE DEF s, o, out
    <2>3. Overdue
      BY <1>8 DEF out
    <2> QED BY <2>2, <2>3 DEF ExpiryOf, s, o
  <1>9. CASE ~out
    <2>1. s = o
      BY <1>2, <1>9
    <2>2. ASSUME o.id # 0, o.paused = "no", o.pending
          PROVE  /\ ~Overdue /\ LiveId = snapshotId /\ LiveId # 0
                 /\ snapshotSub = o.id /\ CaptureBlocked
      <3>1. Live(j) /\ ~Overdue
        BY <1>5, <1>9, <2>2 DEF Live
      <3>2. LiveId = snapshotId /\ snapshotId # 0 /\ j \in SlotsOf(snapshotSub)
        BY <1>6, <2>2, <3>1 DEF LiveId
      <3> QED BY <1>6, <2>2, <3>1, <3>2 DEF CaptureBlocked
    <2> HIDE DEF s, o, out
    <2>3. ExpiryOf(j) <=>
            /\ s \in Subs
            /\ s.id = o.id /\ s.handle = o.handle
            /\ s.generation = o.generation /\ s.revision = o.revision
            /\ s.cursor = o.cursor /\ s.pending = o.pending
            /\ ~Overdue => s = o
            /\ s.paused # "expired" => s = o
            /\ s.paused = "told" => ~s.pending
            /\ s.id # 0 /\ s.paused = "no" /\ s.pending =>
                  /\ ~Overdue /\ LiveId = snapshotId /\ LiveId # 0
                  /\ snapshotSub = s.id /\ CaptureBlocked
      BY DEF ExpiryOf, s, o
    <2> QED BY <1>1, <1>7, <2>1, <2>2, <2>3
  <1> QED BY <1>3, <1>8, <1>9

\* t is s, its cursor perhaps moved over records of other devices.
Moved(s, t) ==
    /\ t \in Subs /\ t.id = s.id /\ t.handle = s.handle /\ t.generation = s.generation
    /\ t.revision = s.revision /\ t.pending = s.pending /\ t.paused = s.paused
    /\ t.id # 0 =>
          /\ t.cursor <= head
          /\ InJournal(devices, head, t) => InJournal(devices, head, s)
          /\ \A p, e : Follows(devices, journal, head, s, p, e)
                          => Follows(devices, journal, head, t, p, e)

\* A subscription that stays where it is has not moved.
LEMMA SameMoved ==
    ASSUME Inv, NEW j \in Slots
    PROVE  Moved(ExpiredSubs[j], ExpiredSubs[j])
  <1>1. SubFits(j) /\ ExpiryOf(j)
    BY ExpiryFits DEF Inv
  <1> HIDE DEF ExpiredSubs
  <1> QED BY <1>1 DEF SubFits, ExpiryOf, Moved

\* A slot that the step only expires or scans keeps its part of the invariant.
LEMMA KeptSub ==
    ASSUME Inv, UNCHANGED registryVars, NEW j \in Slots,
           Moved(ExpiredSubs[j], subs'[j]), view'[j] = view[j],
           nextSub' \in Nat, nextSub' >= nextSub,
           ExpiredSubs[j].id # 0 /\ ExpiredSubs[j].paused = "no" /\ ExpiredSubs[j].pending
              => UNCHANGED <<snapshot, snapshotSub, snapshotId, progress>>
    PROVE  SubFits(j)' /\ ReadingFits(j)'
  <1> DEFINE s == ExpiredSubs[j]
             t == subs'[j]
             o == subs[j]
  <1>1. ExpiryOf(j) /\ SubFits(j) /\ ReadingFits(j) /\ subs[j] \in Subs /\ nextSub \in Nat
    BY ExpiryFits DEF Inv, TypeOK
  <1>2. /\ devices' = devices /\ generation' = generation /\ journal' = journal /\ head' = head
    BY DEF registryVars
  <1>3. /\ t.id = o.id /\ t.handle = o.handle /\ t.generation = o.generation
        /\ t.revision = o.revision /\ t.pending = o.pending
        /\ t.paused = s.paused /\ (s.paused # "expired" => s = o)
        /\ (s.paused = "told" => ~s.pending) /\ s.pending = o.pending
    BY <1>1 DEF Moved, ExpiryOf
  <1>4. ASSUME t.id # 0
        PROVE  /\ t.id <= nextSub' /\ t.cursor <= head' /\ t.generation \in 1 .. generation'
    <2>1. o.id <= nextSub /\ o.generation \in 1 .. generation /\ o.id \in Nat
      BY <1>1, <1>3, <1>4 DEF SubFits, Subs
    <2>2. t.cursor <= head
      BY <1>4 DEF Moved
    <2> HIDE DEF t, o
    <2> QED BY <1>1, <1>2, <1>3, <2>1, <2>2
  <1>5. ASSUME t.id # 0, t.paused = "no"
        PROVE  /\ s = o /\ Live(j) /\ Target(j)' = Target(j)
               /\ view'[j].generation = t.generation /\ view'[j].revision = t.revision
               /\ Follows(devices', journal', head', t, view'[j].presence, Target(j)')
    <2>1. s = o /\ Live(j)
      BY <1>3, <1>5 DEF Live
    <2>2. Target(j)' = Target(j)
      <3>1. t.pending = o.pending
        BY <1>3
      <3>2. o.pending => snapshot' = snapshot
        BY <1>3, <1>5, <2>1
      <3> QED BY <3>1, <3>2 DEF Target
    <2>3. Follows(devices, journal, head, s, view[j].presence, Target(j))
      BY <1>1, <2>1 DEF SubFits
    <2>4. Follows(devices, journal, head, t, view[j].presence, Target(j))
      BY <1>5, <2>3 DEF Moved
    <2>5. view[j].generation = o.generation /\ view[j].revision = o.revision
      BY <1>1, <2>1 DEF SubFits
    <2> QED BY <1>2, <1>3, <2>1, <2>2, <2>4, <2>5
  <1>6. SubFits(j)'
    BY <1>3, <1>4, <1>5 DEF SubFits, Live
  <1>7. ReadingFits(j)'
    <2> SUFFICES ASSUME t.id # 0, t.paused = "no", t.pending
                 PROVE  /\ snapshotSub' = t.id
                        /\ snapshotId' # 0
                        /\ snapshot'.generation = t.generation
                        /\ snapshot'.revision = t.revision
                        /\ InJournal(devices', head', t) =>
                              snapshot'.count = devices'[t.handle].count
                        /\ \A i \in 0 .. progress' - 1 :
                              view'[j].entries[i] = snapshot'.entries[i]
      BY DEF ReadingFits, Live
    <2>1. s = o /\ Live(j) /\ o.pending
      BY <1>3, <1>5
    <2>2. /\ snapshot' = snapshot /\ snapshotSub' = snapshotSub /\ snapshotId' = snapshotId
          /\ progress' = progress
      BY <1>3, <2>1
    <2>3. InJournal(devices, head, t) => InJournal(devices, head, o)
      BY <2>1 DEF Moved
    <2> QED BY <1>1, <1>2, <1>3, <2>1, <2>2, <2>3 DEF ReadingFits
  <1> QED BY <1>6, <1>7

\* The parts of the invariant that say how slots, ids and tokens relate.
UniqueIds == \A i, j \in Slots : subs[i].id # 0 /\ subs[i].id = subs[j].id => i = j
NoneExpired == snapshotId # 0 => \A j \in SlotsOf(snapshotSub) : subs[j].paused # "expired"
RoundFits == \A j \in Slots : passedOver[j] + Distance(roundRobin, j) < Subscriptions

\* The parts of the invariant, for use by name.
LEMMA InvParts ==
    Inv <=> /\ TypeOK /\ Registered(devices, generation, journal, head)
            /\ UniqueIds /\ NoneExpired /\ RoundFits
            /\ \A j \in Slots : SubFits(j)
            /\ \A j \in Slots : ReadingFits(j)
  BY DEF Inv, UniqueIds, NoneExpired, RoundFits

\* A step that leaves the registry and the round alone.
LEMMA SessionStep ==
    ASSUME Inv, UNCHANGED <<registryVars, roundRobin, passedOver>>,
           subs' \in [Slots -> Subs], snapshot' \in Devices,
           snapshotId' \in Nat, nextSnapshot' \in Nat, snapshotId' <= nextSnapshot',
           nextSub' \in 0 .. SubIdMax, snapshotSub' \in 0 .. nextSub',
           progress' \in 0 .. snapshot'.count, idle' \in 0 .. SnapshotMs,
           view' \in [Slots -> Views], UniqueIds', NoneExpired',
           \A j \in Slots : SubFits(j)' /\ ReadingFits(j)'
    PROVE  Inv'
  <1>1. /\ devices' = devices /\ generation' = generation /\ journal' = journal /\ head' = head
        /\ roundRobin' = roundRobin /\ passedOver' = passedOver
    BY DEF registryVars
  <1>2. TypeOK'
    BY <1>1 DEF Inv, TypeOK, RegistryTypeOK
  <1>3. RoundFits' /\ Registered(devices, generation, journal, head)'
    BY <1>1, InvParts DEF RoundFits, Distance
  <1> QED BY <1>2, <1>3 DEF Inv, UniqueIds, NoneExpired, RoundFits

\* The types of the session.
LEMMA SessionTypes ==
    ASSUME Inv
    PROVE  /\ subs \in [Slots -> Subs] /\ ExpiredSubs \in [Slots -> Subs]
           /\ snapshot \in Devices /\ snapshotId \in Nat /\ nextSnapshot \in Nat
           /\ snapshotId <= nextSnapshot /\ nextSub \in 0 .. SubIdMax /\ nextSub \in Nat
           /\ snapshotSub \in 0 .. nextSub /\ progress \in 0 .. snapshot.count
           /\ idle \in 0 .. SnapshotMs /\ view \in [Slots -> Views]
           /\ devices \in [Handles -> Devices]
           /\ LiveId \in {0, snapshotId} /\ LiveId <= nextSnapshot /\ LiveId \in Nat
  <1>1. \A j \in Slots : ExpiredSubs[j] \in Subs
    BY ExpiryFits DEF ExpiryOf
  <1>2. ExpiredSubs \in [Slots -> Subs]
    <2>1. ExpiredSubs = [j \in Slots |-> ExpiredSubs[j]]
      BY DEF ExpiredSubs
    <2> QED BY <1>1, <2>1
  <1>3. SubIdMax \in Nat
    BY SessionAssumption
  <1>4. TypeOK
    BY DEF Inv
  <1>5. /\ subs \in [Slots -> Subs] /\ snapshot \in Devices /\ snapshotId \in Nat
        /\ nextSnapshot \in Nat /\ snapshotId <= nextSnapshot /\ nextSub \in 0 .. SubIdMax
        /\ snapshotSub \in 0 .. nextSub /\ progress \in 0 .. snapshot.count
        /\ idle \in 0 .. SnapshotMs /\ view \in [Slots -> Views]
        /\ devices \in [Handles -> Devices]
    BY <1>4 DEF TypeOK, RegistryTypeOK
  <1>6. LiveId \in {0, snapshotId} /\ LiveId <= nextSnapshot /\ LiveId \in Nat
    BY <1>5 DEF LiveId
  <1>7. nextSub \in Nat
    BY <1>3, <1>5
  <1> QED BY <1>2, <1>5, <1>6, <1>7

\* Slots have the ids they had.
LEMMA KeptIds ==
    ASSUME Inv, \A j \in Slots : subs'[j].id = subs[j].id
    PROVE  UniqueIds'
  BY InvParts DEF UniqueIds

\* After the expiry check no subscription whose snapshot may still be read is
\* expired.
LEMMA KeptUnexpired ==
    ASSUME Inv, snapshotId' = LiveId, snapshotSub' = snapshotSub,
           \A j \in Slots : /\ subs'[j].id = ExpiredSubs[j].id
                            /\ subs'[j].paused \in {ExpiredSubs[j].paused, "told"}
    PROVE  NoneExpired'
  <1> SUFFICES ASSUME snapshotId' # 0, NEW j \in SlotsOf(snapshotSub)'
               PROVE  subs'[j].paused # "expired"
    BY DEF NoneExpired
  <1>1. j \in Slots /\ snapshotSub # 0 /\ subs'[j].id = snapshotSub /\ ExpiryOf(j)
    BY ExpiryFits DEF SlotsOf
  <1>2. ~Overdue /\ snapshotId # 0
    BY DEF LiveId
  <1>3. ExpiredSubs[j] = subs[j]
    BY <1>1, <1>2 DEF ExpiryOf
  <1>4. j \in SlotsOf(snapshotSub)
    BY <1>1, <1>3 DEF SlotsOf
  <1>5. subs[j].paused # "expired"
    BY <1>2, <1>4, InvParts DEF NoneExpired
  <1> QED BY <1>1, <1>3, <1>5

\* A request that is refused changes no state of the session.
LEMMA RejectedRequestStep ==
    ASSUME Inv, RejectedRequest
    PROVE  Inv'
  <1>1. /\ subs' = ExpiredSubs /\ snapshotId' = LiveId
        /\ UNCHANGED registryVars /\ snapshot' = snapshot /\ snapshotSub' = snapshotSub
        /\ progress' = progress /\ idle' = idle /\ nextSub' = nextSub
        /\ nextSnapshot' = nextSnapshot /\ roundRobin' = roundRobin /\ view' = view
        /\ passedOver' = passedOver
    BY DEF RejectedRequest
  <1>2. ASSUME NEW j \in Slots PROVE SubFits(j)' /\ ReadingFits(j)'
    <2>1. ExpiryOf(j) /\ Moved(ExpiredSubs[j], subs'[j])
      BY <1>1, ExpiryFits, SameMoved
    <2> QED BY <1>1, <2>1, KeptSub, SessionTypes DEF ExpiryOf
  <1>3. \A j \in Slots : subs'[j].id = subs[j].id
    BY <1>1, ExpiryFits DEF ExpiryOf
  <1>4. UniqueIds' /\ NoneExpired'
    BY <1>1, <1>3, KeptIds, KeptUnexpired
  <1> QED BY <1>1, <1>2, <1>4, SessionStep, SessionTypes

\* Time passes.
LEMMA TickStep ==
    ASSUME Inv, Tick
    PROVE  Inv'
  <1>1. /\ idle < SnapshotMs /\ idle' = idle + 1
        /\ UNCHANGED registryVars /\ subs' = subs /\ snapshot' = snapshot
        /\ snapshotId' = snapshotId /\ snapshotSub' = snapshotSub
        /\ progress' = progress /\ nextSub' = nextSub
        /\ nextSnapshot' = nextSnapshot /\ roundRobin' = roundRobin /\ view' = view
        /\ passedOver' = passedOver
    BY DEF Tick
  <1>2. /\ devices' = devices /\ generation' = generation /\ journal' = journal /\ head' = head
    BY <1>1 DEF registryVars
  <1>3. ASSUME NEW j \in Slots PROVE SubFits(j)' /\ ReadingFits(j)'
    BY <1>1, <1>2, InvParts DEF SubFits, ReadingFits, Live, Target
  <1>4. UniqueIds' /\ NoneExpired'
    BY <1>1, InvParts DEF UniqueIds, NoneExpired, SlotsOf
  <1>5. idle' \in 0 .. SnapshotMs
    BY <1>1, SessionTypes, SessionAssumption
  <1> QED BY <1>1, <1>3, <1>4, <1>5, SessionStep, SessionTypes

\* A subscription is refused.
LEMMA SubscribeRefusedStep ==
    ASSUME Inv, NEW name, SubscribeRefused(name)
    PROVE  Inv'
  <1> DEFINE h == Lookup(name)
  <1>1. /\ ~CaptureBlocked /\ h # 0 /\ snapshot' = devices[h]
        /\ subs' = ExpiredSubs /\ snapshotId' = 0 /\ snapshotSub' = 0 /\ progress' = 0
        /\ UNCHANGED registryVars /\ idle' = idle /\ nextSub' = nextSub
        /\ nextSnapshot' = nextSnapshot /\ roundRobin' = roundRobin /\ view' = view
        /\ passedOver' = passedOver
    BY DEF SubscribeRefused
  <1>2. h \in Handles
    BY <1>1, LookupIsHandle
  <1>3. ASSUME NEW j \in Slots PROVE SubFits(j)' /\ ReadingFits(j)'
    <2>1. ExpiryOf(j) /\ Moved(ExpiredSubs[j], subs'[j])
      BY <1>1, ExpiryFits, SameMoved
    <2>2. ~(ExpiredSubs[j].id # 0 /\ ExpiredSubs[j].paused = "no" /\ ExpiredSubs[j].pending)
      BY <1>1, <2>1 DEF ExpiryOf
    <2> QED BY <1>1, <2>1, <2>2, KeptSub, SessionTypes
  <1>4. \A j \in Slots : subs'[j].id = subs[j].id
    BY <1>1, ExpiryFits DEF ExpiryOf
  <1>5. UniqueIds'
    BY <1>4, KeptIds
  <1>6. NoneExpired'
    BY <1>1 DEF NoneExpired
  <1>7. snapshot' \in Devices /\ progress' \in 0 .. snapshot'.count
    BY <1>1, <1>2, SessionTypes, RegistryAssumption DEF Devices
  <1>8. snapshotSub' \in 0 .. nextSub' /\ snapshotId' <= nextSnapshot' /\ snapshotId' \in Nat
    BY <1>1, SessionTypes
  <1> QED BY <1>1, <1>3, <1>5, <1>6, <1>7, <1>8, SessionStep, SessionTypes

\* A subscription ends.
LEMMA UnsubscribeStep ==
    ASSUME Inv, NEW k \in Slots, Unsubscribe(k)
    PROVE  Inv'
  <1> DEFINE owns == snapshotSub = subs[k].id
  <1>1. /\ subs[k].id # 0 /\ subs' = [ExpiredSubs EXCEPT ![k] = FreeSub]
        /\ snapshotSub' = (IF owns THEN 0 ELSE snapshotSub)
        /\ snapshotId' = (IF owns THEN 0 ELSE LiveId)
        /\ view' = [view EXCEPT ![k] = NoView]
        /\ UNCHANGED registryVars /\ snapshot' = snapshot
        /\ progress' = progress /\ idle' = idle /\ nextSub' = nextSub
        /\ nextSnapshot' = nextSnapshot /\ roundRobin' = roundRobin
        /\ passedOver' = passedOver
    BY DEF Unsubscribe
  <1>2. FreeSub \in Subs /\ NoView \in Views
    BY RegistryAssumption, SessionAssumption
       DEF FreeSub, Subs, NoView, Views, Presences, Unread
  <1>3. /\ subs' \in [Slots -> Subs] /\ subs'[k] = FreeSub
        /\ \A j \in Slots \ {k} : subs'[j] = ExpiredSubs[j] /\ view'[j] = view[j]
        /\ view' \in [Slots -> Views]
    <2> HIDE DEF ExpiredSubs
    <2> QED BY <1>1, <1>2, SessionTypes
  <1>4. ASSUME NEW j \in Slots PROVE SubFits(j)' /\ ReadingFits(j)'
    <2>1. CASE j = k
      BY <1>3, <2>1 DEF SubFits, ReadingFits, Live, FreeSub
    <2>2. CASE j # k
      <3>1. ExpiryOf(j) /\ Moved(ExpiredSubs[j], subs'[j]) /\ view'[j] = view[j]
        BY <1>3, <2>2, ExpiryFits, SameMoved
      <3>2. ASSUME ExpiredSubs[j].id # 0, ExpiredSubs[j].paused = "no", ExpiredSubs[j].pending
            PROVE  UNCHANGED <<snapshot, snapshotSub, snapshotId, progress>>
        <4>1. snapshotSub = subs[j].id /\ LiveId = snapshotId /\ subs[j].id # 0
          BY <3>1, <3>2 DEF ExpiryOf
        <4>2. ~owns
          BY <2>2, <4>1, InvParts DEF UniqueIds
        <4> QED BY <1>1, <4>1, <4>2
      <3> QED BY <1>1, <3>1, <3>2, KeptSub, SessionTypes
    <2> QED BY <2>1, <2>2
  <1>5. UniqueIds'
    <2>1. \A j \in Slots : subs'[j].id # 0 => j # k /\ subs'[j].id = subs[j].id
      BY <1>3, ExpiryFits DEF ExpiryOf, FreeSub
    <2> QED BY <2>1, InvParts DEF UniqueIds
  <1>6. NoneExpired'
    <2> SUFFICES ASSUME snapshotId' # 0, NEW j \in SlotsOf(snapshotSub)'
                 PROVE  subs'[j].paused # "expired"
      BY DEF NoneExpired
    <2>1. ~owns /\ LiveId # 0 /\ snapshotSub' = snapshotSub
      BY <1>1
    <2>2. ~Overdue /\ snapshotId # 0
      BY <2>1 DEF LiveId
    <2>3. j \in Slots /\ snapshotSub # 0 /\ subs'[j].id = snapshotSub /\ ExpiryOf(j)
      BY <2>1, ExpiryFits DEF SlotsOf
    <2>4. j # k
      BY <1>3, <2>3 DEF FreeSub
    <2>5. subs'[j] = subs[j]
      BY <1>3, <2>2, <2>3, <2>4 DEF ExpiryOf
    <2>6. j \in SlotsOf(snapshotSub)
      BY <2>3, <2>5 DEF SlotsOf
    <2> QED BY <2>2, <2>5, <2>6, InvParts DEF NoneExpired
  <1>7. snapshotSub' \in 0 .. nextSub' /\ snapshotId' <= nextSnapshot' /\ snapshotId' \in Nat
    BY <1>1, SessionTypes
  <1> QED BY <1>1, <1>3, <1>4, <1>5, <1>6, <1>7, SessionStep, SessionTypes

\* The state of a new session.
SessionEmpty ==
    /\ subs = [j \in Slots |-> FreeSub] /\ snapshot = NoDevice
    /\ snapshotId = 0 /\ snapshotSub = 0 /\ progress = 0 /\ idle = 0 /\ nextSub = 0
    /\ nextSnapshot = 0 /\ roundRobin = 0 /\ view = [j \in Slots |-> NoView]
    /\ passedOver = [j \in Slots |-> 0]

\* A session without subscriptions satisfies the invariant.
LEMMA EmptySessionFits ==
    ASSUME SessionEmpty, Registered(devices, generation, journal, head)
    PROVE  Inv
  <1>1. FreeSub \in Subs /\ NoView \in Views
    BY RegistryAssumption, SessionAssumption
       DEF FreeSub, Subs, NoView, Views, Presences, Unread
  <1>2. NoDevice \in Devices /\ NoDevice.count = 0
    BY RegistryAssumption DEF NoDevice, Devices, Presences, Entries, Empty, Resources
  <1>3. 0 \in Slots /\ Subscriptions \in Nat \ {0} /\ 0 \in 0 .. SubIdMax /\ 0 \in 0 .. SnapshotMs
    BY SessionAssumption DEF Slots
  <1>4. RegistryTypeOK
    BY DEF Registered, RegistryTypeOK
  <1>5. /\ subs \in [Slots -> Subs] /\ view \in [Slots -> Views] /\ passedOver \in [Slots -> Nat]
        /\ \A j \in Slots : subs[j] = FreeSub /\ passedOver[j] = 0
    BY <1>1 DEF SessionEmpty
  <1>6. TypeOK
    BY <1>2, <1>3, <1>4, <1>5 DEF TypeOK, SessionEmpty
  <1>7. \A j \in Slots : SubFits(j) /\ ReadingFits(j)
    BY <1>5 DEF SubFits, ReadingFits, Live, FreeSub
  <1>8. UniqueIds /\ NoneExpired
    BY <1>5 DEF UniqueIds, NoneExpired, FreeSub, SessionEmpty
  <1>9. RoundFits
    BY <1>3, <1>5 DEF RoundFits, Distance, SessionEmpty, Slots
  <1> QED BY <1>6, <1>7, <1>8, <1>9, InvParts

\* The client connects again: the session starts empty.
LEMMA ReconnectStep ==
    ASSUME Inv, Reconnect
    PROVE  Inv'
  <1>1. SessionEmpty' /\ UNCHANGED registryVars
    BY DEF Reconnect, SessionEmpty
  <1>2. Registered(devices, generation, journal, head)'
    BY <1>1, InvParts DEF registryVars
  <1>3. (SessionEmpty /\ Registered(devices, generation, journal, head) => Inv)'
    BY EmptySessionFits, PTL
  <1> QED BY <1>1, <1>2, <1>3

\* The initial state satisfies the invariant.
LEMMA InitFits == Init => Inv
  <1> SUFFICES ASSUME Init PROVE Inv
    OBVIOUS
  <1>1. SessionEmpty
    BY DEF Init, SessionInit, SessionEmpty
  <1>2. NoDevice \in Devices /\ NoRecord \in Records /\ NoDevice.generation = 0
    BY RegistryAssumption
       DEF NoDevice, NoRecord, Devices, Records, Presences, Entries, Empty, Resources
  <1>3. /\ devices = [h \in Handles |-> NoDevice] /\ generation = 0 /\ head = 0
        /\ journal = [i \in 0 .. JournalSize - 1 |-> NoRecord]
    BY DEF Init, RegistryInit
  <1>4. Window(0) = {}
    BY DEF Window
  <1>5. \A h \in Handles : OwnFits(devices, journal, head, h)
    BY <1>3, <1>4 DEF OwnFits, Own
  <1>6. Registered(devices, generation, journal, head)
    <2>1. /\ devices \in [Handles -> Devices] /\ generation \in Nat /\ head \in Nat
          /\ journal \in [0 .. JournalSize - 1 -> Records]
      BY <1>2, <1>3
    <2>2. \A h \in Handles : devices[h].generation <= generation
      BY <1>2, <1>3
    <2>3. \A s \in Window(head) : RecAt(journal, s).generation <= generation
      BY <1>3, <1>4
    <2> QED BY <1>5, <2>1, <2>2, <2>3 DEF Registered
  <1> QED BY <1>1, <1>6, EmptySessionFits

-----------------------------------------------------------------------------
(* Pages.                                                                  *)

\* A page in sequence, or any other page, leaves the part read in sequence
\* equal to the snapshot.
LEMMA PageReads ==
    ASSUME NEW snap \in Devices, NEW done \in 0 .. snap.count, NEW first \in 0 .. snap.count,
           NEW v \in Views, \A i \in 0 .. done - 1 : v.entries[i] = snap.entries[i],
           NEW n, n = PageCount(snap, first), NEW e,
           e = [i \in Resources |-> IF i \in first .. first + n - 1
                                    THEN snap.entries[i] ELSE v.entries[i]]
    PROVE  /\ NewProgress(done, first, n) \in 0 .. snap.count
           /\ \A i \in 0 .. NewProgress(done, first, n) - 1 : e[i] = snap.entries[i]
           /\ e \in [Resources -> Entries \cup {Unread}]
  <1>1. /\ snap.count \in 0 .. ResourcesMax /\ ResourcesMax \in Nat /\ PageSize \in Nat \ {0}
        /\ snap.entries \in [Resources -> Entries] /\ v.entries \in [Resources -> Entries \cup {Unread}]
    BY RegistryAssumption, SessionAssumption DEF Devices, Views
  <1>2. n \in Nat /\ first + n <= snap.count
    BY <1>1 DEF PageCount
  <1>3. NewProgress(done, first, n) \in 0 .. snap.count
    BY <1>1, <1>2 DEF NewProgress
  <1>4. ASSUME NEW i \in 0 .. NewProgress(done, first, n) - 1 PROVE e[i] = snap.entries[i]
    <2>1. i \in Resources
      BY <1>1, <1>3 DEF Resources
    <2>2. i \in first .. first + n - 1 \/ i \in 0 .. done - 1
      BY <1>1, <1>2 DEF NewProgress
    <2> QED BY <2>1, <2>2
  <1>5. e \in [Resources -> Entries \cup {Unread}]
    BY <1>1
  <1> QED BY <1>3, <1>4, <1>5

SamePlace(s, t) ==
    /\ t.handle = s.handle /\ t.generation = s.generation
    /\ t.revision = s.revision /\ t.cursor = s.cursor

\* Reading the snapshot to its end makes its entries those of the follower.
LEMMA FollowsSame ==
    ASSUME NEW D, NEW J, NEW H, NEW s, NEW t, NEW p, NEW e, NEW e2,
           Follows(D, J, H, s, p, e), SamePlace(s, t),
           InJournal(D, H, s) => \A i \in 0 .. D[s.handle].count - 1 : e2[i] = e[i]
    PROVE  Follows(D, J, H, t, p, e2)
  <1>1. InJournal(D, H, t) <=> InJournal(D, H, s)
    BY DEF InJournal, SamePlace
  <1> QED BY <1>1 DEF Follows, SamePlace

\* Subscription s with copy v has read the first done entries of its snapshot.
ReaderAt(snap, done, s, v) ==
    /\ snap \in Devices /\ done \in 0 .. snap.count /\ s \in Subs /\ v \in Views
    /\ v.generation = s.generation /\ v.revision = s.revision
    /\ Follows(devices, journal, head, s, v.presence,
               IF s.pending THEN snap.entries ELSE v.entries)
    /\ InJournal(devices, head, s) => snap.count = devices[s.handle].count
    /\ \A i \in 0 .. done - 1 : v.entries[i] = snap.entries[i]

\* What a page from "first" on makes of progress, subscription and copy.
PageRead(snap, done, first, s, v, q, t, w) ==
    LET n == PageCount(snap, first)
    IN  /\ q = NewProgress(done, first, n)
        /\ w = [v EXCEPT !.entries =
                   [i \in Resources |-> IF i \in first .. first + n - 1
                                        THEN snap.entries[i] ELSE @[i]]]
        /\ t = IF q = snap.count THEN [s EXCEPT !.pending = FALSE] ELSE s

\* Reading one more page keeps client and snapshot in agreement.
LEMMA ReaderFits ==
    ASSUME NEW snap, NEW done, NEW s, NEW v, ReaderAt(snap, done, s, v), s.pending,
           NEW first \in 0 .. snap.count, NEW q, NEW t, NEW w,
           PageRead(snap, done, first, s, v, q, t, w)
    PROVE  /\ ReaderAt(snap, q, t, w) /\ SamePlace(s, t)
           /\ t.id = s.id /\ t.paused = s.paused
  <1> DEFINE n == PageCount(snap, first)
             e == [i \in Resources |-> IF i \in first .. first + n - 1
                                       THEN snap.entries[i] ELSE v.entries[i]]
  <1>0. /\ snap \in Devices /\ done \in 0 .. snap.count /\ s \in Subs /\ v \in Views
        /\ v.generation = s.generation /\ v.revision = s.revision
        /\ Follows(devices, journal, head, s, v.presence, snap.entries)
        /\ InJournal(devices, head, s) => snap.count = devices[s.handle].count
        /\ \A i \in 0 .. done - 1 : v.entries[i] = snap.entries[i]
    BY DEF ReaderAt
  <1>1. /\ q \in 0 .. snap.count
        /\ \A i \in 0 .. q - 1 : e[i] = snap.entries[i]
        /\ e \in [Resources -> Entries \cup {Unread}]
    <2>1. /\ NewProgress(done, first, n) \in 0 .. snap.count
          /\ \A i \in 0 .. NewProgress(done, first, n) - 1 : e[i] = snap.entries[i]
          /\ e \in [Resources -> Entries \cup {Unread}]
      <3>1. \A ee : ee = e =>
              /\ NewProgress(done, first, n) \in 0 .. snap.count
              /\ \A i \in 0 .. NewProgress(done, first, n) - 1 : ee[i] = snap.entries[i]
              /\ ee \in [Resources -> Entries \cup {Unread}]
        BY <1>0, PageReads
      <3> QED BY <3>1
    <2>2. q = NewProgress(done, first, n)
      BY DEF PageRead
    <2> HIDE DEF n, e
    <2> QED BY <2>1, <2>2
  <1>2. w = [v EXCEPT !.entries = e]
    BY DEF PageRead
  <1>3. /\ t \in Subs /\ t.id = s.id /\ t.cursor = s.cursor /\ t.generation = s.generation
        /\ t.handle = s.handle /\ t.revision = s.revision /\ t.paused = s.paused
        /\ (q = snap.count => ~t.pending) /\ (q # snap.count => t = s)
    BY <1>0 DEF Subs, PageRead
  <1> HIDE DEF e, n
  <1>4. /\ w \in Views /\ w.generation = v.generation /\ w.revision = v.revision
        /\ w.presence = v.presence /\ w.entries = e
    BY <1>0, <1>1, <1>2 DEF Views
  <1>5. SamePlace(s, t)
    BY <1>3 DEF SamePlace
  <1>6. InJournal(devices, head, t) <=> InJournal(devices, head, s)
    BY <1>5 DEF InJournal, SamePlace
  <1>7. Follows(devices, journal, head, t, w.presence, IF t.pending THEN snap.entries ELSE w.entries)
    <2>1. CASE q = snap.count
      <3>1. InJournal(devices, head, s) =>
              \A i \in 0 .. devices[s.handle].count - 1 : e[i] = snap.entries[i]
        BY <1>0, <1>1, <2>1
      <3>2. Follows(devices, journal, head, t, v.presence, e)
        BY <1>0, <1>5, <3>1, FollowsSame
      <3> QED BY <1>3, <1>4, <2>1, <3>2
    <2>2. CASE q # snap.count
      BY <1>0, <1>3, <1>4, <2>2
    <2> QED BY <2>1, <2>2
  <1>8. ReaderAt(snap, q, t, w)
    BY <1>0, <1>1, <1>3, <1>4, <1>6, <1>7 DEF ReaderAt
  <1> QED BY <1>3, <1>5, <1>8

\* A slot that is reading satisfies the reader's condition, and the other way.
LEMMA ReaderOfSlot ==
    ASSUME Inv, NEW j \in Slots, Live(j), subs[j].pending
    PROVE  ReaderAt(snapshot, progress, subs[j], view[j])
  <1>1. SubFits(j) /\ ReadingFits(j)
    BY InvParts
  <1>2. /\ subs[j] \in Subs /\ view[j] \in Views /\ snapshot \in Devices
        /\ progress \in 0 .. snapshot.count
    BY SessionTypes
  <1>3. Target(j) = IF subs[j].pending THEN snapshot.entries ELSE view[j].entries
    BY DEF Target
  <1> QED BY <1>1, <1>2, <1>3 DEF SubFits, ReadingFits, ReaderAt

\* A subscription that is reading a snapshot fits its slot.
LEMMA SlotOfReader ==
    ASSUME Inv, UNCHANGED registryVars, NEW j \in Slots,
           ReaderAt(snapshot', progress', subs'[j], view'[j]),
           subs'[j].id # 0, subs'[j].id <= nextSub', subs'[j].paused = "no",
           subs'[j].cursor <= head, subs'[j].generation \in 1 .. generation,
           subs'[j].pending =>
              /\ snapshotSub' = subs'[j].id /\ snapshotId' # 0
              /\ snapshot'.generation = subs'[j].generation
              /\ snapshot'.revision = subs'[j].revision
    PROVE  SubFits(j)' /\ ReadingFits(j)'
  <1>1. /\ devices' = devices /\ generation' = generation /\ journal' = journal /\ head' = head
    BY DEF registryVars
  <1>2. Target(j)' = IF subs'[j].pending THEN snapshot'.entries ELSE view'[j].entries
    BY DEF Target
  <1>3. SubFits(j)'
    BY <1>1, <1>2 DEF ReaderAt, SubFits, Live
  <1>4. ReadingFits(j)'
    BY <1>1 DEF ReaderAt, ReadingFits, Live
  <1> QED BY <1>3, <1>4

\* A further page of a snapshot is read.
LEMMA GetPageStep ==
    ASSUME Inv, NEW token, NEW first, GetPage(token, first)
    PROVE  Inv'
  <1> DEFINE n == PageCount(snapshot, first)
             reads(j) == snapshotSub # 0 /\ subs[j].id = snapshotSub
  <1>1. /\ LiveId # 0 /\ first \in 0 .. snapshot.count
        /\ Page(subs, snapshotSub, snapshot, progress, first, view)
        /\ idle' = 0 /\ UNCHANGED registryVars /\ snapshot' = snapshot
        /\ snapshotId' = snapshotId /\ snapshotSub' = snapshotSub /\ nextSub' = nextSub
        /\ nextSnapshot' = nextSnapshot /\ roundRobin' = roundRobin
        /\ passedOver' = passedOver
    BY DEF GetPage
  <1>2. ~Overdue /\ snapshotId # 0
    BY <1>1 DEF LiveId
  <1>3. progress' = NewProgress(progress, first, n)
    BY <1>1 DEF Page
  <1>4. /\ subs' = [j \in Slots |->
              IF j \in {k \in Slots : snapshotSub # 0 /\ subs[k].id = snapshotSub}
                 /\ progress' = snapshot.count
              THEN [subs[j] EXCEPT !.pending = FALSE] ELSE subs[j]]
        /\ view' = [j \in Slots |->
              IF j \in {k \in Slots : snapshotSub # 0 /\ subs[k].id = snapshotSub}
                 /\ subs[j].pending
              THEN [view[j] EXCEPT !.entries =
                      [i \in Resources |-> IF i \in first .. first + n - 1
                                           THEN snapshot.entries[i] ELSE @[i]]]
              ELSE view[j]]
    BY <1>1 DEF Page
  <1>5. \A j \in Slots : ExpiredSubs[j] = subs[j]
    BY <1>2, ExpiryFits DEF ExpiryOf
  <1>6. progress' \in 0 .. snapshot.count
    <2>1. n \in Nat /\ first + n <= snapshot.count /\ snapshot.count \in Nat
      BY <1>1, SessionTypes, SessionAssumption, RegistryAssumption DEF PageCount, Devices
    <2> HIDE DEF n
    <2> QED BY <1>1, <1>3, <2>1, SessionTypes DEF NewProgress
  <1>7. ASSUME NEW j \in Slots
        PROVE  /\ subs'[j] \in Subs /\ view'[j] \in Views /\ subs'[j].id = subs[j].id
               /\ subs'[j].paused = subs[j].paused
               /\ SubFits(j)' /\ ReadingFits(j)'
    <2>1. subs[j] \in Subs /\ view[j] \in Views /\ SubFits(j) /\ ReadingFits(j)
      BY SessionTypes, InvParts
    <2>2. CASE reads(j) /\ subs[j].pending
      <3>1. j \in SlotsOf(snapshotSub) /\ subs[j].id # 0
        BY <2>2 DEF SlotsOf
      <3>2. subs[j].paused = "no"
        BY <1>2, <2>1, <2>2, <3>1, InvParts DEF NoneExpired, SubFits, Subs
      <3>3. ReaderAt(snapshot, progress, subs[j], view[j])
        BY <2>2, <3>1, <3>2, ReaderOfSlot DEF Live
      <3>4. subs'[j] = IF progress' = snapshot.count THEN [subs[j] EXCEPT !.pending = FALSE]
                       ELSE subs[j]
        BY <1>4, <2>2
      <3>5. view'[j] = [view[j] EXCEPT !.entries =
                      [i \in Resources |-> IF i \in first .. first + n - 1
                                           THEN snapshot.entries[i] ELSE @[i]]]
        BY <1>4, <2>2
      <3>6. PageRead(snapshot, progress, first, subs[j], view[j], progress', subs'[j], view'[j])
        BY <1>3, <3>4, <3>5 DEF PageRead
      <3>7. /\ ReaderAt(snapshot, progress', subs'[j], view'[j]) /\ SamePlace(subs[j], subs'[j])
            /\ subs'[j].id = subs[j].id /\ subs'[j].paused = subs[j].paused
        BY <1>1, <2>2, <3>3, <3>6, ReaderFits
      <3>8. /\ snapshotSub = subs[j].id
            /\ snapshot.generation = subs[j].generation /\ snapshot.revision = subs[j].revision
            /\ subs[j].id <= nextSub /\ subs[j].cursor <= head
            /\ subs[j].generation \in 1 .. generation
        BY <2>1, <2>2, <3>1, <3>2 DEF ReadingFits, SubFits, Live
      <3>9. SubFits(j)' /\ ReadingFits(j)'
        <4>1. /\ subs'[j].id # 0 /\ subs'[j].id <= nextSub' /\ subs'[j].paused = "no"
              /\ subs'[j].cursor <= head /\ subs'[j].generation \in 1 .. generation
              /\ snapshotSub' = subs'[j].id /\ snapshotId' # 0
              /\ snapshot'.generation = subs'[j].generation
              /\ snapshot'.revision = subs'[j].revision
          BY <1>1, <1>2, <3>1, <3>2, <3>7, <3>8 DEF SamePlace
        <4> QED BY <1>1, <3>7, <4>1, SlotOfReader
      <3> QED BY <3>7, <3>9 DEF ReaderAt
    <2>3. CASE ~(reads(j) /\ subs[j].pending)
      <3>1. view'[j] = view[j]
        BY <1>4, <2>3
      <3>2. ~(subs[j].id # 0 /\ subs[j].paused = "no" /\ subs[j].pending)
        BY <2>1, <2>3 DEF ReadingFits, Live
      <3>3. /\ subs'[j] \in Subs /\ subs'[j].id = subs[j].id /\ subs'[j].handle = subs[j].handle
            /\ subs'[j].generation = subs[j].generation /\ subs'[j].revision = subs[j].revision
            /\ subs'[j].cursor = subs[j].cursor
            /\ subs'[j].pending = subs[j].pending /\ subs'[j].paused = subs[j].paused
        <4>1. CASE subs'[j] = subs[j]
          BY <2>1, <4>1
        <4>2. CASE subs'[j] # subs[j]
          <5>1. reads(j) /\ subs'[j] = [subs[j] EXCEPT !.pending = FALSE]
            BY <1>4, <4>2
          <5>2. ~subs[j].pending
            BY <2>3, <5>1
          <5> QED BY <2>1, <5>1, <5>2 DEF Subs
        <4> QED BY <4>1, <4>2
      <3>4. Moved(ExpiredSubs[j], subs'[j])
        <4>1. SamePlace(subs[j], subs'[j])
          BY <3>3 DEF SamePlace
        <4>2. \A p, e : Follows(devices, journal, head, subs[j], p, e)
                          => Follows(devices, journal, head, subs'[j], p, e)
          BY <4>1, FollowsSame
        <4>3. InJournal(devices, head, subs'[j]) => InJournal(devices, head, subs[j])
          BY <4>1 DEF InJournal, SamePlace
        <4>4. subs[j].id # 0 => subs[j].cursor <= head
          BY <2>1 DEF SubFits
        <4> QED BY <1>5, <3>3, <4>2, <4>3, <4>4 DEF Moved
      <3> QED BY <1>1, <1>5, <3>1, <3>2, <3>3, <3>4, KeptSub, SessionTypes
    <2> QED BY <2>2, <2>3
  <1>8. subs' \in [Slots -> Subs] /\ view' \in [Slots -> Views]
    <2>1. subs' = [j \in Slots |-> subs'[j]] /\ view' = [j \in Slots |-> view'[j]]
      BY <1>4
    <2> QED BY <1>7, <2>1
  <1>9. UniqueIds'
    BY <1>7, KeptIds
  <1>10. NoneExpired'
    BY <1>1, <1>7, InvParts DEF NoneExpired, SlotsOf
  <1>11. idle' \in 0 .. SnapshotMs
    BY <1>1, SessionAssumption
  <1> QED BY <1>1, <1>6, <1>7, <1>8, <1>9, <1>10, <1>11, SessionStep, SessionTypes

\* The first page of a snapshot is read.
LEMMA GetFirstStep ==
    ASSUME Inv, NEW name, GetFirst(name)
    PROVE  Inv'
  <1> DEFINE h == Lookup(name)
  <1>1. /\ ~CaptureBlocked /\ h # 0 /\ snapshot' = devices[h] /\ snapshotSub' = 0
        /\ nextSnapshot' = nextSnapshot + 1 /\ snapshotId' = nextSnapshot + 1 /\ idle' = 0
        /\ Page(ExpiredSubs, 0, devices[h], 0, 0, view)
        /\ UNCHANGED registryVars /\ nextSub' = nextSub /\ roundRobin' = roundRobin
        /\ passedOver' = passedOver
    BY DEF GetFirst
  <1>2. h \in Handles /\ devices[h] \in Devices
    BY <1>1, LookupIsHandle, SessionTypes
  <1>3. /\ \A j \in Slots : subs'[j] = ExpiredSubs[j] /\ view'[j] = view[j]
        /\ subs' = [j \in Slots |-> subs'[j]] /\ view' = [j \in Slots |-> view'[j]]
    <2> HIDE DEF ExpiredSubs
    <2> QED BY <1>1 DEF Page
  <1>4. progress' \in 0 .. snapshot'.count
    <2>1. /\ devices[h].count \in Nat /\ PageSize \in Nat \ {0}
          /\ progress' = NewProgress(0, 0, PageCount(devices[h], 0))
      BY <1>1, <1>2, RegistryAssumption, SessionAssumption DEF Page, Devices
    <2> QED BY <1>1, <2>1 DEF NewProgress, PageCount
  <1>5. ASSUME NEW j \in Slots PROVE SubFits(j)' /\ ReadingFits(j)'
    <2>1. ExpiryOf(j) /\ Moved(ExpiredSubs[j], subs'[j])
      BY <1>3, ExpiryFits, SameMoved
    <2>2. ~(ExpiredSubs[j].id # 0 /\ ExpiredSubs[j].paused = "no" /\ ExpiredSubs[j].pending)
      BY <1>1, <2>1 DEF ExpiryOf
    <2> QED BY <1>1, <1>3, <2>1, <2>2, KeptSub, SessionTypes
  <1>6. subs' \in [Slots -> Subs] /\ view' \in [Slots -> Views]
    BY <1>3, SessionTypes
  <1>7. UniqueIds'
    <2>1. \A j \in Slots : subs'[j].id = subs[j].id
      BY <1>3, ExpiryFits DEF ExpiryOf
    <2> QED BY <2>1, KeptIds
  <1>8. NoneExpired'
    BY <1>1 DEF NoneExpired, SlotsOf
  <1>9. idle' \in 0 .. SnapshotMs /\ snapshotSub' \in 0 .. nextSub'
    BY <1>1, SessionAssumption, SessionTypes
  <1>10. nextSnapshot' \in Nat /\ snapshotId' \in Nat /\ snapshotId' <= nextSnapshot'
    BY <1>1, SessionTypes
  <1> QED BY <1>1, <1>2, <1>4, <1>5, <1>6, <1>7, <1>8, <1>9, <1>10, SessionStep, SessionTypes

\* A client subscribes at the position its snapshot fixed.
LEMMA SubscribeStep ==
    ASSUME Inv, NEW name, Subscribe(name)
    PROVE  Inv'
  <1> DEFINE h == Lookup(name)
             d == devices[h]
             k == SlotForSub(h)
             id == IF subs[k].id # 0 THEN subs[k].id ELSE nextSub + 1
             sub == [id |-> id, handle |-> h, generation |-> d.generation,
                     revision |-> d.revision, cursor |-> head,
                     pending |-> TRUE, paused |-> "no"]
             v == [NoView EXCEPT !.generation = d.generation, !.revision = d.revision,
                                 !.presence = d.presence]
             subs0 == [ExpiredSubs EXCEPT ![k] = sub]
             view0 == [view EXCEPT ![k] = v]
             n == PageCount(d, 0)
  <1>1. /\ ~CaptureBlocked /\ h # 0 /\ k # -1 /\ (subs[k].id # 0 \/ nextSub < SubIdMax)
        /\ snapshot' = d /\ snapshotSub' = id
        /\ nextSub' = (IF subs[k].id # 0 THEN nextSub ELSE id)
        /\ nextSnapshot' = nextSnapshot + 1 /\ snapshotId' = nextSnapshot + 1 /\ idle' = 0
        /\ Page(subs0, id, d, 0, 0, view0)
        /\ UNCHANGED registryVars /\ roundRobin' = roundRobin /\ passedOver' = passedOver
    BY DEF Subscribe, StartCursor
  <1>2. h \in Handles /\ d \in Devices /\ d.generation # 0 /\ h \in 0 .. DevicesMax
    BY <1>1, LookupIsHandle, SessionTypes, RegistryAssumption DEF Defined, Handles
  <1>3. k \in Slots
    BY <1>1, SlotForSubIsSlot, SessionAssumption
  <1>4. /\ Registered(devices, generation, journal, head) /\ head \in Nat /\ generation \in Nat
        /\ d.generation <= generation /\ d.generation \in Nat /\ d.revision \in Nat
        /\ d.count \in 0 .. ResourcesMax /\ d.presence \in Presences
        /\ d.generation \in 1 .. generation
    BY <1>2, InvParts DEF Registered, Devices
  <1>5. SubIdMax \in Nat /\ nextSub \in 0 .. SubIdMax /\ subs[k] \in Subs /\ SubFits(k)
        /\ subs[k].id \in 0 .. SubIdMax
    BY <1>3, SessionAssumption, SessionTypes, InvParts DEF Subs
  <1> HIDE DEF d, h, k
  <1>6. /\ id \in 1 .. SubIdMax /\ nextSub' \in 0 .. SubIdMax /\ id <= nextSub'
        /\ nextSub' >= nextSub /\ nextSub' \in Nat
    BY <1>1, <1>3, <1>5 DEF SubFits
  <1>7. \A j \in Slots \ {k} : subs[j].id # id
    <2> SUFFICES ASSUME NEW j \in Slots, j # k, subs[j].id = id PROVE FALSE
      OBVIOUS
    <2>1. SubFits(j) /\ subs[j] \in Subs
      BY InvParts, SessionTypes
    <2>2. CASE subs[k].id # 0
      BY <1>3, <2>2, InvParts DEF UniqueIds
    <2>3. CASE subs[k].id = 0
      BY <1>5, <2>1, <2>3 DEF SubFits
    <2> QED BY <2>2, <2>3
  <1> HIDE DEF id
  <1>8. /\ sub \in Subs /\ sub.id = id /\ sub.handle = h /\ sub.generation = d.generation
        /\ sub.revision = d.revision /\ sub.cursor = head /\ sub.pending /\ sub.paused = "no"
    BY <1>2, <1>4, <1>5, <1>6 DEF Subs
  <1>9. /\ v \in Views /\ v.generation = d.generation /\ v.revision = d.revision
        /\ v.presence = d.presence
    <2>1. NoView \in Views
      BY DEF NoView, Views, Presences, Unread
    <2> QED BY <1>4, <2>1 DEF Views
  <1>10. ReaderAt(d, 0, sub, v)
    <2> HIDE DEF sub, v
    <2>1. Follows(devices, journal, head, sub, devices[h].presence, devices[h].entries)
      BY <1>2, <1>4, <1>8, StartFollows DEF d
    <2>2. Follows(devices, journal, head, sub, v.presence, d.entries)
      BY <1>9, <2>1 DEF d
    <2>3. 0 \in 0 .. d.count /\ 0 .. 0 - 1 = {} /\ d.count = devices[sub.handle].count
      BY <1>4, <1>8, RegistryAssumption DEF d
    <2> QED BY <1>2, <1>8, <1>9, <2>2, <2>3 DEF ReaderAt
  <1> HIDE DEF sub, v
  <1>11. /\ subs0[k] = sub /\ view0[k] = v
         /\ \A j \in Slots \ {k} : subs0[j] = ExpiredSubs[j] /\ view0[j] = view[j]
    <2> HIDE DEF ExpiredSubs
    <2> QED BY <1>3, SessionTypes
  <1> HIDE DEF subs0, view0
  <1>12. \A j \in Slots : (id # 0 /\ subs0[j].id = id) <=> j = k
    <2>1. \A j \in Slots \ {k} : subs0[j].id = subs[j].id
      BY <1>11, ExpiryFits DEF ExpiryOf
    <2> QED BY <1>3, <1>6, <1>7, <1>8, <1>11, <2>1
  <1>13. /\ progress' = NewProgress(0, 0, n)
         /\ subs' = [j \in Slots |->
              IF j \in {i \in Slots : id # 0 /\ subs0[i].id = id} /\ progress' = d.count
              THEN [subs0[j] EXCEPT !.pending = FALSE] ELSE subs0[j]]
         /\ view' = [j \in Slots |->
              IF j \in {i \in Slots : id # 0 /\ subs0[i].id = id} /\ subs0[j].pending
              THEN [view0[j] EXCEPT !.entries =
                      [i \in Resources |-> IF i \in 0 .. 0 + n - 1
                                           THEN d.entries[i] ELSE @[i]]]
              ELSE view0[j]]
    BY <1>1 DEF Page
  <1>14. /\ \A j \in Slots \ {k} : subs'[j] = ExpiredSubs[j] /\ view'[j] = view[j]
         /\ subs'[k] = IF progress' = d.count THEN [sub EXCEPT !.pending = FALSE] ELSE sub
         /\ view'[k] = [v EXCEPT !.entries =
                      [i \in Resources |-> IF i \in 0 .. 0 + n - 1
                                           THEN d.entries[i] ELSE @[i]]]
    <2> HIDE DEF ExpiredSubs, n
    <2> QED BY <1>3, <1>8, <1>11, <1>12, <1>13
  <1>15. PageRead(d, 0, 0, sub, v, progress', subs'[k], view'[k])
    BY <1>13, <1>14 DEF PageRead
  <1>16. /\ ReaderAt(d, progress', subs'[k], view'[k]) /\ SamePlace(sub, subs'[k])
         /\ subs'[k].id = id /\ subs'[k].paused = "no"
    <2>1. 0 \in 0 .. d.count
      BY <1>4, RegistryAssumption
    <2> QED BY <1>8, <1>10, <1>15, <2>1, ReaderFits
  <1>17. ASSUME NEW j \in Slots
         PROVE  /\ SubFits(j)' /\ ReadingFits(j)' /\ subs'[j] \in Subs /\ view'[j] \in Views
                /\ j # k => subs'[j].id = subs[j].id
    <2>1. CASE j = k
      <3>1. ReaderAt(snapshot', progress', subs'[j], view'[j])
        BY <1>1, <1>16, <2>1
      <3>2. /\ subs'[j].id # 0 /\ subs'[j].id <= nextSub' /\ subs'[j].paused = "no"
            /\ subs'[j].cursor <= head /\ subs'[j].generation \in 1 .. generation
            /\ snapshotSub' = subs'[j].id /\ snapshotId' # 0
            /\ snapshot'.generation = subs'[j].generation
            /\ snapshot'.revision = subs'[j].revision
        BY <1>1, <1>4, <1>6, <1>8, <1>16, <2>1, SessionTypes DEF SamePlace
      <3> QED BY <1>1, <2>1, <3>1, <3>2, SlotOfReader DEF ReaderAt
    <2>2. CASE j # k
      <3>1. ExpiryOf(j) /\ Moved(ExpiredSubs[j], subs'[j]) /\ view'[j] = view[j]
        BY <1>14, <2>2, ExpiryFits, SameMoved
      <3>2. ~(ExpiredSubs[j].id # 0 /\ ExpiredSubs[j].paused = "no" /\ ExpiredSubs[j].pending)
        BY <1>1, <3>1 DEF ExpiryOf
      <3>3. SubFits(j)' /\ ReadingFits(j)'
        BY <1>1, <1>6, <3>1, <3>2, KeptSub
      <3> QED BY <1>14, <2>2, <3>1, <3>3, SessionTypes DEF ExpiryOf
    <2> QED BY <2>1, <2>2
  <1>18. subs' \in [Slots -> Subs] /\ view' \in [Slots -> Views]
    <2>1. subs' = [j \in Slots |-> subs'[j]] /\ view' = [j \in Slots |-> view'[j]]
      BY <1>13
    <2> QED BY <1>17, <2>1
  <1>19. UniqueIds'
    <2>1. \A j \in Slots : j # k => subs'[j].id # id
      BY <1>7, <1>17
    <2> QED BY <1>16, <1>17, <2>1, InvParts DEF UniqueIds
  <1>20. NoneExpired'
    <2>1. \A j \in SlotsOf(snapshotSub)' : j = k
      BY <1>1, <1>7, <1>17 DEF SlotsOf
    <2> QED BY <1>16, <2>1 DEF NoneExpired
  <1>21. idle' \in 0 .. SnapshotMs /\ snapshotSub' \in 0 .. nextSub'
    BY <1>1, <1>6, SessionAssumption
  <1>22. nextSnapshot' \in Nat /\ snapshotId' \in Nat /\ snapshotId' <= nextSnapshot'
    BY <1>1, SessionTypes
  <1>23. snapshot' \in Devices /\ progress' \in 0 .. snapshot'.count
    BY <1>1, <1>2, <1>16 DEF ReaderAt
  <1> QED BY <1>1, <1>6, <1>17, <1>18, <1>19, <1>20, <1>21, <1>22, <1>23, SessionStep

-----------------------------------------------------------------------------
(* Events.                                                                 *)

\* A subscription that follows, as the registry sees it.
Follower(j) ==
    /\ ExpiredSubs[j] = subs[j] /\ Live(j) /\ ~subs[j].pending
    /\ Placed(subs[j], generation, head) /\ InJournal(devices, head, subs[j])
    /\ Follows(devices, journal, head, subs[j], view[j].presence, view[j].entries)

\* A record is offered only to a follower, and it is the next revision; a
\* RESYNC has one of its causes; nothing else moves but a cursor.
LEMMA NewsOfSlot ==
    ASSUME Inv, NEW j \in Slots
    PROVE  /\ ~Waiting(j) => Moved(ExpiredSubs[j], [ExpiredSubs[j] EXCEPT !.cursor = News(j).cursor])
           /\ News(j).status = "change" =>
                 LET s == News(j).cursor
                     A == Beyond(journal, head, subs[j].handle, subs[j].cursor)
                 IN  /\ Follower(j) /\ s \in A /\ \A t \in A : s <= t
                     /\ RecAt(journal, s).revision = subs[j].revision + 1
                     /\ RecAt(journal, s).generation = subs[j].generation
           /\ Waiting(j) /\ News(j).status # "change" =>
                 /\ ExpiredSubs[j].id # 0 /\ News(j).cursor = subs[j].cursor
                 /\ \/ ExpiredSubs[j].paused = "expired"
                    \/ ~Defined(subs[j].handle)
                    \/ devices[subs[j].handle].generation # subs[j].generation
                    \/ Lost(subs[j].cursor)
  <1> DEFINE s == ExpiredSubs[j]
             next == bvstk_cache_next(s.handle, s.generation, s.cursor)
             h == s.handle
             c == s.cursor
  <1>1. ExpiryOf(j) /\ Moved(s, s) /\ SubFits(j) /\ head \in Nat
    BY ExpiryFits, SameMoved, InvParts DEF Registered
  <1>2. /\ s \in Subs /\ s.id = subs[j].id /\ h = subs[j].handle
        /\ s.generation = subs[j].generation /\ s.revision = subs[j].revision
        /\ c = subs[j].cursor /\ s.pending = subs[j].pending
        /\ (s.paused # "expired" => s = subs[j])
        /\ c \in Nat /\ s.paused \in {"no", "expired", "told"}
    BY <1>1 DEF ExpiryOf, Subs
  <1>3. News(j) = IF s.id = 0 \/ s.paused = "told"
            THEN [status |-> "skip", cursor |-> c]
        ELSE IF s.paused = "expired"
            THEN [status |-> "expired", cursor |-> c]
        ELSE IF s.pending
            THEN [status |-> "skip", cursor |-> c]
        ELSE IF next.status = "change" /\ Rec(next.cursor).revision # s.revision + 1
            THEN [status |-> "lost", cursor |-> next.cursor]
        ELSE next
    BY DEF News
  <1> HIDE DEF s
  <1>4. ASSUME NEW x, x = c PROVE Moved(s, [s EXCEPT !.cursor = x])
    <2>1. [s EXCEPT !.cursor = x] = s
      BY <1>2, <1>4 DEF Subs
    <2> QED BY <1>1, <2>1
  <1>5. CASE s.id = 0 \/ s.paused = "told" \/ (s.paused # "expired" /\ s.pending)
    <2>1. News(j).status = "skip" /\ News(j).cursor = c
      BY <1>3, <1>5
    <2> QED BY <1>4, <2>1 DEF Waiting, s
  <1>6. CASE s.id # 0 /\ s.paused = "expired"
    <2>1. News(j).status = "expired" /\ News(j).cursor = c
      BY <1>3, <1>6
    <2> QED BY <1>2, <1>6, <2>1 DEF Waiting, s
  <1>7. CASE s.id # 0 /\ s.paused = "no" /\ ~s.pending
    <2>1. s = subs[j] /\ Live(j) /\ ~subs[j].pending
      BY <1>2, <1>7 DEF Live
    <2>2. Placed(subs[j], generation, head) /\ c <= head
      BY <1>2, <2>1, SubPlaced DEF Live, Placed
    <2>3. Follows(devices, journal, head, subs[j], view[j].presence, view[j].entries)
      BY <1>1, <2>1 DEF SubFits, Target
    <2>4. next = IF ~Defined(h) \/ devices[h].generation # s.generation
                    THEN [status |-> "reconfigured", cursor |-> c]
                 ELSE IF Lost(c) THEN [status |-> "lost", cursor |-> c]
                 ELSE IF Ahead(h, c) = {} THEN [status |-> "none", cursor |-> head]
                 ELSE [status |-> "change", cursor |-> FirstAhead(h, c)]
      BY DEF bvstk_cache_next
    <2> HIDE DEF next
    <2>5. CASE ~Defined(h) \/ devices[h].generation # s.generation
      <3>1. News(j).status = "reconfigured" /\ News(j).cursor = c
        BY <1>3, <1>7, <2>4, <2>5
      <3> QED BY <1>2, <1>7, <2>5, <3>1 DEF Waiting, s
    <2>6. CASE ~(~Defined(h) \/ devices[h].generation # s.generation) /\ Lost(c)
      <3>1. News(j).status = "lost" /\ News(j).cursor = c
        BY <1>3, <1>7, <2>4, <2>6
      <3> QED BY <1>2, <1>7, <2>6, <3>1 DEF Waiting, s
    <2>7. CASE Defined(h) /\ devices[h].generation = s.generation /\ ~Lost(c)
      <3>1. InJournal(devices, head, subs[j])
        BY <1>1, <1>2, <2>1, <2>2, <2>7, RegistryAssumption DEF InJournal, Defined, Lost
      <3>2. Ahead(h, c) = Beyond(journal, head, subs[j].handle, subs[j].cursor)
        BY <1>2 DEF Ahead, Beyond, Rec, RecAt
      <3>3. Registered(devices, generation, journal, head)
        BY InvParts
      <3>4. CASE Ahead(h, c) = {}
        <4>1. News(j) = next /\ next = [status |-> "none", cursor |-> head]
          BY <1>3, <1>7, <2>4, <2>7, <3>4
        <4>2. ~Waiting(j) /\ News(j).status = "none" /\ News(j).cursor = head
          BY <4>1 DEF Waiting
        <4> DEFINE t == [s EXCEPT !.cursor = head]
        <4>3. /\ t \in Subs /\ t.id = s.id /\ t.handle = s.handle /\ t.generation = s.generation
              /\ t.revision = s.revision /\ t.pending = s.pending /\ t.paused = s.paused
              /\ t.cursor = head
          BY <1>1, <1>2 DEF Subs
        <4> HIDE DEF t
        <4>4. \A p, e : Follows(devices, journal, head, subs[j], p, e)
                          => Follows(devices, journal, head, t, p, e)
          BY <1>2, <2>2, <3>1, <3>2, <3>3, <3>4, <4>3, ScanFollows
        <4>5. Moved(s, t)
          BY <1>1, <2>1, <3>1, <4>3, <4>4 DEF Moved
        <4> QED BY <4>2, <4>5 DEF s, t
      <3>5. CASE Ahead(h, c) # {}
        <4> DEFINE f == FirstAhead(h, c)
                   A == Beyond(journal, head, subs[j].handle, subs[j].cursor)
                   rec == RecAt(journal, f)
                   sub2 == [subs[j] EXCEPT !.cursor = f, !.revision = rec.revision]
                   e2 == [i \in 0 .. devices[subs[j].handle].count - 1 |->
                            IF Changes(rec, i) THEN rec.entry ELSE view[j].entries[i]]
        <4>1. f \in A /\ \A t \in A : f <= t
          BY <1>1, <1>2, <3>5, FirstAheadIsFirst
        <4>2. rec.revision = subs[j].revision + 1 /\ rec.generation = subs[j].generation
          <5>1. /\ sub2.handle = subs[j].handle /\ sub2.cursor = f
                /\ sub2.generation = subs[j].generation /\ sub2.revision = rec.revision
            BY <1>2, <2>1 DEF Subs
          <5>2. \A i \in 0 .. devices[subs[j].handle].count - 1 :
                  e2[i] = IF Changes(rec, i) THEN rec.entry ELSE view[j].entries[i]
            OBVIOUS
          <5> HIDE DEF f, sub2, e2
          <5> QED BY <2>2, <2>3, <3>1, <3>3, <4>1, <5>1, <5>2, NextFollows
        <4> HIDE DEF f
        <4>3. next = [status |-> "change", cursor |-> f] /\ Rec(f) = rec
          BY <2>4, <2>7, <3>5 DEF f, Rec, RecAt
        <4>4. News(j) = next
          BY <1>2, <1>3, <1>7, <4>2, <4>3
        <4>5. News(j).status = "change" /\ News(j).cursor = f /\ Waiting(j)
          BY <4>3, <4>4 DEF Waiting
        <4>6. Follower(j)
          BY <2>1, <2>2, <2>3, <3>1 DEF Follower, s
        <4> QED BY <4>1, <4>2, <4>5, <4>6
      <3> QED BY <3>4, <3>5
    <2> QED BY <1>2, <2>5, <2>6, <2>7
  <1> QED BY <1>2, <1>5, <1>6, <1>7

\* What an event call does to the part of the session outside the slots.
EventFrame ==
    /\ UNCHANGED registryVars /\ snapshot' = snapshot /\ snapshotSub' = snapshotSub
    /\ progress' = progress /\ idle' = idle /\ nextSub' = nextSub
    /\ nextSnapshot' = nextSnapshot /\ snapshotId' = LiveId

\* An event is sent: the follower moves to its record.
LEMMA EventStep ==
    ASSUME Inv, EventFrame, subs' \in [Slots -> Subs], view' \in [Slots -> Views],
           roundRobin' \in Slots, passedOver' \in [Slots -> Nat], RoundFits',
           \A j \in Slots : /\ SubFits(j)' /\ ReadingFits(j)' /\ subs'[j].id = ExpiredSubs[j].id
                            /\ subs'[j].paused \in {ExpiredSubs[j].paused, "told"}
    PROVE  Inv'
  <1>1. /\ devices' = devices /\ generation' = generation /\ journal' = journal /\ head' = head
    BY DEF EventFrame, registryVars
  <1>2. NoneExpired'
    BY KeptUnexpired DEF EventFrame
  <1>3. UniqueIds'
    <2>1. \A j \in Slots : subs'[j].id = subs[j].id
      BY ExpiryFits DEF ExpiryOf
    <2> QED BY <2>1, KeptIds
  <1>4. TypeOK'
    BY <1>1, SessionTypes DEF Inv, TypeOK, RegistryTypeOK, EventFrame
  <1>5. Registered(devices, generation, journal, head)'
    BY <1>1, InvParts
  <1> QED BY <1>2, <1>3, <1>4, <1>5 DEF Inv, UniqueIds, NoneExpired, RoundFits

\* No event is due for this subscription.
LEMMA NoEventStep ==
    ASSUME Inv, NoEvent
    PROVE  Inv'
  <1>1. EventFrame /\ roundRobin' = roundRobin /\ view' = view
    BY DEF NoEvent, EventFrame
  <1>2. /\ \A j \in Slots : ~Waiting(j)
        /\ subs' = [j \in Slots |-> [ExpiredSubs[j] EXCEPT !.cursor = News(j).cursor]]
        /\ passedOver' = [j \in Slots |-> 0]
    BY DEF NoEvent, Silent
  <1>3. ASSUME NEW j \in Slots
        PROVE  /\ Moved(ExpiredSubs[j], subs'[j]) /\ ExpiryOf(j)
    <2>1. subs'[j] = [ExpiredSubs[j] EXCEPT !.cursor = News(j).cursor]
      BY <1>2
    <2> QED BY <1>2, <2>1, NewsOfSlot, ExpiryFits
  <1>4. ASSUME NEW j \in Slots
        PROVE  /\ SubFits(j)' /\ ReadingFits(j)' /\ subs'[j].id = ExpiredSubs[j].id
               /\ subs'[j].paused \in {ExpiredSubs[j].paused, "told"} /\ subs'[j] \in Subs
    <2>1. SubFits(j)' /\ ReadingFits(j)'
      BY <1>1, <1>3, KeptSub, SessionTypes DEF EventFrame, ExpiryOf
    <2> QED BY <1>3, <2>1 DEF Moved
  <1>5. subs' \in [Slots -> Subs]
    <2>1. subs' = [j \in Slots |-> subs'[j]]
      BY <1>2
    <2> QED BY <1>4, <2>1
  <1>6. roundRobin' \in Slots /\ passedOver' \in [Slots -> Nat]
    BY <1>1, <1>2 DEF Inv, TypeOK
  <1>7. RoundFits'
    <2>1. roundRobin' \in Slots /\ Subscriptions \in Nat
      BY <1>6, SessionAssumption
    <2>2. \A j \in Slots : passedOver'[j] = 0
      BY <1>2
    <2> QED BY <2>1, <2>2 DEF RoundFits, Distance, Slots
  <1> QED BY <1>1, <1>4, <1>5, <1>6, <1>7, EventStep, SessionTypes

\* The round robin: a slot that waits and is passed over comes as many turns
\* nearer as slots were asked.
LEMMA TurnFits ==
    ASSUME Inv, NEW k \in Slots, Scanned(k) \subseteq Silent,
           roundRobin' = NextTurn(k),
           passedOver' = [i \in Slots |-> IF i # Turn(k) /\ Waiting(i) THEN passedOver[i] + 1 ELSE 0]
    PROVE  roundRobin' \in Slots /\ passedOver' \in [Slots -> Nat] /\ RoundFits'
  <1>1. /\ Subscriptions \in Nat \ {0} /\ roundRobin \in Slots /\ passedOver \in [Slots -> Nat]
        /\ RoundFits
    BY SessionAssumption, InvParts DEF TypeOK
  <1>2. k + 1 \in 0 .. Subscriptions /\ k \in 0 .. Subscriptions
    BY <1>1 DEF Slots
  <1>3. /\ roundRobin' \in Slots
        /\ roundRobin' = IF roundRobin + (k + 1) < Subscriptions THEN roundRobin + (k + 1)
                         ELSE roundRobin + (k + 1) - Subscriptions
    BY <1>1, <1>2, TurnIs DEF NextTurn
  <1>4. passedOver' \in [Slots -> Nat]
    BY <1>1
  <1>5. ASSUME NEW i \in Slots
        PROVE  passedOver'[i] + Distance(roundRobin', i) < Subscriptions
    <2>1. CASE i # Turn(k) /\ Waiting(i)
      <3>1. passedOver'[i] = passedOver[i] + 1 /\ passedOver[i] \in Nat
        BY <1>1, <2>1
      <3>2. passedOver[i] + Distance(roundRobin, i) < Subscriptions
        BY <1>1 DEF RoundFits
      <3>3. \A m \in 0 .. k : i # Turn(m)
        <4>1. \A m \in 0 .. k - 1 : Turn(m) \in Scanned(k)
          BY DEF Scanned
        <4>2. \A m \in 0 .. k : m = k \/ m \in 0 .. k - 1
          BY <1>2
        <4>3. i \notin Silent
          BY <2>1 DEF Silent
        <4> QED BY <2>1, <4>1, <4>2, <4>3
      <3>4. Distance(roundRobin, i) \in 0 .. Subscriptions - 1
        BY <1>1 DEF Distance, Slots
      <3>5. Distance(roundRobin, i) > k
        <4> SUFFICES ASSUME Distance(roundRobin, i) <= k PROVE FALSE
          BY <1>1, <1>2, <3>4
        <4> DEFINE m == Distance(roundRobin, i)
        <4>1. m \in 0 .. k /\ m \in 0 .. Subscriptions
          BY <1>1, <1>2, <3>4
        <4>2. Turn(m) = IF roundRobin + m < Subscriptions THEN roundRobin + m
                        ELSE roundRobin + m - Subscriptions
          BY <1>1, <4>1, TurnIs
        <4>3. Turn(m) = i
          BY <1>1, <4>2 DEF Distance, Slots
        <4> QED BY <3>3, <4>1, <4>3
      <3>6. Distance(roundRobin', i) = Distance(roundRobin, i) - (k + 1)
        BY <1>1, <1>2, <1>3, <3>5 DEF Distance, Slots
      <3> HIDE DEF Distance
      <3> QED BY <1>1, <1>2, <3>1, <3>2, <3>4, <3>6
    <2>2. CASE ~(i # Turn(k) /\ Waiting(i))
      <3>1. passedOver'[i] = 0
        BY <2>2
      <3>2. Distance(roundRobin', i) < Subscriptions /\ Distance(roundRobin', i) \in Nat
        BY <1>1, <1>3 DEF Distance, Slots
      <3> QED BY <3>1, <3>2
    <2> QED BY <2>1, <2>2
  <1>6. RoundFits'
    BY <1>5 DEF RoundFits
  <1> QED BY <1>3, <1>4, <1>6

\* The slot that gets a record.
LEMMA ChangeServed ==
    ASSUME Inv, EventFrame, NEW j \in Slots, News(j).status = "change",
           NEW rec, rec = Rec(News(j).cursor),
           subs'[j] = [ExpiredSubs[j] EXCEPT !.revision = rec.revision, !.cursor = News(j).cursor],
           view'[j] = Applied(view[j], rec)
    PROVE  /\ SubFits(j)' /\ ReadingFits(j)' /\ subs'[j] \in Subs /\ view'[j] \in Views
           /\ subs'[j].id = ExpiredSubs[j].id /\ subs'[j].paused = ExpiredSubs[j].paused
  <1> DEFINE s == News(j).cursor
             o == subs[j]
             v == view[j]
             A == Beyond(journal, head, o.handle, o.cursor)
             e2 == IF rec.kind = "change" THEN [v.entries EXCEPT ![rec.index] = rec.entry]
                   ELSE v.entries
  <1>1. /\ Follower(j) /\ s \in A /\ \A t \in A : s <= t
        /\ RecAt(journal, s).revision = o.revision + 1
    BY NewsOfSlot
  <1>2. /\ ExpiredSubs[j] = o /\ Live(j) /\ ~o.pending /\ Placed(o, generation, head)
        /\ InJournal(devices, head, o)
        /\ Follows(devices, journal, head, o, v.presence, v.entries)
    BY <1>1 DEF Follower
  <1>3. /\ Registered(devices, generation, journal, head) /\ o \in Subs /\ v \in Views
        /\ head \in Nat /\ generation \in Nat /\ SubFits(j)
    BY InvParts, SessionTypes DEF Registered
  <1>4. rec = RecAt(journal, s)
    BY DEF Rec, RecAt
  <1>5. s \in Nat \ {0} /\ s <= head
    BY <1>1, <1>2, <1>3 DEF Beyond, Placed
  <1>6. rec \in Records
    BY <1>3, <1>4, <1>5, RecType DEF Registered
  <1>7. rec.revision \in Nat /\ rec.presence \in Presences /\ rec.entry \in Entries
    BY <1>6 DEF Records
  <1>8. /\ subs'[j] \in Subs /\ subs'[j].id = o.id /\ subs'[j].handle = o.handle
        /\ subs'[j].generation = o.generation /\ subs'[j].revision = rec.revision
        /\ subs'[j].cursor = s /\ subs'[j].pending = o.pending /\ subs'[j].paused = o.paused
    <2> HIDE DEF o, s
    <2>1. subs'[j] = [o EXCEPT !.revision = rec.revision, !.cursor = s]
      BY <1>2 DEF s
    <2> QED BY <1>3, <1>5, <1>7, <2>1 DEF Subs
  <1>9. e2 \in [Resources -> Entries \cup {Unread}]
    BY <1>3, <1>7 DEF Views
  <1>10. /\ view'[j] \in Views /\ view'[j].generation = v.generation
         /\ view'[j].revision = rec.revision /\ view'[j].presence = rec.presence
         /\ view'[j].entries = e2
    <2>1. view'[j] = [v EXCEPT !.revision = rec.revision, !.presence = rec.presence, !.entries = e2]
      BY DEF Applied
    <2> HIDE DEF e2, v
    <2> QED BY <1>3, <1>7, <1>9, <2>1 DEF Views
  <1>11. \A i \in 0 .. devices[o.handle].count - 1 :
           e2[i] = IF Changes(rec, i) THEN rec.entry ELSE v.entries[i]
    <2>1. /\ v.entries \in [Resources -> Entries \cup {Unread}]
          /\ devices[o.handle].count \in 0 .. ResourcesMax /\ ResourcesMax \in Nat
      BY <1>2, <1>3, RegistryAssumption DEF Views, InJournal, Registered, Devices
    <2>2. \A i \in 0 .. devices[o.handle].count - 1 : i \in Resources
      BY <2>1 DEF Resources
    <2> QED BY <2>1, <2>2 DEF Changes
  <1>12. Follows(devices, journal, head, subs'[j], rec.presence, e2)
    <2> HIDE DEF s, o, e2, v, A
    <2>1. s \in Beyond(journal, head, o.handle, o.cursor)
          /\ \A t \in Beyond(journal, head, o.handle, o.cursor) : s <= t
      BY <1>1 DEF A
    <2>2. /\ subs'[j].handle = o.handle /\ subs'[j].cursor = s
          /\ subs'[j].generation = o.generation /\ subs'[j].revision = RecAt(journal, s).revision
      BY <1>4, <1>8
    <2>3. \A i \in 0 .. devices[o.handle].count - 1 :
             e2[i] = IF Changes(RecAt(journal, s), i) THEN RecAt(journal, s).entry ELSE v.entries[i]
      BY <1>4, <1>11
    <2>4. Follows(devices, journal, head, subs'[j], RecAt(journal, s).presence, e2)
      <3> DEFINE t == subs'[j]
                 p == v.presence
                 e == v.entries
                 D == devices
                 J == journal
      <3>1. /\ Registered(D, generation, J, head) /\ Placed(o, generation, head)
            /\ Follows(D, J, head, o, p, e) /\ InJournal(D, head, o)
        BY <1>2, <1>3 DEF v
      <3>2. /\ t.handle = o.handle /\ t.cursor = s
            /\ t.generation = o.generation /\ t.revision = RecAt(J, s).revision
        BY <2>2
      <3>3. \A i \in 0 .. D[o.handle].count - 1 :
               e2[i] = IF Changes(RecAt(J, s), i) THEN RecAt(J, s).entry ELSE e[i]
        BY <2>3
      <3>4. s \in Beyond(J, head, o.handle, o.cursor)
            /\ \A x \in Beyond(J, head, o.handle, o.cursor) : s <= x
        BY <2>1
      <3> HIDE DEF t, p, e, D, J
      <3>5. Follows(D, J, head, t, RecAt(J, s).presence, e2)
        BY <3>1, <3>2, <3>3, <3>4, NextFollows
      <3> QED BY <3>5 DEF t, D, J
    <2> QED BY <1>4, <2>4
  <1>13. /\ devices' = devices /\ generation' = generation /\ journal' = journal /\ head' = head
         /\ nextSub' = nextSub
    BY DEF EventFrame, registryVars
  <1>14. /\ o.id # 0 /\ o.id <= nextSub /\ o.generation \in 1 .. generation
         /\ o.paused = "no" /\ v.generation = o.generation
    BY <1>2, <1>3 DEF SubFits, Live
  <1>15. Target(j)' = e2
    BY <1>2, <1>8, <1>10 DEF Target
  <1> HIDE DEF e2, s, v
  <1>16. SubFits(j)'
    BY <1>5, <1>8, <1>10, <1>12, <1>13, <1>14, <1>15 DEF SubFits
  <1>17. ReadingFits(j)'
    BY <1>2, <1>8 DEF ReadingFits
  <1> QED BY <1>2, <1>8, <1>10, <1>16, <1>17

\* The slot that is told to resync.
LEMMA ResyncServed ==
    ASSUME Inv, EventFrame, NEW j \in Slots, Waiting(j), News(j).status # "change",
           subs'[j] = [ExpiredSubs[j] EXCEPT !.pending = FALSE, !.paused = "told",
                                             !.cursor = News(j).cursor]
    PROVE  /\ SubFits(j)' /\ ReadingFits(j)' /\ subs'[j] \in Subs
           /\ subs'[j].id = ExpiredSubs[j].id /\ subs'[j].paused = "told"
  <1>1. ExpiryOf(j) /\ SubFits(j) /\ News(j).cursor = subs[j].cursor /\ subs[j] \in Subs
    BY ExpiryFits, InvParts, NewsOfSlot, SessionTypes
  <1>2. /\ ExpiredSubs[j] \in Subs /\ ExpiredSubs[j].id = subs[j].id
        /\ ExpiredSubs[j].generation = subs[j].generation
    BY <1>1 DEF ExpiryOf
  <1>3. /\ subs'[j] \in Subs /\ subs'[j].id = subs[j].id /\ ~subs'[j].pending
        /\ subs'[j].paused = "told" /\ subs'[j].cursor = subs[j].cursor
        /\ subs'[j].generation = subs[j].generation
    <2> HIDE DEF ExpiredSubs
    <2> QED BY <1>1, <1>2 DEF Subs
  <1>4. generation' = generation /\ head' = head /\ nextSub' = nextSub
    BY DEF EventFrame, registryVars
  <1>5. SubFits(j)' /\ ReadingFits(j)'
    BY <1>1, <1>3, <1>4 DEF SubFits, ReadingFits, Live
  <1> QED BY <1>2, <1>3, <1>5

\* The round of the sender, with and without an event.
LEMMA SendEventStep ==
    ASSUME Inv, NEW k \in Slots, SendEvent(k)
    PROVE  Inv'
  <1> DEFINE j == Turn(k)
             news == News(j)
             rec == Rec(news.cursor)
             sub == ExpiredSubs[j]
             resync == news.status # "change"
             w == Applied(view[j], rec)
  <1>1. EventFrame /\ Scanned(k) \subseteq Silent /\ Waiting(j) /\ roundRobin' = NextTurn(k)
        /\ passedOver' = [i \in Slots |-> IF i # j /\ Waiting(i) THEN passedOver[i] + 1 ELSE 0]
    BY DEF SendEvent, EventFrame
  <1>2. /\ subs' = [i \in Slots |->
              IF i = j THEN
                  IF resync
                  THEN [sub EXCEPT !.pending = FALSE, !.paused = "told",
                                   !.cursor = news.cursor]
                  ELSE [sub EXCEPT !.revision = rec.revision, !.cursor = news.cursor]
              ELSE IF i \in Scanned(k)
                  THEN [ExpiredSubs[i] EXCEPT !.cursor = News(i).cursor]
              ELSE ExpiredSubs[i]]
        /\ view' = IF resync THEN view ELSE [view EXCEPT ![j] = w]
    BY DEF SendEvent
  <1>3. j \in Slots
    <2>1. k \in 0 .. Subscriptions /\ Subscriptions \in Nat \ {0} /\ roundRobin \in Slots
      BY SessionAssumption DEF Slots, Inv, TypeOK
    <2> QED BY <2>1, TurnIs
  <1>4. roundRobin' \in Slots /\ passedOver' \in [Slots -> Nat] /\ RoundFits'
    BY <1>1, TurnFits
  <1> HIDE DEF j
  <1>5. \A i \in Slots \ {j} : view'[i] = view[i]
    BY <1>2, SessionTypes
  <1>6. ASSUME NEW i \in Slots
        PROVE  /\ SubFits(i)' /\ ReadingFits(i)' /\ subs'[i].id = ExpiredSubs[i].id
               /\ subs'[i].paused \in {ExpiredSubs[i].paused, "told"}
               /\ subs'[i] \in Subs /\ view'[i] \in Views
    <2>1. CASE i = j /\ resync
      <3>1. subs'[i] = [ExpiredSubs[i] EXCEPT !.pending = FALSE, !.paused = "told",
                                              !.cursor = News(i).cursor]
        BY <1>2, <2>1
      <3>2. view'[i] = view[i]
        BY <1>2, <2>1, SessionTypes
      <3>3. /\ SubFits(i)' /\ ReadingFits(i)' /\ subs'[i] \in Subs
            /\ subs'[i].id = ExpiredSubs[i].id /\ subs'[i].paused = "told"
        BY <1>1, <2>1, <3>1, ResyncServed
      <3> QED BY <3>2, <3>3, SessionTypes
    <2>2. CASE i = j /\ ~resync
      <3>1. subs'[i] = [ExpiredSubs[i] EXCEPT !.revision = rec.revision, !.cursor = News(i).cursor]
        BY <1>2, <2>2
      <3>2. view'[i] = Applied(view[i], rec)
        <4> HIDE DEF w
        <4>1. view' = [view EXCEPT ![j] = w]
          BY <1>2, <2>2
        <4>2. view'[j] = w
          BY <1>3, <4>1, SessionTypes
        <4> QED BY <2>2, <4>2 DEF w
      <3>3. News(i).status = "change" /\ rec = Rec(News(i).cursor)
        BY <2>2
      <3> HIDE DEF rec
      <3>4. /\ SubFits(i)' /\ ReadingFits(i)' /\ subs'[i] \in Subs /\ view'[i] \in Views
            /\ subs'[i].id = ExpiredSubs[i].id /\ subs'[i].paused = ExpiredSubs[i].paused
        BY <1>1, <3>1, <3>2, <3>3, ChangeServed
      <3> QED BY <3>4
    <2>3. CASE i # j
      <3>1. Moved(ExpiredSubs[i], subs'[i]) /\ ExpiryOf(i)
        <4>1. CASE i \in Scanned(k)
          <5>1. ~Waiting(i)
            BY <1>1, <4>1 DEF Silent
          <5>2. subs'[i] = [ExpiredSubs[i] EXCEPT !.cursor = News(i).cursor]
            BY <1>2, <2>3, <4>1
          <5> QED BY <5>1, <5>2, NewsOfSlot, ExpiryFits
        <4>2. CASE i \notin Scanned(k)
          BY <1>2, <2>3, <4>2, SameMoved, ExpiryFits
        <4> QED BY <4>1, <4>2
      <3>2. SubFits(i)' /\ ReadingFits(i)'
        BY <1>1, <1>5, <2>3, <3>1, KeptSub, SessionTypes DEF EventFrame, ExpiryOf
      <3> QED BY <1>5, <2>3, <3>1, <3>2, SessionTypes DEF Moved
    <2> QED BY <2>1, <2>2, <2>3
  <1>7. subs' \in [Slots -> Subs] /\ view' \in [Slots -> Views]
    <2>1. subs' = [i \in Slots |-> subs'[i]] /\ view' = [i \in Slots |-> view'[i]]
      BY <1>2, SessionTypes
    <2> QED BY <1>6, <2>1
  <1> QED BY <1>1, <1>4, <1>6, <1>7, EventStep

-----------------------------------------------------------------------------
(* The theorems.                                                           *)

\* Stuttering keeps the invariant.
LEMMA SameVars ==
    ASSUME Inv, UNCHANGED vars
    PROVE  Inv'
  <1>1. UNCHANGED registryVars /\ UNCHANGED <<sessionVars, view, passedOver>>
    BY DEF vars
  <1> QED BY <1>1, SameRegistryContinues, RegistryStep

\* Every step of the services, the session and the clock keeps the invariant.
LEMMA NextFits == Inv /\ [Next]_vars => Inv'
  <1> SUFFICES ASSUME Inv, [Next]_vars PROVE Inv'
    OBVIOUS
  <1>1. ASSUME NEW h \in 0 .. DevicesMax, NEW c \in Catalogs, Configure(h, c) PROVE Inv'
    BY <1>1, ConfigureStep
  <1>2. ASSUME NEW h \in Handles, NEW index \in Resources, NEW value \in Values,
               NEW valid \in BOOLEAN, PutEntry(h, index, value, valid)
        PROVE  Inv'
    BY <1>2, PutEntryStep
  <1>3. ASSUME NEW h \in Handles, NEW presence \in Reports, SetPresence(h, presence) PROVE Inv'
    BY <1>3, SetPresenceStep
  <1>4. CASE RejectedRequest
    BY <1>4, RejectedRequestStep
  <1>5. ASSUME NEW j \in Slots, Unsubscribe(j) PROVE Inv'
    BY <1>5, UnsubscribeStep
  <1>6. ASSUME NEW token \in 1 .. MaxSnapshot, NEW first \in 0 .. ResourcesMax,
               GetPage(token, first)
        PROVE  Inv'
    BY <1>6, GetPageStep
  <1>7. ASSUME NEW name \in Names, GetFirst(name) \/ Subscribe(name) \/ SubscribeRefused(name)
        PROVE  Inv'
    BY <1>7, GetFirstStep, SubscribeStep, SubscribeRefusedStep
  <1>8. CASE EventCall
    BY <1>8, NoEventStep, SendEventStep DEF EventCall
  <1>9. CASE Tick \/ Reconnect
    BY <1>9, TickStep, ReconnectStep
  <1>10. CASE UNCHANGED vars
    BY <1>10, SameVars
  <1> QED BY <1>1, <1>2, <1>3, <1>4, <1>5, <1>6, <1>7, <1>8, <1>9, <1>10 DEF Next

\* The invariant holds in every reachable state.
LEMMA AlwaysInv == Spec => []Inv
  BY InitFits, NextFits, PTL DEF Spec

\* A current follower is one in the journal, with what it follows.
LEMMA CurrentFollows ==
    ASSUME Inv, NEW j \in Slots, Current(j)
    PROVE  /\ Placed(subs[j], generation, head) /\ InJournal(devices, head, subs[j])
           /\ Follows(devices, journal, head, subs[j], view[j].presence, view[j].entries)
           /\ view[j].generation = subs[j].generation /\ view[j].revision = subs[j].revision
           /\ Registered(devices, generation, journal, head)
           /\ Ahead(subs[j].handle, subs[j].cursor)
                = Beyond(journal, head, subs[j].handle, subs[j].cursor)
  <1>1. SubFits(j) /\ Live(j) /\ ~subs[j].pending /\ subs[j].id # 0
    BY InvParts DEF Current, Following, Live
  <1>2. Placed(subs[j], generation, head) /\ Registered(devices, generation, journal, head)
    BY <1>1, SubPlaced, InvParts
  <1>3. InJournal(devices, head, subs[j])
    <2>1. head \in Nat /\ subs[j].cursor \in Nat /\ JournalSize \in Nat
      BY <1>2, RegistryAssumption DEF Registered, Placed
    <2> QED BY <2>1 DEF Current, Defined, Lost, InJournal
  <1>4. Follows(devices, journal, head, subs[j], view[j].presence, view[j].entries)
    BY <1>1 DEF SubFits, Target
  <1>5. Ahead(subs[j].handle, subs[j].cursor)
          = Beyond(journal, head, subs[j].handle, subs[j].cursor)
    BY DEF Ahead, Beyond, Rec, RecAt
  <1> QED BY <1>1, <1>2, <1>3, <1>4, <1>5 DEF SubFits

\* The invariant implies the exactness of the follower.
LEMMA InvMirrors == Inv => MirrorExact
  <1> SUFFICES ASSUME Inv, NEW j \in Slots, Current(j),
                      Ahead(subs[j].handle, subs[j].cursor) = {}
               PROVE  SameAs(view[j], devices[subs[j].handle])
    BY DEF MirrorExact
  <1> DEFINE d == devices[subs[j].handle]
             A == Beyond(journal, head, subs[j].handle, subs[j].cursor)
  <1>1. /\ InJournal(devices, head, subs[j]) /\ A = {} /\ Placed(subs[j], generation, head)
        /\ Follows(devices, journal, head, subs[j], view[j].presence, view[j].entries)
        /\ view[j].generation = subs[j].generation /\ view[j].revision = subs[j].revision
        /\ Registered(devices, generation, journal, head)
    BY CurrentFollows
  <1>2. /\ subs[j].revision <= d.revision
        /\ \A m \in subs[j].revision + 1 .. d.revision : \E s \in A : RecAt(journal, s).revision = m
        /\ view[j].presence = d.presence
        /\ \A i \in 0 .. d.count - 1 : view[j].entries[i] = d.entries[i]
    BY <1>1 DEF Follows
  <1>3. d.revision \in Nat /\ subs[j].revision \in Nat /\ d.generation = subs[j].generation
    BY <1>1 DEF Registered, InJournal, Devices, Placed
  <1>4. subs[j].revision = d.revision
    <2> SUFFICES ASSUME subs[j].revision # d.revision PROVE FALSE
      OBVIOUS
    <2>1. d.revision \in subs[j].revision + 1 .. d.revision
      BY <1>2, <1>3
    <2> QED BY <1>1, <1>2, <2>1
  <1> QED BY <1>1, <1>2, <1>3, <1>4 DEF SameAs

\* The invariant implies that nothing is missed.
LEMMA InvNoGap == Inv => NoGap
  <1> SUFFICES ASSUME Inv, NEW j \in Slots, Current(j),
                      Ahead(subs[j].handle, subs[j].cursor) # {}
               PROVE  LET rec == Rec(FirstAhead(subs[j].handle, subs[j].cursor))
                      IN  /\ rec.revision = subs[j].revision + 1
                          /\ rec.generation = subs[j].generation
    BY DEF NoGap
  <1> DEFINE h == subs[j].handle
             f == FirstAhead(h, subs[j].cursor)
             rec == RecAt(journal, f)
             sub2 == [subs[j] EXCEPT !.cursor = f, !.revision = rec.revision]
             e2 == [i \in 0 .. devices[h].count - 1 |->
                      IF Changes(rec, i) THEN rec.entry ELSE view[j].entries[i]]
  <1>1. /\ Placed(subs[j], generation, head) /\ InJournal(devices, head, subs[j])
        /\ Follows(devices, journal, head, subs[j], view[j].presence, view[j].entries)
        /\ Registered(devices, generation, journal, head)
        /\ Ahead(h, subs[j].cursor) = Beyond(journal, head, h, subs[j].cursor)
        /\ subs[j] \in Subs
    BY CurrentFollows, SessionTypes
  <1>2. /\ f \in Beyond(journal, head, h, subs[j].cursor)
        /\ \A t \in Beyond(journal, head, h, subs[j].cursor) : f <= t
    BY <1>1, FirstAheadIsFirst DEF Placed, Registered
  <1>3. /\ sub2.handle = h /\ sub2.cursor = f
        /\ sub2.generation = subs[j].generation /\ sub2.revision = rec.revision
    BY <1>1 DEF Subs
  <1>4. \A i \in 0 .. devices[h].count - 1 :
          e2[i] = IF Changes(rec, i) THEN rec.entry ELSE view[j].entries[i]
    OBVIOUS
  <1>5. Rec(f) = rec
    BY DEF Rec, RecAt
  <1> HIDE DEF f, sub2, e2
  <1>6. rec.revision = subs[j].revision + 1 /\ rec.generation = subs[j].generation
    BY <1>1, <1>2, <1>3, <1>4, NextFollows
  <1> QED BY <1>5, <1>6 DEF f

\* The invariant implies the ownership of snapshots.
LEMMA InvPending == Inv => PendingOwnsSnapshot
  BY InvParts DEF PendingOwnsSnapshot, ReadingFits, Live

\* The invariant implies the bound on bypassing.
LEMMA InvBypass == Inv => BoundedBypass
  <1> SUFFICES ASSUME Inv, NEW j \in Slots PROVE passedOver[j] < Subscriptions
    BY DEF BoundedBypass
  <1>1. /\ passedOver[j] \in Nat /\ roundRobin \in Slots /\ Subscriptions \in Nat
        /\ passedOver[j] + Distance(roundRobin, j) < Subscriptions
    BY InvParts, SessionAssumption DEF TypeOK, RoundFits
  <1>2. Distance(roundRobin, j) \in Nat
    BY <1>1 DEF Distance, Slots
  <1> QED BY <1>1, <1>2

\* What the property says of one step.
ResyncStep ==
    \A j \in Slots :
        subs[j].paused # "told" /\ subs'[j].paused = "told" =>
            \/ ExpiredSubs[j].paused = "expired"
            \/ ~Defined(subs[j].handle)
            \/ devices[subs[j].handle].generation # subs[j].generation
            \/ Lost(subs[j].cursor)

\* A resynchronisation is sent only for a cause.
LEMMA ResyncOnlyJustified ==
    ASSUME Inv, [Next]_vars
    PROVE  ResyncStep
  <1> SUFFICES ASSUME NEW j \in Slots, subs[j].paused # "told", subs'[j].paused = "told"
               PROVE  \/ ExpiredSubs[j].paused = "expired"
                      \/ ~Defined(subs[j].handle)
                      \/ devices[subs[j].handle].generation # subs[j].generation
                      \/ Lost(subs[j].cursor)
    BY DEF ResyncStep
  <1>1. /\ ExpiredSubs[j].paused # "told" /\ ExpiredSubs[j] \in Subs /\ subs[j] \in Subs
        /\ subs \in [Slots -> Subs] /\ ExpiredSubs \in [Slots -> Subs]
    BY ExpiryFits, SessionTypes DEF ExpiryOf
  <1>2. subs' # subs
    OBVIOUS
  <1> HIDE DEF ExpiredSubs
  <1>3. ASSUME NEW h \in 0 .. DevicesMax, NEW c \in Catalogs, Configure(h, c) PROVE FALSE
    BY <1>2, <1>3 DEF Configure, sessionVars
  <1>4. ASSUME NEW h \in Handles, NEW index \in Resources, NEW value \in Values,
               NEW valid \in BOOLEAN, PutEntry(h, index, value, valid)
        PROVE  FALSE
    BY <1>2, <1>4 DEF PutEntry, sessionVars
  <1>5. ASSUME NEW h \in Handles, NEW presence \in Reports, SetPresence(h, presence) PROVE FALSE
    BY <1>2, <1>5 DEF SetPresence, sessionVars
  <1>6. CASE RejectedRequest
    BY <1>1, <1>6 DEF RejectedRequest
  <1>7. ASSUME NEW k \in Slots, Unsubscribe(k) PROVE FALSE
    <2>1. subs' = [ExpiredSubs EXCEPT ![k] = FreeSub] /\ FreeSub.paused = "no"
      BY <1>7 DEF Unsubscribe, FreeSub
    <2> QED BY <1>1, <2>1
  <1>8. ASSUME NEW token \in 1 .. MaxSnapshot, NEW first \in 0 .. ResourcesMax,
               GetPage(token, first)
        PROVE  FALSE
    <2>1. subs'[j] \in {subs[j], [subs[j] EXCEPT !.pending = FALSE]}
      BY <1>8 DEF GetPage, Page
    <2> QED BY <1>1, <2>1 DEF Subs
  <1>9. ASSUME NEW name \in Names, GetFirst(name) PROVE FALSE
    <2>1. subs'[j] \in {ExpiredSubs[j], [ExpiredSubs[j] EXCEPT !.pending = FALSE]}
      BY <1>9 DEF GetFirst, Page
    <2> QED BY <1>1, <2>1 DEF Subs
  <1>10. ASSUME NEW name \in Names, Subscribe(name) PROVE FALSE
    <2> DEFINE h == Lookup(name)
               k == SlotForSub(h)
               id == IF subs[k].id # 0 THEN subs[k].id ELSE nextSub + 1
               sub == [id |-> id, handle |-> h, generation |-> devices[h].generation,
                       revision |-> devices[h].revision, cursor |-> StartCursor(h),
                       pending |-> TRUE, paused |-> "no"]
               subs0 == [ExpiredSubs EXCEPT ![k] = sub]
    <2>1. subs'[j] \in {subs0[j], [subs0[j] EXCEPT !.pending = FALSE]}
      BY <1>10 DEF Subscribe, Page
    <2>2. subs0[j] = ExpiredSubs[j] \/ subs0[j] = sub
      BY <1>1
    <2>3. sub.paused = "no" /\ DOMAIN sub = DOMAIN FreeSub
      BY DEF FreeSub
    <2>4. [sub EXCEPT !.pending = FALSE].paused = "no"
      OBVIOUS
    <2>5. [ExpiredSubs[j] EXCEPT !.pending = FALSE].paused = ExpiredSubs[j].paused
      BY <1>1 DEF Subs
    <2> HIDE DEF sub, subs0
    <2> QED BY <1>1, <2>1, <2>2, <2>3, <2>4, <2>5
  <1>11. ASSUME NEW name \in Names, SubscribeRefused(name) PROVE FALSE
    BY <1>1, <1>11 DEF SubscribeRefused
  <1>12. CASE NoEvent
    <2>1. subs'[j] = [ExpiredSubs[j] EXCEPT !.cursor = News(j).cursor]
      BY <1>12 DEF NoEvent
    <2> QED BY <1>1, <2>1 DEF Subs
  <1>13. ASSUME NEW k \in Slots, SendEvent(k)
         PROVE  \/ ExpiredSubs[j].paused = "expired"
                \/ ~Defined(subs[j].handle)
                \/ devices[subs[j].handle].generation # subs[j].generation
                \/ Lost(subs[j].cursor)
    <2> DEFINE rec == Rec(News(j).cursor)
    <2>1. CASE j = Turn(k) /\ News(j).status # "change"
      <3>1. Waiting(j)
        BY <1>13, <2>1 DEF SendEvent
      <3> QED BY <2>1, <3>1, NewsOfSlot
    <2>2. CASE ~(j = Turn(k) /\ News(j).status # "change")
      <3>1. \/ subs'[j] = [ExpiredSubs[j] EXCEPT !.revision = rec.revision,
                                                !.cursor = News(j).cursor]
            \/ subs'[j] = [ExpiredSubs[j] EXCEPT !.cursor = News(j).cursor]
            \/ subs'[j] = ExpiredSubs[j]
        BY <1>13, <2>2 DEF SendEvent
      <3> HIDE DEF rec
      <3> QED BY <1>1, <3>1 DEF Subs
    <2> QED BY <2>1, <2>2
  <1>14. CASE Tick
    BY <1>2, <1>14 DEF Tick
  <1>15. CASE Reconnect
    BY <1>15 DEF Reconnect, FreeSub
  <1>16. CASE UNCHANGED vars
    BY <1>2, <1>16 DEF vars, sessionVars
  <1> QED BY <1>3, <1>4, <1>5, <1>6, <1>7, <1>8, <1>9, <1>10, <1>11, <1>12, <1>13, <1>14,
             <1>15, <1>16 DEF Next, EventCall

\* The types hold: positions stay inside the buffers, and ids and tokens are
\* ones the session gave out (bvstk_dcp2_cache.c).
THEOREM TypeCorrect == Spec => []TypeOK
  <1>1. Inv => TypeOK
    BY InvParts
  <1> QED BY <1>1, AlwaysInv, PTL

\* A follower with no record of its device ahead holds the registry's device
\* exactly (bvstk_dcp2_cache_event over bvstk_cache_next).
THEOREM FollowerIsExact == Spec => []MirrorExact
  BY AlwaysInv, InvMirrors, PTL

\* A follower in the journal finds the revisions it misses one after the
\* other, all of its catalog: the guard "revision + 1" never fires.
THEOREM FollowerMissesNothing == Spec => []NoGap
  BY AlwaysInv, InvNoGap, PTL

\* While a subscription reads its snapshot nobody else's is in the buffer.
THEOREM SnapshotIsOwned == Spec => []PendingOwnsSnapshot
  BY AlwaysInv, InvPending, PTL

\* Between two turns of a waiting slot every other slot has one.
THEOREM RoundRobinIsFair == Spec => []BoundedBypass
  BY AlwaysInv, InvBypass, PTL

\* A client is told to resync only when its copy cannot be continued.
THEOREM ResyncHasCause == Spec => ResyncIsJustified
  <1>1. Inv /\ [Next]_vars => ResyncStep
    BY ResyncOnlyJustified
  <1> QED BY <1>1, AlwaysInv, PTL DEF Spec, ResyncIsJustified, ResyncStep
=============================================================================
