------------------------- MODULE MdioServiceProofs -------------------------
(***************************************************************************)
(* What the MDIO service guarantees for any number of devices, addresses,  *)
(* registers, configurations and failing publications.                     *)
(*                                                                         *)
(* A step of the service changes cache, read area and registry one after   *)
(* the other, and any of the publications may fail.  The invariant Inv     *)
(* therefore speaks of the service record as a value: Base holds of every  *)
(* record an operation hands on to the next, MirrorBut names the registers *)
(* where the registry may still lag behind, and both are lifted through    *)
(* read_phy, Forget, publish and invalidate, one lemma each.  JobFits is   *)
(* what the holder of the mutex may rely on between two of its steps: the  *)
(* write it is about to send was allowed by the policy that is in force    *)
(* now, and the register it will change shows no word any more.            *)
(***************************************************************************)
EXTENDS MdioService, FiniteSetTheorems, TLAPS

\* The values of the record fields.
Presences == {"unknown", "ready", "unavailable"}
Listings == UNION {[0 .. n - 1 -> Entries] : n \in 1 .. RegMax}
Catalogs == [presence : Presences, entries : Listings]

Services ==
    [devices : [Dev -> ConfigRecords], cache : [Dev -> [Regs -> Entries]],
     online : [Dev -> BOOLEAN], probeDue : [Dev -> BOOLEAN], pollDue : [Dev -> BOOLEAN],
     pollIndex : [Dev -> 0 .. RegMax - 1], scan : 0 .. CellCount - 1, pollDevice : Dev,
     bram : [Cells -> Words], mirror : [Dev -> Catalogs], missed : SUBSET Cells,
     current : SUBSET Cells, confirmed : [Dev -> Phys \cup {NoPhy}]]

\* What a bus access leaves alone.
Rest(s) == <<s.devices, s.online, s.probeDue, s.pollDue, s.pollIndex, s.scan,
             s.pollDevice, s.confirmed>>

\* publish changes one word of the read area, or notes that it did not.
Published(s, t, phy, r, v, ok) ==
    /\ t \in Services
    /\ Rest(t) = Rest(s)
    /\ t.cache = s.cache /\ t.mirror = s.mirror /\ t.current = s.current
    /\ ok => /\ t.bram = [s.bram EXCEPT ![<<phy, r>>] = v]
             /\ t.missed = s.missed \ {<<phy, r>>}
    /\ ~ok => /\ t.bram = s.bram
              /\ t.missed = s.missed \cup {<<phy, r>>}

\* publish writes one word of the read area, or records the failure.
LEMMA PublishFields ==
    ASSUME NEW s \in Services, NEW phy \in Phys, NEW r \in Regs, NEW v \in Words,
           NEW ok \in BOOLEAN
    PROVE  Published(s, publish(s, phy, r, v, ok), phy, r, v, ok)
  <1>1. <<phy, r>> \in Cells
    BY DEF Cells
  <1> QED
    BY <1>1 DEF Services, publish, Published, Rest

\* cache_changed copies one entry into the catalog, if it declares it.
Copied(s, t, d, r) ==
    /\ t \in Services
    /\ Rest(t) = Rest(s)
    /\ t.cache = s.cache /\ t.bram = s.bram /\ t.missed = s.missed
    /\ t.current = s.current
    /\ \A e \in Dev : e # d => t.mirror[e] = s.mirror[e]
    /\ t.mirror[d].presence = s.mirror[d].presence
    /\ t.mirror[d].entries =
         [q \in 0 .. s.devices[d].count - 1 |->
             IF q = r THEN s.cache[d][r] ELSE s.mirror[d].entries[q]]

\* cache_changed copies the entry into the registry's mirror.
LEMMA ChangedFields ==
    ASSUME NEW s \in Services, NEW d \in Dev, NEW r \in Regs,
           DOMAIN s.mirror[d].entries = 0 .. s.devices[d].count - 1
    PROVE  Copied(s, cache_changed(s, d, r), d, r)
  <1> DEFINE t == cache_changed(s, d, r)
  <1>1. s.cache[d][r] \in Entries
    BY DEF Services
  <1>2. s.mirror[d] \in Catalogs /\ s.devices[d] \in ConfigRecords
    BY DEF Services
  <1>3. r \in Int /\ s.devices[d].count \in 1 .. RegMax
    BY <1>2, MdioAssumption DEF Regs, ConfigRecords
  <1>4. s.mirror[d].entries \in [0 .. s.devices[d].count - 1 -> Entries]
    BY <1>2 DEF Catalogs, Listings
  <1>5. CASE r < s.devices[d].count
    <2> DEFINE n == s.devices[d].count
               entries == [s.mirror[d].entries EXCEPT ![r] = s.cache[d][r]]
               m == [s.mirror[d] EXCEPT !.entries = entries]
    <2>1. entries \in [0 .. n - 1 -> Entries]
      BY <1>1, <1>4
    <2>2. entries = [q \in 0 .. n - 1 |->
                        IF q = r THEN s.cache[d][r] ELSE s.mirror[d].entries[q]]
      BY <1>4
    <2>3. entries \in Listings
      BY <1>3, <2>1 DEF Listings
    <2>7. m \in Catalogs /\ m.presence = s.mirror[d].presence /\ m.entries = entries
      BY <1>2, <2>3 DEF Catalogs
    <2>4. t = [s EXCEPT !.mirror = [@ EXCEPT ![d] = m]]
      BY <1>5 DEF cache_changed
    <2>5. /\ t \in Services /\ Rest(t) = Rest(s)
          /\ t.cache = s.cache /\ t.bram = s.bram /\ t.missed = s.missed
          /\ t.current = s.current /\ t.mirror = [s.mirror EXCEPT ![d] = m]
      <3> HIDE DEF m, entries, t
      <3> QED BY <2>7, <2>4 DEF Services, Rest
    <2>6. t.mirror[d] = m /\ \A e \in Dev : e # d => t.mirror[e] = s.mirror[e]
      BY <2>5 DEF Services
    <2> HIDE DEF m, t
    <2> QED
      BY <2>2, <2>7, <2>5, <2>6 DEF t, Copied
  <1>6. CASE ~(r < s.devices[d].count)
    <2>1. t = s
      BY <1>6 DEF cache_changed
    <2>2. \A q \in 0 .. s.devices[d].count - 1 : q # r
      BY <1>3, <1>6
    <2> HIDE DEF t
    <2> QED
      BY <1>4, <2>1, <2>2 DEF t, Copied
  <1> QED
    BY <1>5, <1>6

\* A register's entry is replaced, and nothing else.
Filed(s, t, d, r, x) ==
    /\ t \in Services
    /\ Rest(t) = Rest(s)
    /\ t.cache = [s.cache EXCEPT ![d][r] = x]
    /\ t.bram = s.bram /\ t.mirror = s.mirror /\ t.missed = s.missed
    /\ t.current = s.current

\* The fields of a cache entry.
LEMMA EntryFields ==
    ASSUME NEW s \in Services, NEW d \in Dev, NEW r \in Regs, NEW x \in Entries
    PROVE  Filed(s, [s EXCEPT !.cache[d][r] = x], d, r, x)
  BY DEF Services, Rest, Filed

\* What a bus reply carries is a word.
LEMMA ReplyTypes ==
    ASSUME NEW reply \in BusReplies
    PROVE  reply.word \in Words
  BY MdioAssumption DEF BusReplies, Words

\* What a read stores is an entry.
LEMMA EntryTypes ==
    /\ Invalid \in Entries /\ Undriven \in Words
    /\ \A v \in Words : Sampled(v) \in Entries /\ Seeded(v) \in Entries
  BY DEF Entries, Undriven, Words

\* What is known of a cell after a bus read of it and of every other cell:
\* the word is filed, served and current, or the register is invalid and reads
\* FFFF unless that could not be published.
Elsewhere(s, t, cell) ==
    \A c \in Cells \ {cell} : /\ t.bram[c] = s.bram[c]
                              /\ c \in t.missed <=> c \in s.missed
                              /\ c \in t.current <=> c \in s.current
Read(s, t, d, r, word) ==
    LET cell == <<s.devices[d].phy, r>>
    IN  /\ t.cache = [s.cache EXCEPT ![d][r] = Sampled(word)]
        /\ t.bram[cell] = word /\ cell \in t.current
Unread(s, t, d, r) ==
    LET cell == <<s.devices[d].phy, r>>
    IN  /\ t.cache = [s.cache EXCEPT ![d][r] = Invalid]
        /\ t.bram[cell] = Undriven \/ cell \in t.missed
Access(s, t, d, r) ==
    /\ t \in Services
    /\ Rest(t) = Rest(s)
    /\ Elsewhere(s, t, <<s.devices[d].phy, r>>)

\* A read without an answer marks the entry and clears its word.
LEMMA UnreadFields ==
    ASSUME NEW s \in Services, NEW d \in Dev, NEW r \in Regs, NEW ok \in BOOLEAN
    PROVE  LET t == unread(s, d, r, ok)
           IN  Access(s, t, d, r) /\ Unread(s, t, d, r) /\ t.mirror = s.mirror
  <1> DEFINE phy == s.devices[d].phy
             invalid == [s EXCEPT !.cache[d][r] = Invalid]
             t == unread(s, d, r, ok)
  <1>1. phy \in Phys /\ <<phy, r>> \in Cells /\ s.bram \in [Cells -> Words]
    BY DEF Services, ConfigRecords, Cells
  <1>2. Filed(s, invalid, d, r, Invalid)
    BY EntryTypes, EntryFields
  <1>3. Published(invalid, t, phy, r, Undriven, ok)
    <2>1. invalid \in Services
      BY <1>2 DEF Filed
    <2> HIDE DEF invalid, phy
    <2> QED BY <1>1, <2>1, EntryTypes, PublishFields DEF unread, invalid, phy
  <1> HIDE DEF invalid, t
  <1>4. /\ t \in Services /\ Rest(t) = Rest(s) /\ t.mirror = s.mirror
        /\ t.cache = [s.cache EXCEPT ![d][r] = Invalid]
        /\ t.current = s.current
        /\ ok => /\ t.bram = [s.bram EXCEPT ![<<phy, r>>] = Undriven]
                 /\ t.missed = s.missed \ {<<phy, r>>}
        /\ ~ok => /\ t.bram = s.bram
                  /\ t.missed = s.missed \cup {<<phy, r>>}
    <2>1. CASE ok
      BY <2>1, <1>2, <1>3, Zenon DEF Filed, Published
    <2>2. CASE ~ok
      BY <2>2, <1>2, <1>3, Zenon DEF Filed, Published
    <2> QED BY <2>1, <2>2
  <1>5. Access(s, t, d, r) /\ Unread(s, t, d, r)
    <2> HIDE DEF phy
    <2>1. Elsewhere(s, t, <<phy, r>>)
      BY <1>1, <1>4 DEF Elsewhere
    <2>2. t.bram[<<phy, r>>] = Undriven \/ <<phy, r>> \in t.missed
      BY <1>1, <1>4
    <2> QED BY <1>4, <2>1, <2>2, Zenon DEF Access, Unread, phy
  <1> QED BY <1>4, <1>5 DEF t

\* A read with an answer stores the word and publishes it.
LEMMA AnsweredFields ==
    ASSUME NEW s \in Services, NEW d \in Dev, NEW r \in Regs, NEW word \in Words,
           NEW ok \in BOOLEAN, NEW okFF \in BOOLEAN
    PROVE  LET t == answered(s, d, r, word, ok, okFF)
           IN  /\ Access(s, t, d, r) /\ t.mirror = s.mirror
               /\ ok => Read(s, t, d, r, word)
               /\ ~ok => Unread(s, t, d, r)
  <1> DEFINE phy == s.devices[d].phy
             heard == [s EXCEPT !.current = @ \cup {<<phy, r>>}]
             served == publish(heard, phy, r, word, ok)
             t == answered(s, d, r, word, ok, okFF)
  <1>1. phy \in Phys /\ <<phy, r>> \in Cells /\ s.bram \in [Cells -> Words]
    BY DEF Services, ConfigRecords, Cells
  <1>2. /\ heard \in Services /\ Rest(heard) = Rest(s)
        /\ heard.cache = s.cache /\ heard.bram = s.bram /\ heard.mirror = s.mirror
        /\ heard.missed = s.missed /\ heard.current = s.current \cup {<<phy, r>>}
    <2> HIDE DEF phy
    <2> QED BY <1>1 DEF Services, Rest
  <1>3. Published(heard, served, phy, r, word, ok)
    <2> HIDE DEF heard, phy
    <2> QED BY <1>1, <1>2, PublishFields
  <1>4. served \in Services /\ served.devices[d].phy = phy
    <2> HIDE DEF heard, served
    <2> QED BY <1>2, <1>3 DEF Published, Rest
  <1>5. CASE ok
    <2>1. t = [served EXCEPT !.cache[d][r] = Sampled(word)]
      BY <1>5 DEF answered
    <2> HIDE DEF heard, served
    <2>2. Filed(served, t, d, r, Sampled(word))
      <3> HIDE DEF t
      <3> QED BY <1>4, <2>1, EntryTypes, EntryFields
    <2> HIDE DEF t
    <2>3. /\ t \in Services /\ Rest(t) = Rest(s) /\ t.mirror = s.mirror
          /\ t.cache = [s.cache EXCEPT ![d][r] = Sampled(word)]
          /\ t.current = s.current \cup {<<phy, r>>}
          /\ t.bram = [s.bram EXCEPT ![<<phy, r>>] = word]
          /\ t.missed = s.missed \ {<<phy, r>>}
      BY <1>2, <1>3, <1>5, <2>2, Zenon DEF Filed, Published
    <2> HIDE DEF phy
    <2>4. Elsewhere(s, t, <<phy, r>>) /\ t.bram[<<phy, r>>] = word /\ <<phy, r>> \in t.current
      BY <1>1, <2>3 DEF Elsewhere
    <2>5. Access(s, t, d, r) /\ Read(s, t, d, r, word)
      BY <2>3, <2>4, Zenon DEF Access, Read, phy
    <2> QED BY <1>5, <2>3, <2>5 DEF t
  <1>6. CASE ~ok
    <2>1. t = unread(served, d, r, okFF)
      BY <1>6 DEF answered
    <2> HIDE DEF heard, served, t
    <2>2. Access(served, t, d, r) /\ Unread(served, t, d, r) /\ t.mirror = served.mirror
      BY <1>4, <2>1, UnreadFields
    <2>3. /\ t \in Services /\ Rest(t) = Rest(s) /\ t.mirror = s.mirror
          /\ t.cache = [s.cache EXCEPT ![d][r] = Invalid]
          /\ t.bram[<<phy, r>>] = Undriven \/ <<phy, r>> \in t.missed
          /\ Elsewhere(served, t, <<phy, r>>)
      BY <1>2, <1>3, <1>4, <2>2, Zenon DEF Access, Unread, Published
    <2>4. /\ served.bram = s.bram /\ served.missed = s.missed \cup {<<phy, r>>}
          /\ served.current = s.current \cup {<<phy, r>>}
      BY <1>2, <1>3, <1>6, Zenon DEF Published
    <2> HIDE DEF phy
    <2>5. Elsewhere(s, t, <<phy, r>>)
      BY <1>1, <2>3, <2>4 DEF Elsewhere
    <2>6. Access(s, t, d, r) /\ Unread(s, t, d, r)
      BY <2>3, <2>5, Zenon DEF Access, Unread, phy
    <2> QED BY <1>6, <2>3, <2>6 DEF t
  <1> QED BY <1>5, <1>6

\* A read leaves the bits of the word, or the register unread; the catalog is
\* told unless the read belongs to a probe.
Outcome(s, t, d, r, reply, ok) ==
    /\ Access(s, t, d, r)
    /\ reply.ok /\ ok => Read(s, t, d, r, reply.word)
    /\ ~(reply.ok /\ ok) => Unread(s, t, d, r)
Unseen(s, t) == t.mirror = s.mirror
SameConfig(s, t) == t.devices = s.devices

\* read_phy, with or without an answer, keeps the service typed.
LEMMA ReadFields ==
    ASSUME NEW s \in Services, NEW d \in Dev, NEW r \in Regs, NEW reply \in BusReplies,
           NEW ok \in BOOLEAN, NEW okFF \in BOOLEAN
    PROVE  /\ Outcome(s, read_phy(s, d, r, reply, ok, okFF, TRUE), d, r, reply, ok)
           /\ Unseen(s, read_phy(s, d, r, reply, ok, okFF, TRUE))
           /\ read_phy(s, d, r, reply, ok, okFF, FALSE) =
                cache_changed(read_phy(s, d, r, reply, ok, okFF, TRUE), d, r)
  <1> DEFINE t == read_phy(s, d, r, reply, ok, okFF, TRUE)
  <1>1. CASE reply.ok
    <2>1. t = answered(s, d, r, reply.word, ok, okFF)
      BY <1>1 DEF read_phy
    <2>2. read_phy(s, d, r, reply, ok, okFF, FALSE) =
            cache_changed(answered(s, d, r, reply.word, ok, okFF), d, r)
      BY <1>1 DEF read_phy
    <2> HIDE DEF t
    <2>3. /\ Access(s, t, d, r) /\ t.mirror = s.mirror
          /\ ok => Read(s, t, d, r, reply.word)
          /\ ~ok => Unread(s, t, d, r)
      BY <2>1, ReplyTypes, AnsweredFields
    <2> QED BY <1>1, <2>1, <2>2, <2>3, Zenon DEF Outcome, Unseen, t
  <1>2. CASE ~reply.ok
    <2>1. t = unread(s, d, r, okFF)
      BY <1>2 DEF read_phy
    <2>2. read_phy(s, d, r, reply, ok, okFF, FALSE) = cache_changed(unread(s, d, r, okFF), d, r)
      BY <1>2 DEF read_phy
    <2> HIDE DEF t
    <2>3. Access(s, t, d, r) /\ Unread(s, t, d, r) /\ t.mirror = s.mirror
      BY <2>1, UnreadFields
    <2> QED BY <1>2, <2>1, <2>2, <2>3, Zenon DEF Outcome, Unseen, t
  <1> QED BY <1>1, <1>2

\* invalidate forgets one device: its entries, its presence, its cells.
Forgotten(s, t, d, fails) ==
    /\ t \in Services
    /\ t.devices = s.devices /\ t.pollDue = s.pollDue /\ t.pollIndex = s.pollIndex
    /\ t.scan = s.scan /\ t.pollDevice = s.pollDevice /\ t.confirmed = s.confirmed
    /\ t.cache = [s.cache EXCEPT ![d] = [r \in Regs |-> Invalid]]
    /\ t.online = [s.online EXCEPT ![d] = FALSE]
    /\ t.probeDue = [s.probeDue EXCEPT ![d] = TRUE]
    /\ \A e \in Dev : e # d => t.mirror[e] = s.mirror[e]
    /\ t.mirror[d].presence = "unavailable"
    /\ t.mirror[d].entries = [r \in DOMAIN s.mirror[d].entries |-> Invalid]
    /\ \A c \in Cells :
          IF c[1] = s.devices[d].phy
          THEN /\ c \notin t.current
               /\ c[2] \notin fails => t.bram[c] = Undriven
               /\ c[2] \in fails => t.bram[c] = s.bram[c] /\ c \in t.missed
          ELSE /\ t.bram[c] = s.bram[c]
               /\ c \in t.missed <=> c \in s.missed
               /\ c \in t.current <=> c \in s.current

\* invalidate empties the cells of a device in cache, mirror and read area;
\* a word whose publication fails stays and is noted.
LEMMA ForgetFields ==
    ASSUME NEW s \in Services, NEW d \in Dev, NEW fails \in SUBSET Regs
    PROVE  Forgotten(s, invalidate(s, d, fails), d, fails)
  <1> DEFINE phy == s.devices[d].phy
             mine == {phy} \X Regs
             lost == {phy} \X fails
             none == [r \in Regs |-> Invalid]
             entries == [r \in DOMAIN s.mirror[d].entries |-> Invalid]
             m == [presence |-> "unavailable", entries |-> entries]
             bram == [c \in Cells |-> IF c \in mine \ lost THEN Undriven ELSE s.bram[c]]
             missed == (s.missed \ mine) \cup lost
             current == s.current \ mine
             t == invalidate(s, d, fails)
  <1>1. phy \in Phys /\ s.bram \in [Cells -> Words] /\ s.mirror[d] \in Catalogs
        /\ s.missed \subseteq Cells /\ s.current \subseteq Cells
    BY DEF Services, ConfigRecords
  <1>2. mine \subseteq Cells /\ lost \subseteq Cells
    BY <1>1 DEF Cells
  <1>3. none \in [Regs -> Entries]
    BY EntryTypes
  <1>4. m \in Catalogs
    <2>1. PICK n \in 1 .. RegMax : s.mirror[d].entries \in [0 .. n - 1 -> Entries]
      BY <1>1 DEF Catalogs, Listings
    <2>2. entries \in [0 .. n - 1 -> Entries]
      BY <2>1, EntryTypes
    <2>3. entries \in Listings
      BY <2>2 DEF Listings
    <2> HIDE DEF entries
    <2> QED BY <2>3 DEF Catalogs, Presences
  <1>5. bram \in [Cells -> Words] /\ missed \subseteq Cells /\ current \subseteq Cells
    <2> HIDE DEF mine, lost
    <2> QED BY <1>1, <1>2, EntryTypes
  <1>6. t = [s EXCEPT !.cache = [@ EXCEPT ![d] = none], !.online = [@ EXCEPT ![d] = FALSE],
                      !.probeDue = [@ EXCEPT ![d] = TRUE], !.mirror = [@ EXCEPT ![d] = m],
                      !.bram = bram, !.missed = missed, !.current = current]
    BY DEF invalidate
  <1>7. /\ t \in Services
        /\ t.devices = s.devices /\ t.pollDue = s.pollDue /\ t.pollIndex = s.pollIndex
        /\ t.scan = s.scan /\ t.pollDevice = s.pollDevice /\ t.confirmed = s.confirmed
        /\ t.cache = [s.cache EXCEPT ![d] = none]
        /\ t.online = [s.online EXCEPT ![d] = FALSE]
        /\ t.probeDue = [s.probeDue EXCEPT ![d] = TRUE]
        /\ t.mirror = [s.mirror EXCEPT ![d] = m]
        /\ t.bram = bram /\ t.missed = missed /\ t.current = current
    <2> HIDE DEF none, m, bram, missed, current, t
    <2> QED BY <1>3, <1>4, <1>5, <1>6 DEF Services
  <1>8. \A c \in Cells :
          /\ c \in mine <=> c[1] = phy
          /\ c \in lost <=> c[1] = phy /\ c[2] \in fails
    <2> HIDE DEF phy
    <2> QED BY DEF Cells
  <1>9. \A c \in Cells :
          IF c[1] = phy
          THEN /\ c \notin t.current
               /\ c[2] \notin fails => t.bram[c] = Undriven
               /\ c[2] \in fails => t.bram[c] = s.bram[c] /\ c \in t.missed
          ELSE /\ t.bram[c] = s.bram[c]
               /\ c \in t.missed <=> c \in s.missed
               /\ c \in t.current <=> c \in s.current
    <2> HIDE DEF mine, lost, phy, t
    <2> QED BY <1>7, <1>8
  <1>10. t.mirror[d] = m /\ \A e \in Dev : e # d => t.mirror[e] = s.mirror[e]
    <2> HIDE DEF m, t
    <2> QED BY <1>7 DEF Services
  <1> HIDE DEF t
  <1> QED BY <1>7, <1>9, <1>10 DEF Forgotten, t

\* seed presets the registers the first n settings name.
Named(c, n, r) == \E i \in 1 .. n : c.settings[i].reg = r
Planted(s, t, d, n) ==
    LET c == s.devices[d]
    IN  /\ t \in Services
        /\ Rest(t) = Rest(s)
        /\ \A e \in Dev : e # d => t.cache[e] = s.cache[e] /\ t.mirror[e] = s.mirror[e]
        /\ t.mirror[d].presence = s.mirror[d].presence
        /\ DOMAIN t.mirror[d].entries = DOMAIN s.mirror[d].entries
        /\ \A r \in DOMAIN s.mirror[d].entries :
              t.mirror[d].entries[r] = IF Named(c, n, r) THEN t.cache[d][r]
                                       ELSE s.mirror[d].entries[r]
        /\ \A r \in Regs :
              /\ Named(c, n, r) => /\ t.cache[d][r] = Seeded(t.bram[<<c.phy, r>>])
                                   /\ <<c.phy, r>> \in t.current
              /\ ~Named(c, n, r) => t.cache[d][r] = s.cache[d][r]
        /\ \A x \in Cells : ~(x[1] = c.phy /\ Named(c, n, x[2])) =>
              /\ t.bram[x] = s.bram[x]
              /\ x \in s.missed => x \in t.missed
              /\ x \in s.current <=> x \in t.current

\* Seeding a device fills its cells of the read area.
LEMMA SeedFields ==
    ASSUME NEW s \in Services, NEW d \in Dev, NEW n \in 0 .. Len(s.devices[d].settings),
           DOMAIN s.mirror[d].entries = 0 .. s.devices[d].count - 1
    PROVE  Planted(s, seed(s, d, n), d, n)
  <1> DEFINE c == s.devices[d]
             Preset(r) == {i \in 1 .. n : c.settings[i].reg = r}
             Value(r) == c.settings[CHOOSE i \in Preset(r) : TRUE].val
             cache == [r \in Regs |-> IF Preset(r) # {} THEN Seeded(Value(r))
                                      ELSE s.cache[d][r]]
             cells == {<<c.phy, r>> : r \in {q \in Regs : Preset(q) # {}}}
             lost == IF n < Len(c.settings) THEN {<<c.phy, c.settings[n + 1].reg>>} ELSE {}
             entries == [r \in DOMAIN s.mirror[d].entries |->
                            IF Preset(r) # {} THEN cache[r] ELSE s.mirror[d].entries[r]]
             m == [s.mirror[d] EXCEPT !.entries = entries]
             bram == [x \in Cells |-> IF x \in cells THEN Value(x[2]) ELSE s.bram[x]]
             missed == (s.missed \ cells) \cup lost
             current == s.current \cup cells
             t == seed(s, d, n)
  <1>1. /\ c \in ConfigRecords /\ s.bram \in [Cells -> Words] /\ s.mirror[d] \in Catalogs
        /\ s.missed \subseteq Cells /\ s.current \subseteq Cells
        /\ s.cache[d] \in [Regs -> Entries]
    BY DEF Services
  <1>2. /\ c.phy \in Phys /\ c.count \in 1 .. RegMax
        /\ c.settings \in Seq([reg : Regs, val : Words])
    BY <1>1 DEF ConfigRecords
  <1>3. \A i \in 1 .. Len(c.settings) : c.settings[i].reg \in Regs /\ c.settings[i].val \in Words
    <2> DEFINE list == c.settings
               S == [reg : Regs, val : Words]
    <2> HIDE DEF list, S
    <2>1. list \in Seq(S)
      BY <1>2 DEF list, S
    <2>2. \A i \in 1 .. Len(list) : list[i] \in S
      BY <2>1
    <2>3. \A i \in 1 .. Len(list) : list[i].reg \in Regs /\ list[i].val \in Words
      BY <2>2 DEF S
    <2> QED BY <2>3 DEF list
  <1>4. Len(c.settings) \in Nat /\ n \in Nat /\ n <= Len(c.settings)
    BY <1>2
  <1>5. \A r : Preset(r) # {} => Value(r) \in Words
    <2> SUFFICES ASSUME NEW r, Preset(r) # {} PROVE Value(r) \in Words
      OBVIOUS
    <2>1. (CHOOSE i \in Preset(r) : TRUE) \in Preset(r)
      OBVIOUS
    <2>2. (CHOOSE i \in Preset(r) : TRUE) \in 1 .. Len(c.settings)
      BY <1>4, <2>1
    <2> QED BY <1>3, <2>2
  <1>6. \A r : Preset(r) # {} <=> Named(c, n, r)
    BY DEF Named
  <1> HIDE DEF c, Preset, Value
  <1>7. cache \in [Regs -> Entries]
    BY <1>1, <1>5, EntryTypes
  <1>8. cells \subseteq Cells /\ lost \subseteq Cells
    BY <1>2, <1>3, <1>4 DEF Cells
  <1>9. s.mirror[d].entries \in [0 .. c.count - 1 -> Entries]
    BY <1>1, <1>2 DEF Catalogs, Listings, c
  <1>10. entries \in [0 .. c.count - 1 -> Entries]
    <2>1. \A r \in 0 .. c.count - 1 : r \in Regs
      BY <1>2, MdioAssumption DEF Regs
    <2> HIDE DEF cache
    <2> QED BY <1>7, <1>9, <2>1
  <1>11. m \in Catalogs /\ m.presence = s.mirror[d].presence /\ m.entries = entries
    <2>1. entries \in Listings
      BY <1>2, <1>10 DEF Listings
    <2> HIDE DEF entries
    <2> QED BY <1>1, <2>1 DEF Catalogs
  <1>12. bram \in [Cells -> Words] /\ missed \subseteq Cells /\ current \subseteq Cells
    <2>1. \A x \in cells : Value(x[2]) \in Words
      BY <1>5
    <2> HIDE DEF cells, lost
    <2> QED BY <1>1, <1>8, <2>1
  <1>13. t = [s EXCEPT !.cache = [@ EXCEPT ![d] = cache], !.mirror = [@ EXCEPT ![d] = m],
                       !.bram = bram, !.missed = missed, !.current = current]
    BY DEF seed, c, Preset, Value
  <1>14. /\ t \in Services /\ Rest(t) = Rest(s)
         /\ t.cache = [s.cache EXCEPT ![d] = cache]
         /\ t.mirror = [s.mirror EXCEPT ![d] = m]
         /\ t.bram = bram /\ t.missed = missed /\ t.current = current
    <2> HIDE DEF cache, m, bram, missed, current, t
    <2> QED BY <1>7, <1>11, <1>12, <1>13 DEF Services, Rest
  <1>15. \A x \in Cells : x \in cells <=> x[1] = c.phy /\ Named(c, n, x[2])
    <2>1. \A x \in Cells : x = <<x[1], x[2]>> /\ x[2] \in Regs
      BY DEF Cells
    <2> QED BY <1>6, <2>1
  <1>16. \A x \in Cells : ~(x[1] = c.phy /\ Named(c, n, x[2])) =>
              /\ t.bram[x] = s.bram[x]
              /\ x \in s.missed => x \in t.missed
              /\ x \in s.current <=> x \in t.current
    <2> HIDE DEF cells, lost, t
    <2> QED BY <1>14, <1>15
  <1>17. \A r \in Regs :
              /\ Named(c, n, r) => /\ t.cache[d][r] = Seeded(t.bram[<<c.phy, r>>])
                                   /\ <<c.phy, r>> \in t.current
              /\ ~Named(c, n, r) => t.cache[d][r] = s.cache[d][r]
    <2> SUFFICES ASSUME NEW r \in Regs
                 PROVE  /\ Named(c, n, r) => /\ t.cache[d][r] = Seeded(t.bram[<<c.phy, r>>])
                                             /\ <<c.phy, r>> \in t.current
                        /\ ~Named(c, n, r) => t.cache[d][r] = s.cache[d][r]
      OBVIOUS
    <2>1. <<c.phy, r>> \in Cells
      BY <1>2 DEF Cells
    <2>2. t.cache[d][r] = cache[r]
      <3> HIDE DEF t, cache
      <3> QED BY <1>14 DEF Services
    <2>3. <<c.phy, r>> \in cells <=> Named(c, n, r)
      BY <1>15, <2>1
    <2> HIDE DEF cells, t
    <2> QED BY <1>6, <1>14, <2>1, <2>2, <2>3
  <1>18. /\ t.mirror[d] = m
         /\ \A e \in Dev : e # d => t.cache[e] = s.cache[e] /\ t.mirror[e] = s.mirror[e]
         /\ t.cache[d] = cache
    <2> HIDE DEF m, t, cache
    <2> QED BY <1>14 DEF Services
  <1>19. /\ t.mirror[d].presence = s.mirror[d].presence
         /\ DOMAIN t.mirror[d].entries = DOMAIN s.mirror[d].entries
         /\ \A r \in DOMAIN s.mirror[d].entries :
              t.mirror[d].entries[r] = IF Named(c, n, r) THEN t.cache[d][r]
                                       ELSE s.mirror[d].entries[r]
    <2> HIDE DEF m, t, cache
    <2> QED BY <1>6, <1>11, <1>18
  <1> HIDE DEF t
  <1> QED BY <1>14, <1>16, <1>17, <1>18, <1>19 DEF Planted, t, c

-----------------------------------------------------------------------------
(* The invariant of the service, as a property of its structure.           *)

\* Every configuration is a valid one and no address has two devices.
\* Every configuration is valid and no two devices share an address.
ConfigsFit(s) ==
    /\ \A d \in Dev : bvstk_mdio_config_validate(s.devices[d])
    /\ \A d, e \in Dev : d # e => s.devices[d].phy # s.devices[e].phy

\* A catalog has one entry for each declared register.
CatalogFits(s) == \A d \in Dev : DOMAIN s.mirror[d].entries = 0 .. s.devices[d].count - 1

\* Only declared registers are valid, and the read area serves them.
EntriesServed(s) ==
    \A d \in Dev, r \in Regs : s.cache[d][r].valid =>
        /\ r < s.devices[d].count
        /\ s.bram[<<s.devices[d].phy, r>>] = s.cache[d][r].value
        /\ <<s.devices[d].phy, r>> \in s.current

\* A word that shows belongs to a declared register and is current, or its
\* erasure failed and was noted.
CellsExact(s) ==
    \A c \in Cells :
        /\ (~\E d \in Dev : s.devices[d].phy = c[1] /\ c[2] < s.devices[d].count)
              => s.bram[c] = Undriven
        /\ s.bram[c] # Undriven => c \in s.current \cup s.missed

\* Presence and poll position fit the configuration in force.
WorkerFits(s) ==
    \A d \in Dev :
        /\ s.online[d] => /\ s.confirmed[d] = s.devices[d].phy
                          /\ s.devices[d].count >= ProbeMin
        /\ s.pollIndex[d] = 0 \/ s.pollIndex[d] < Len(s.devices[d].regs)

\* What every record handed from one operation to the next fulfils.
Base(s) ==
    /\ s \in Services /\ ConfigsFit(s) /\ CatalogFits(s)
    /\ EntriesServed(s) /\ CellsExact(s) /\ WorkerFits(s)

\* The catalogs show the cache, except that of d at the registers in X.
MirrorBut(s, d, X) ==
    \A e \in Dev :
        /\ (s.mirror[e].presence = "ready") <=> s.online[e]
        /\ \A r \in 0 .. s.devices[e].count - 1 :
              ~(e = d /\ r \in X) => s.mirror[e].entries[r] = s.cache[e][r]

\* A read of a declared register keeps the invariant; only the catalog may
\* lag behind, at that register.
LEMMA ReadKeeps ==
    ASSUME NEW s, Base(s), NEW d \in Dev, NEW r \in Regs, r < s.devices[d].count,
           NEW reply \in BusReplies, NEW ok \in BOOLEAN,
           NEW t, Outcome(s, t, d, r, reply, ok), t.mirror = s.mirror
    PROVE  /\ Base(t) /\ t.devices = s.devices
           /\ \A X : MirrorBut(s, d, X) => MirrorBut(t, d, X \cup {r})
  <1> DEFINE phy == s.devices[d].phy
  <1>1. /\ t \in Services /\ s \in Services /\ Elsewhere(s, t, <<phy, r>>)
        /\ t.devices = s.devices /\ t.online = s.online /\ t.pollIndex = s.pollIndex
        /\ t.confirmed = s.confirmed
    BY Zenon DEF Base, Outcome, Access, Rest
  <1>2. /\ s.cache \in [Dev -> [Regs -> Entries]] /\ s.bram \in [Cells -> Words]
        /\ s.devices \in [Dev -> ConfigRecords]
        /\ s.missed \subseteq Cells /\ s.current \subseteq Cells
    BY <1>1 DEF Services
  <1>3. /\ phy \in Phys /\ <<phy, r>> \in Cells
        /\ \A e \in Dev : s.devices[e].phy \in Phys
    BY <1>2 DEF ConfigRecords, Cells
  <1>4. ConfigsFit(t) /\ CatalogFits(t) /\ WorkerFits(t)
    BY <1>1 DEF Base, ConfigsFit, CatalogFits, WorkerFits
  <1>5. /\ \A e \in Dev, q \in Regs : <<e, q>> # <<d, r>> => t.cache[e][q] = s.cache[e][q]
        /\ t.cache[d][r].valid => /\ t.bram[<<phy, r>>] = t.cache[d][r].value
                                  /\ <<phy, r>> \in t.current
        /\ t.cache[d][r].valid \/ t.bram[<<phy, r>>] = Undriven \/ <<phy, r>> \in t.missed
    <2>1. CASE reply.ok /\ ok
      BY <1>2, <2>1 DEF Outcome, Read, Sampled
    <2>2. CASE ~(reply.ok /\ ok)
      BY <1>2, <2>2 DEF Outcome, Unread, Invalid
    <2> QED BY <2>1, <2>2
  <1>6. EntriesServed(t)
    <2> SUFFICES ASSUME NEW e \in Dev, NEW q \in Regs, t.cache[e][q].valid
                 PROVE  /\ q < s.devices[e].count
                        /\ t.bram[<<s.devices[e].phy, q>>] = t.cache[e][q].value
                        /\ <<s.devices[e].phy, q>> \in t.current
      BY <1>1 DEF EntriesServed
    <2>1. CASE e = d /\ q = r
      BY <1>5, <2>1
    <2>2. CASE ~(e = d /\ q = r)
      <3>1. t.cache[e][q] = s.cache[e][q]
        BY <1>5, <2>2
      <3>2. <<s.devices[e].phy, q>> # <<phy, r>>
        BY <2>2 DEF Base, ConfigsFit
      <3>3. <<s.devices[e].phy, q>> \in Cells
        BY <1>3 DEF Cells
      <3> QED BY <1>1, <3>1, <3>2, <3>3 DEF Base, EntriesServed, Elsewhere
    <2> QED BY <2>1, <2>2
  <1>7. CellsExact(t)
    <2> SUFFICES ASSUME NEW c \in Cells
                 PROVE  /\ (~\E e \in Dev : s.devices[e].phy = c[1] /\ c[2] < s.devices[e].count)
                                => t.bram[c] = Undriven
                        /\ t.bram[c] # Undriven => c \in t.current \cup t.missed
      BY <1>1 DEF CellsExact
    <2>1. CASE c = <<phy, r>>
      BY <1>5, <2>1
    <2>2. CASE c # <<phy, r>>
      BY <1>1, <2>2 DEF Base, CellsExact, Elsewhere
    <2> QED BY <2>1, <2>2
  <1>8. ASSUME NEW X, MirrorBut(s, d, X) PROVE MirrorBut(t, d, X \cup {r})
    <2>1. \A e \in Dev : s.devices[e].count \in 1 .. RegMax
      BY <1>2 DEF ConfigRecords
    <2>2. \A e \in Dev : \A q \in 0 .. s.devices[e].count - 1 : q \in Regs
      BY <2>1, MdioAssumption DEF Regs
    <2> QED BY <1>1, <1>5, <1>8, <2>2 DEF MirrorBut
  <1> QED BY <1>1, <1>4, <1>6, <1>7, <1>8 DEF Base

\* Telling the catalog of a register keeps the invariant and makes it exact
\* there.
LEMMA CopyKeeps ==
    ASSUME NEW s, Base(s), NEW d \in Dev, NEW r \in Regs
    PROVE  LET t == cache_changed(s, d, r)
           IN  /\ Base(t) /\ Copied(s, t, d, r) /\ t.devices = s.devices
               /\ \A X : MirrorBut(s, d, X) => MirrorBut(t, d, X \ {r})
  <1> DEFINE t == cache_changed(s, d, r)
  <1>1. Copied(s, t, d, r)
    BY ChangedFields DEF Base, CatalogFits
  <1> HIDE DEF t
  <1>2. /\ t \in Services /\ t.devices = s.devices /\ t.online = s.online
        /\ t.pollIndex = s.pollIndex /\ t.confirmed = s.confirmed
        /\ t.cache = s.cache /\ t.bram = s.bram /\ t.missed = s.missed /\ t.current = s.current
    BY <1>1, Zenon DEF Copied, Rest
  <1>3. ConfigsFit(t) /\ WorkerFits(t) /\ EntriesServed(t) /\ CellsExact(t)
    BY <1>2 DEF Base, ConfigsFit, WorkerFits, EntriesServed, CellsExact
  <1>4. CatalogFits(t)
    BY <1>1, <1>2 DEF Base, CatalogFits, Copied
  <1>5. ASSUME NEW X, MirrorBut(s, d, X) PROVE MirrorBut(t, d, X \ {r})
    <2> SUFFICES ASSUME NEW e \in Dev
                 PROVE  /\ (t.mirror[e].presence = "ready") <=> s.online[e]
                        /\ \A q \in 0 .. s.devices[e].count - 1 :
                              ~(e = d /\ q \in X \ {r}) => t.mirror[e].entries[q] = s.cache[e][q]
      BY <1>2 DEF MirrorBut
    <2>1. CASE e # d
      BY <1>1, <1>5, <2>1 DEF MirrorBut, Copied
    <2>2. CASE e = d
      <3>1. \A q \in 0 .. s.devices[d].count - 1 :
               t.mirror[d].entries[q] = IF q = r THEN s.cache[d][r] ELSE s.mirror[d].entries[q]
        BY <1>1 DEF Copied
      <3>2. t.mirror[d].presence = s.mirror[d].presence
        BY <1>1 DEF Copied
      <3> QED BY <1>5, <2>2, <3>1, <3>2 DEF MirrorBut
    <2> QED BY <2>1, <2>2
  <1> QED BY <1>1, <1>2, <1>3, <1>4, <1>5 DEF Base, t

\* A device may be forgotten at any moment, whatever publications fail.
LEMMA ForgetKeeps ==
    ASSUME NEW s, Base(s), NEW d \in Dev, NEW fails \in SUBSET Regs
    PROVE  LET t == invalidate(s, d, fails)
           IN  /\ Base(t) /\ Forgotten(s, t, d, fails)
               /\ \A X : MirrorBut(s, d, X) => MirrorBut(t, d, {})
  <1> DEFINE t == invalidate(s, d, fails)
             phy == s.devices[d].phy
  <1>1. Forgotten(s, t, d, fails)
    BY ForgetFields DEF Base
  <1> HIDE DEF t
  <1>2. /\ s \in Services /\ t \in Services /\ t.devices = s.devices
        /\ t.pollIndex = s.pollIndex /\ t.confirmed = s.confirmed
        /\ t.cache = [s.cache EXCEPT ![d] = [r \in Regs |-> Invalid]]
        /\ t.online = [s.online EXCEPT ![d] = FALSE]
    BY <1>1, Zenon DEF Forgotten, Base
  <1>3. /\ s.cache \in [Dev -> [Regs -> Entries]] /\ s.online \in [Dev -> BOOLEAN]
        /\ s.devices \in [Dev -> ConfigRecords] /\ s.mirror \in [Dev -> Catalogs]
    BY <1>2 DEF Services
  <1>4. \A e \in Dev : s.devices[e].phy \in Phys /\ s.devices[e].count \in 1 .. RegMax
    BY <1>3 DEF ConfigRecords
  <1>5. /\ \A r \in Regs : t.cache[d][r] = Invalid
        /\ \A e \in Dev : e # d => t.cache[e] = s.cache[e] /\ t.online[e] = s.online[e]
        /\ ~t.online[d]
    BY <1>2, <1>3
  <1>6. ConfigsFit(t)
    BY <1>2 DEF Base, ConfigsFit
  <1>7. CatalogFits(t)
    BY <1>1, <1>2 DEF Base, CatalogFits, Forgotten
  <1>8. WorkerFits(t)
    BY <1>2, <1>5 DEF Base, WorkerFits
  <1>9. EntriesServed(t)
    <2> SUFFICES ASSUME NEW e \in Dev, NEW q \in Regs, t.cache[e][q].valid
                 PROVE  /\ q < s.devices[e].count
                        /\ t.bram[<<s.devices[e].phy, q>>] = t.cache[e][q].value
                        /\ <<s.devices[e].phy, q>> \in t.current
      BY <1>2 DEF EntriesServed
    <2>1. e # d
      BY <1>5 DEF Invalid
    <2>2. s.devices[e].phy # phy
      BY <2>1 DEF Base, ConfigsFit
    <2>3. <<s.devices[e].phy, q>> \in Cells
      BY <1>4 DEF Cells
    <2>4. /\ t.bram[<<s.devices[e].phy, q>>] = s.bram[<<s.devices[e].phy, q>>]
          /\ <<s.devices[e].phy, q>> \in t.current <=> <<s.devices[e].phy, q>> \in s.current
      BY <1>1, <2>2, <2>3 DEF Forgotten
    <2> QED BY <1>5, <2>1, <2>4 DEF Base, EntriesServed
  <1>10. CellsExact(t)
    <2> SUFFICES ASSUME NEW c \in Cells
                 PROVE  /\ (~\E e \in Dev : s.devices[e].phy = c[1] /\ c[2] < s.devices[e].count)
                                => t.bram[c] = Undriven
                        /\ t.bram[c] # Undriven => c \in t.current \cup t.missed
      BY <1>2 DEF CellsExact
    <2>1. CASE c[1] = phy
      BY <1>1, <2>1 DEF Base, CellsExact, Forgotten
    <2>2. CASE c[1] # phy
      BY <1>1, <2>2 DEF Base, CellsExact, Forgotten
    <2> QED BY <2>1, <2>2
  <1>11. ASSUME NEW X, MirrorBut(s, d, X) PROVE MirrorBut(t, d, {})
    <2> SUFFICES ASSUME NEW e \in Dev
                 PROVE  /\ (t.mirror[e].presence = "ready") <=> t.online[e]
                        /\ \A q \in 0 .. s.devices[e].count - 1 :
                              t.mirror[e].entries[q] = t.cache[e][q]
      BY <1>2 DEF MirrorBut
    <2>1. CASE e # d
      BY <1>1, <1>5, <1>11, <2>1 DEF MirrorBut, Forgotten
    <2>2. CASE e = d
      <3>1. \A q \in 0 .. s.devices[d].count - 1 : q \in Regs
        BY <1>4, MdioAssumption DEF Regs
      <3>2. \A q \in 0 .. s.devices[d].count - 1 : t.mirror[d].entries[q] = Invalid
        BY <1>1 DEF Base, CatalogFits, Forgotten
      <3> QED BY <1>1, <1>5, <2>2, <3>1, <3>2 DEF Forgotten
    <2> QED BY <2>1, <2>2
  <1> QED
    BY <1>1, <1>2, <1>6, <1>7, <1>8, <1>9, <1>10, <1>11 DEF Base, t

\* What a write has forgotten before its frame leaves (write_phy): its own
\* register, and the whole device for a RESET.
Silent(s, d, r) ==
    /\ ~s.cache[d][r].valid
    /\ s.bram[<<s.devices[d].phy, r>>] = Undriven \/ <<s.devices[d].phy, r>> \in s.missed
Erased(s, d, r, v) ==
    /\ Silent(s, d, r)
    /\ IsReset(r, v) => ~s.online[d] /\ \A q \in Regs : Silent(s, d, q)

\* Forget keeps the service consistent and leaves register r silent, and
\* after a reset every register of the device.
LEMMA EraseKeeps ==
    ASSUME NEW s, Base(s), MirrorBut(s, 0, {}), NEW d \in Dev, NEW r \in Regs, NEW v \in Words,
           NEW fails \in SUBSET Regs
    PROVE  LET t == Forget(s, d, r, v, fails)
           IN  /\ Base(t) /\ MirrorBut(t, 0, {}) /\ t.devices = s.devices
               /\ Erased(t, d, r, v)
  <1> DEFINE t == Forget(s, d, r, v, fails)
             phy == s.devices[d].phy
  <1>1. \A u, e : MirrorBut(u, e, {}) <=> MirrorBut(u, 0, {})
    BY DEF MirrorBut
  <1>2. /\ s \in Services /\ phy \in Phys
        /\ \A q \in Regs : <<phy, q>> \in Cells
        /\ s.cache \in [Dev -> [Regs -> Entries]] /\ s.online \in [Dev -> BOOLEAN]
    BY DEF Base, Services, ConfigRecords, Cells
  <1>3. CASE IsReset(r, v)
    <2>1. t = invalidate(s, d, fails)
      BY <1>3 DEF Forget
    <2> HIDE DEF t
    <2>2. Base(t) /\ Forgotten(s, t, d, fails) /\ MirrorBut(t, d, {})
      BY <1>1, <2>1, ForgetKeeps
    <2>3. t.devices = s.devices
      BY <2>2 DEF Forgotten
    <2>4. ~t.online[d] /\ \A q \in Regs : t.cache[d][q] = Invalid
      BY <1>2, <2>2 DEF Forgotten
    <2>5. ASSUME NEW q \in Regs PROVE Silent(t, d, q)
      <3>1. <<phy, q>> \in Cells /\ ~t.cache[d][q].valid
        BY <1>2, <2>4 DEF Invalid
      <3>2. t.bram[<<phy, q>>] = Undriven \/ <<phy, q>> \in t.missed
        BY <2>2, <3>1 DEF Forgotten
      <3> QED BY <2>3, <3>1, <3>2 DEF Silent
    <2> QED BY <1>1, <2>2, <2>3, <2>4, <2>5 DEF Erased, t
  <1>4. CASE ~IsReset(r, v)
    <2> DEFINE a == [s EXCEPT !.cache[d][r] = Invalid]
               b == cache_changed(a, d, r)
    <2>1. t = publish(b, phy, r, Undriven, r \notin fails)
      BY <1>4 DEF Forget
    <2>2. Filed(s, a, d, r, Invalid)
      BY <1>2, EntryTypes, EntryFields
    <2> HIDE DEF a
    <2>3. /\ a \in Services /\ a.devices = s.devices /\ a.online = s.online
          /\ a.pollIndex = s.pollIndex /\ a.confirmed = s.confirmed
          /\ a.cache = [s.cache EXCEPT ![d][r] = Invalid]
          /\ a.bram = s.bram /\ a.mirror = s.mirror /\ a.missed = s.missed
          /\ a.current = s.current
      BY <2>2, Zenon DEF Filed, Rest
    <2>4. /\ a.cache[d][r] = Invalid
          /\ \A e \in Dev, q \in Regs : <<e, q>> # <<d, r>> => a.cache[e][q] = s.cache[e][q]
      BY <1>2, <2>3
    <2>5. Base(a)
      <3>1. ConfigsFit(a) /\ CatalogFits(a) /\ WorkerFits(a) /\ CellsExact(a)
        BY <2>3 DEF Base, ConfigsFit, CatalogFits, WorkerFits, CellsExact
      <3>2. EntriesServed(a)
        BY <2>3, <2>4 DEF Base, EntriesServed, Invalid
      <3> QED BY <2>3, <3>1, <3>2 DEF Base
    <2>6. MirrorBut(a, d, {r})
      <3>1. \A e \in Dev : s.devices[e].count \in 1 .. RegMax
        BY <1>2 DEF Services, ConfigRecords
      <3>2. \A e \in Dev : \A q \in 0 .. s.devices[e].count - 1 : q \in Regs
        BY <3>1, MdioAssumption DEF Regs
      <3> QED BY <2>3, <2>4, <3>2 DEF MirrorBut
    <2>7. /\ Base(b) /\ Copied(a, b, d, r) /\ MirrorBut(b, d, {r} \ {r})
      BY <2>5, <2>6, CopyKeeps
    <2>8. MirrorBut(b, 0, {})
      <3>1. {r} \ {r} = {}
        OBVIOUS
      <3> QED BY <1>1, <2>7, <3>1
    <2> HIDE DEF b
    <2>9. b \in Services /\ b.devices = s.devices /\ b.cache[d][r] = Invalid
      BY <2>3, <2>4, <2>7, Zenon DEF Copied, Rest
    <2> DEFINE ok == r \notin fails
    <2>10. ok \in BOOLEAN
      OBVIOUS
    <2>11. Published(b, t, phy, r, Undriven, ok)
      <3>1. t = publish(b, phy, r, Undriven, ok)
        BY <2>1
      <3> HIDE DEF ok, t, phy
      <3> QED BY <1>2, <2>9, <2>10, <3>1, EntryTypes, PublishFields
    <2> HIDE DEF ok, t
    <2>12. /\ t \in Services /\ t.devices = s.devices /\ t.online = b.online
           /\ t.pollIndex = b.pollIndex /\ t.confirmed = b.confirmed
           /\ t.cache = b.cache /\ t.mirror = b.mirror /\ t.current = b.current
      BY <2>9, <2>11, Zenon DEF Published, Rest
    <2>13. /\ t.bram[<<phy, r>>] = Undriven \/ <<phy, r>> \in t.missed
           /\ \A c \in Cells : c # <<phy, r>> => t.bram[c] = b.bram[c]
                                                 /\ (c \in t.missed <=> c \in b.missed)
           /\ \A c \in Cells : t.bram[c] = b.bram[c] \/ t.bram[c] = Undriven
      <3>1. b.bram \in [Cells -> Words] /\ b.missed \subseteq Cells /\ <<phy, r>> \in Cells
        BY <1>2, <2>9 DEF Services
      <3>2. CASE ok
        BY <3>1, <3>2, <2>11 DEF Published
      <3>3. CASE ~ok
        BY <3>1, <3>3, <2>11 DEF Published
      <3> QED BY <3>2, <3>3
    <2>14. ConfigsFit(t) /\ CatalogFits(t) /\ WorkerFits(t) /\ MirrorBut(t, 0, {})
      BY <2>7, <2>8, <2>9, <2>12 DEF Base, ConfigsFit, CatalogFits, WorkerFits, MirrorBut
    <2>15. CellsExact(t)
      BY <2>7, <2>9, <2>12, <2>13 DEF Base, CellsExact
    <2>16. EntriesServed(t)
      <3> SUFFICES ASSUME NEW e \in Dev, NEW q \in Regs, b.cache[e][q].valid
                   PROVE  /\ q < s.devices[e].count
                          /\ t.bram[<<s.devices[e].phy, q>>] = b.cache[e][q].value
                          /\ <<s.devices[e].phy, q>> \in b.current
        BY <2>12 DEF EntriesServed
      <3>1. ~(e = d /\ q = r)
        BY <2>9 DEF Invalid
      <3>2. <<s.devices[e].phy, q>> # <<phy, r>>
        BY <3>1 DEF Base, ConfigsFit
      <3>3. <<s.devices[e].phy, q>> \in Cells
        BY <1>2 DEF Services, ConfigRecords, Cells
      <3>4. t.bram[<<s.devices[e].phy, q>>] = b.bram[<<s.devices[e].phy, q>>]
        BY <2>13, <3>2, <3>3
      <3> QED BY <2>7, <2>9, <3>4 DEF Base, EntriesServed
    <2>17. Erased(t, d, r, v)
      BY <1>4, <2>9, <2>12, <2>13 DEF Erased, Silent, Invalid
    <2> QED
      BY <2>12, <2>14, <2>15, <2>16, <2>17 DEF Base, t
  <1> QED BY <1>3, <1>4

\* Presetting registers keeps the invariant, however far it comes.
LEMMA SeedKeeps ==
    ASSUME NEW s, Base(s), MirrorBut(s, 0, {}), NEW d \in Dev,
           NEW n \in 0 .. Len(s.devices[d].settings)
    PROVE  LET t == seed(s, d, n)
           IN  Base(t) /\ MirrorBut(t, 0, {})
  <1> DEFINE t == seed(s, d, n)
             c == s.devices[d]
  <1>1. Planted(s, t, d, n)
    BY SeedFields DEF Base, CatalogFits
  <1> HIDE DEF t
  <1>2. /\ s \in Services /\ t \in Services /\ t.devices = s.devices /\ t.online = s.online
        /\ t.pollIndex = s.pollIndex /\ t.confirmed = s.confirmed
    BY <1>1, Zenon DEF Planted, Rest, Base
  <1>3. /\ s.devices \in [Dev -> ConfigRecords] /\ s.missed \subseteq Cells
        /\ s.current \subseteq Cells
    BY <1>2 DEF Services
  <1>4. \A e \in Dev : s.devices[e].phy \in Phys /\ s.devices[e].count \in 1 .. RegMax
    BY <1>3 DEF ConfigRecords
  <1>5. Len(c.settings) \in Nat /\ DOMAIN c.settings = 1 .. Len(c.settings)
    BY <1>3 DEF ConfigRecords
  <1>6. \A r : Named(c, n, r) => r < c.count
    <2>1. \A i \in DOMAIN c.settings : c.settings[i].reg < c.count
      BY DEF Base, ConfigsFit, bvstk_mdio_config_validate
    <2>2. \A i \in 1 .. n : i \in DOMAIN c.settings
      BY <1>5
    <2> HIDE DEF c
    <2> QED BY <2>1, <2>2 DEF Named
  <1>7. ConfigsFit(t) /\ WorkerFits(t)
    BY <1>2 DEF Base, ConfigsFit, WorkerFits
  <1>8. CatalogFits(t)
    BY <1>1, <1>2 DEF Base, CatalogFits, Planted
  <1>9. EntriesServed(t)
    <2> SUFFICES ASSUME NEW e \in Dev, NEW q \in Regs, t.cache[e][q].valid
                 PROVE  /\ q < s.devices[e].count
                        /\ t.bram[<<s.devices[e].phy, q>>] = t.cache[e][q].value
                        /\ <<s.devices[e].phy, q>> \in t.current
      BY <1>2 DEF EntriesServed
    <2>1. CASE e = d /\ Named(c, n, q)
      <3>1. t.cache[d][q] = Seeded(t.bram[<<c.phy, q>>]) /\ <<c.phy, q>> \in t.current
        BY <1>1, <2>1 DEF Planted
      <3> QED BY <1>6, <2>1, <3>1 DEF Seeded
    <2>2. CASE ~(e = d /\ Named(c, n, q))
      <3> DEFINE x == <<s.devices[e].phy, q>>
      <3>1. x \in Cells /\ x[1] = s.devices[e].phy /\ x[2] = q
        BY <1>4 DEF Cells
      <3>2. ~(x[1] = c.phy /\ Named(c, n, x[2]))
        BY <2>2, <3>1 DEF Base, ConfigsFit
      <3>3. t.cache[e][q] = s.cache[e][q]
        BY <1>1, <2>2 DEF Planted
      <3> HIDE DEF x
      <3>4. t.bram[x] = s.bram[x] /\ (x \in s.current <=> x \in t.current)
        BY <1>1, <3>1, <3>2 DEF Planted
      <3> QED BY <3>3, <3>4 DEF Base, EntriesServed, x
    <2> QED BY <2>1, <2>2
  <1>10. CellsExact(t)
    <2> SUFFICES ASSUME NEW x \in Cells
                 PROVE  /\ (~\E e \in Dev : s.devices[e].phy = x[1] /\ x[2] < s.devices[e].count)
                                => t.bram[x] = Undriven
                        /\ t.bram[x] # Undriven => x \in t.current \cup t.missed
      BY <1>2 DEF CellsExact
    <2>1. CASE x[1] = c.phy /\ Named(c, n, x[2])
      <3>1. x = <<c.phy, x[2]>> /\ x[2] \in Regs
        BY <2>1 DEF Cells
      <3>2. x \in t.current
        BY <1>1, <2>1, <3>1 DEF Planted
      <3> QED BY <1>6, <2>1, <3>2
    <2>2. CASE ~(x[1] = c.phy /\ Named(c, n, x[2]))
      BY <1>1, <2>2 DEF Base, CellsExact, Planted
    <2> QED BY <2>1, <2>2
  <1>11. MirrorBut(t, 0, {})
    <2> SUFFICES ASSUME NEW e \in Dev
                 PROVE  /\ (t.mirror[e].presence = "ready") <=> s.online[e]
                        /\ \A q \in 0 .. s.devices[e].count - 1 :
                              t.mirror[e].entries[q] = t.cache[e][q]
      BY <1>2 DEF MirrorBut
    <2>1. CASE e # d
      BY <1>1, <2>1 DEF MirrorBut, Planted
    <2>2. CASE e = d
      <3>1. \A q \in 0 .. c.count - 1 : q \in Regs
        BY <1>4, MdioAssumption DEF Regs
      <3>2. DOMAIN s.mirror[d].entries = 0 .. c.count - 1
        BY DEF Base, CatalogFits
      <3>3. /\ t.mirror[d].presence = s.mirror[d].presence
            /\ (s.mirror[d].presence = "ready") <=> s.online[d]
        BY <1>1 DEF Planted, MirrorBut
      <3>4. ASSUME NEW q \in 0 .. c.count - 1
            PROVE  t.mirror[d].entries[q] = t.cache[d][q]
        <4>1. s.mirror[d].entries[q] = s.cache[d][q]
          BY DEF MirrorBut
        <4>2. t.mirror[d].entries[q] = IF Named(c, n, q) THEN t.cache[d][q]
                                       ELSE s.mirror[d].entries[q]
          BY <1>1, <3>2 DEF Planted
        <4>3. ~Named(c, n, q) => t.cache[d][q] = s.cache[d][q]
          BY <1>1, <3>1 DEF Planted
        <4> QED BY <4>1, <4>2, <4>3
      <3> QED BY <2>2, <3>3, <3>4
    <2> QED BY <2>1, <2>2
  <1> QED BY <1>2, <1>7, <1>8, <1>9, <1>10, <1>11 DEF Base, t

\* bvstk_cache_define makes the catalog of a device a copy of its cache.
LEMMA ConfigureKeeps ==
    ASSUME NEW s \in Services, NEW d \in Dev, ConfigsFit(s), EntriesServed(s), CellsExact(s),
           WorkerFits(s),
           \A e \in Dev : e # d =>
               /\ DOMAIN s.mirror[e].entries = 0 .. s.devices[e].count - 1
               /\ (s.mirror[e].presence = "ready") <=> s.online[e]
               /\ \A r \in 0 .. s.devices[e].count - 1 : s.mirror[e].entries[r] = s.cache[e][r]
    PROVE  LET t == configure_mdio(s, d)
           IN  Base(t) /\ MirrorBut(t, 0, {}) /\ t.devices = s.devices
  <1> DEFINE n == s.devices[d].count
             entries == [r \in 0 .. n - 1 |-> s.cache[d][r]]
             presence == IF s.online[d] THEN "ready" ELSE "unknown"
             m == [presence |-> presence, entries |-> entries]
             t == configure_mdio(s, d)
  <1>1. /\ s.devices \in [Dev -> ConfigRecords] /\ s.cache \in [Dev -> [Regs -> Entries]]
        /\ s.online \in [Dev -> BOOLEAN]
    BY DEF Services
  <1>2. n \in 1 .. RegMax
    BY <1>1 DEF ConfigRecords
  <1>3. \A r \in 0 .. n - 1 : r \in Regs
    BY <1>2, MdioAssumption DEF Regs
  <1>4. entries \in Listings
    <2>1. entries \in [0 .. n - 1 -> Entries]
      BY <1>1, <1>3
    <2> HIDE DEF entries, n
    <2> QED BY <1>2, <2>1 DEF Listings
  <1>5. presence \in Presences /\ (presence = "ready" <=> s.online[d])
    BY DEF Presences
  <1>6. m \in Catalogs /\ m.presence = presence /\ m.entries = entries
    <2> HIDE DEF entries, presence
    <2> QED BY <1>4, <1>5 DEF Catalogs
  <1>7. t = [s EXCEPT !.mirror = [@ EXCEPT ![d] = m]]
    BY DEF configure_mdio
  <1>8. /\ t \in Services /\ t.devices = s.devices /\ t.online = s.online
        /\ t.pollIndex = s.pollIndex /\ t.confirmed = s.confirmed
        /\ t.cache = s.cache /\ t.bram = s.bram /\ t.missed = s.missed
        /\ t.current = s.current /\ t.mirror = [s.mirror EXCEPT ![d] = m]
    <2> HIDE DEF m, t
    <2> QED BY <1>6, <1>7 DEF Services
  <1>9. t.mirror[d] = m /\ \A e \in Dev : e # d => t.mirror[e] = s.mirror[e]
    <2> HIDE DEF m, t
    <2> QED BY <1>8 DEF Services
  <1> HIDE DEF t, m
  <1>10. ConfigsFit(t) /\ EntriesServed(t) /\ CellsExact(t) /\ WorkerFits(t)
    BY <1>8 DEF ConfigsFit, EntriesServed, CellsExact, WorkerFits
  <1>11. DOMAIN m.entries = 0 .. n - 1 /\ \A r \in 0 .. n - 1 : m.entries[r] = s.cache[d][r]
    BY <1>6
  <1> HIDE DEF presence, entries
  <1>12. CatalogFits(t)
    BY <1>8, <1>9, <1>11 DEF CatalogFits
  <1>13. MirrorBut(t, 0, {})
    <2> SUFFICES ASSUME NEW e \in Dev
                 PROVE  /\ (t.mirror[e].presence = "ready") <=> s.online[e]
                        /\ \A q \in 0 .. s.devices[e].count - 1 :
                              t.mirror[e].entries[q] = s.cache[e][q]
      BY <1>8 DEF MirrorBut
    <2>1. CASE e = d
      BY <1>5, <1>6, <1>9, <1>11, <2>1
    <2>2. CASE e # d
      BY <1>9, <2>2
    <2> QED BY <2>1, <2>2
  <1> QED BY <1>8, <1>10, <1>12, <1>13 DEF Base, t

\* What the invariant does not read may change at any moment.
LEMMA FrameKeeps ==
    ASSUME NEW s, Base(s), MirrorBut(s, 0, {}), NEW t \in Services,
           t.devices = s.devices, t.cache = s.cache, t.online = s.online,
           t.pollIndex = s.pollIndex, t.bram = s.bram, t.mirror = s.mirror,
           t.missed = s.missed, t.current = s.current, t.confirmed = s.confirmed
    PROVE  Base(t) /\ MirrorBut(t, 0, {})
  BY DEF Base, MirrorBut, ConfigsFit, CatalogFits, EntriesServed, CellsExact, WorkerFits

\* A configuration that keeps address, register count and polled registers may
\* replace another one in place (policy edits).
LEMMA EditKeeps ==
    ASSUME NEW s, Base(s), MirrorBut(s, 0, {}), NEW d \in Dev, NEW c \in ConfigRecords,
           bvstk_mdio_config_validate(c), c.phy = s.devices[d].phy,
           c.count = s.devices[d].count, c.regs = s.devices[d].regs
    PROVE  LET t == [s EXCEPT !.devices[d] = c]
           IN  /\ Base(t) /\ MirrorBut(t, 0, {})
  <1> DEFINE t == [s EXCEPT !.devices[d] = c]
  <1>1. /\ t \in Services /\ t.devices = [s.devices EXCEPT ![d] = c]
        /\ t.cache = s.cache /\ t.online = s.online
        /\ t.pollIndex = s.pollIndex /\ t.bram = s.bram /\ t.mirror = s.mirror
        /\ t.missed = s.missed /\ t.current = s.current /\ t.confirmed = s.confirmed
        /\ s.devices \in [Dev -> ConfigRecords]
    BY DEF Base, Services
  <1> HIDE DEF t
  <1>2. /\ t.devices[d] = c /\ \A e \in Dev : e # d => t.devices[e] = s.devices[e]
        /\ \A e \in Dev : /\ t.devices[e].phy = s.devices[e].phy
                          /\ t.devices[e].count = s.devices[e].count
                          /\ t.devices[e].regs = s.devices[e].regs
    BY <1>1
  <1>3. ConfigsFit(t)
    BY <1>2 DEF Base, ConfigsFit
  <1>4. CatalogFits(t) /\ EntriesServed(t) /\ WorkerFits(t) /\ MirrorBut(t, 0, {})
    BY <1>1, <1>2 DEF Base, CatalogFits, EntriesServed, WorkerFits, MirrorBut
  <1>5. CellsExact(t)
    BY <1>1, <1>2 DEF Base, CellsExact
  <1> QED BY <1>1, <1>3, <1>4, <1>5 DEF Base, t

\* Adopt replaces the record of a device and restarts its polling round.
LEMMA AdoptFields ==
    ASSUME NEW s \in Services, NEW d \in Dev, NEW c \in ConfigRecords
    PROVE  LET t == Adopt(s, d, c)
           IN  /\ t \in Services
               /\ t.devices[d] = c /\ \A e \in Dev : e # d => t.devices[e] = s.devices[e]
               /\ t.pollIndex[d] = 0 /\ \A e \in Dev : e # d => t.pollIndex[e] = s.pollIndex[e]
               /\ t.cache = s.cache /\ t.online = s.online /\ t.bram = s.bram
               /\ t.mirror = s.mirror /\ t.missed = s.missed /\ t.current = s.current
               /\ t.confirmed = s.confirmed
  <1> DEFINE t == Adopt(s, d, c)
  <1>1. 0 \in 0 .. RegMax - 1
    BY MdioAssumption
  <1>2. t = [s EXCEPT !.devices = [@ EXCEPT ![d] = c], !.pollDue = [@ EXCEPT ![d] = TRUE],
                      !.pollIndex = [@ EXCEPT ![d] = 0]]
    BY DEF Adopt
  <1> HIDE DEF t
  <1>3. /\ t \in Services
        /\ t.devices = [s.devices EXCEPT ![d] = c] /\ t.pollIndex = [s.pollIndex EXCEPT ![d] = 0]
        /\ t.cache = s.cache /\ t.online = s.online /\ t.bram = s.bram
        /\ t.mirror = s.mirror /\ t.missed = s.missed /\ t.current = s.current
        /\ t.confirmed = s.confirmed
    BY <1>1, <1>2 DEF Services
  <1>4. s.devices \in [Dev -> ConfigRecords] /\ s.pollIndex \in [Dev -> 0 .. RegMax - 1]
    BY DEF Services
  <1> QED BY <1>3, <1>4 DEF t

\* set_config without a change of address, count or settings.
LEMMA AdoptKeeps ==
    ASSUME NEW s, Base(s), MirrorBut(s, 0, {}), NEW d \in Dev, NEW c \in ConfigRecords,
           bvstk_mdio_config_validate(c), ~changed(s.devices[d], c)
    PROVE  LET t == configure_mdio(Adopt(s, d, c), d)
           IN  Base(t) /\ MirrorBut(t, 0, {})
  <1> DEFINE a == Adopt(s, d, c)
  <1>1. /\ a \in Services
        /\ a.devices[d] = c /\ \A e \in Dev : e # d => a.devices[e] = s.devices[e]
        /\ a.pollIndex[d] = 0 /\ \A e \in Dev : e # d => a.pollIndex[e] = s.pollIndex[e]
        /\ a.cache = s.cache /\ a.online = s.online /\ a.bram = s.bram
        /\ a.mirror = s.mirror /\ a.missed = s.missed /\ a.current = s.current
        /\ a.confirmed = s.confirmed
    BY AdoptFields DEF Base
  <1> HIDE DEF a
  <1>2. \A e \in Dev : a.devices[e].phy = s.devices[e].phy /\ a.devices[e].count = s.devices[e].count
    BY <1>1 DEF changed
  <1>3. ConfigsFit(a)
    BY <1>1, <1>2 DEF Base, ConfigsFit
  <1>4. EntriesServed(a)
    BY <1>1, <1>2 DEF Base, EntriesServed
  <1>5. CellsExact(a)
    BY <1>1, <1>2 DEF Base, CellsExact
  <1>6. WorkerFits(a)
    BY <1>1, <1>2 DEF Base, WorkerFits
  <1>7. \A e \in Dev : e # d =>
               /\ DOMAIN a.mirror[e].entries = 0 .. a.devices[e].count - 1
               /\ (a.mirror[e].presence = "ready") <=> a.online[e]
               /\ \A r \in 0 .. a.devices[e].count - 1 : a.mirror[e].entries[r] = a.cache[e][r]
    BY <1>1 DEF Base, CatalogFits, MirrorBut
  <1>8. Base(configure_mdio(a, d)) /\ MirrorBut(configure_mdio(a, d), 0, {})
    BY <1>1, <1>3, <1>4, <1>5, <1>6, <1>7, ConfigureKeeps
  <1> QED BY <1>8 DEF a

\* set_config of a device that moves: whichever publication fails, nothing of
\* the old address is left and nothing of the new one is shown too early.
LEMMA MoveKeeps ==
    ASSUME NEW s, Base(s), MirrorBut(s, 0, {}), NEW d \in Dev, NEW c \in ConfigRecords,
           bvstk_mdio_config_validate(c), \A e \in Dev \ {d} : s.devices[e].phy # c.phy,
           NEW f1 \in SUBSET Regs, NEW f2 \in SUBSET Regs, NEW n \in 0 .. Len(c.settings)
    PROVE  Base(Move(s, d, c, f1, f2, n)) /\ MirrorBut(Move(s, d, c, f1, f2, n), 0, {})
  <1> DEFINE old == invalidate(s, d, f1)
             a == Adopt(old, d, c)
             b == configure_mdio(a, d)
             new == invalidate(b, d, f2)
  <1>1. \A u, e : MirrorBut(u, e, {}) <=> MirrorBut(u, 0, {})
    BY DEF MirrorBut
  <1>2. Base(old) /\ Forgotten(s, old, d, f1) /\ MirrorBut(old, 0, {})
    BY <1>1, ForgetKeeps
  <1>3. Move(s, d, c, f1, f2, n) = IF f1 # {} THEN old ELSE IF f2 # {} THEN new ELSE seed(new, d, n)
    BY DEF Move
  <1>4. CASE f1 = {}
    <2> HIDE DEF old
    <2>1. /\ a \in Services
          /\ a.devices[d] = c /\ \A e \in Dev : e # d => a.devices[e] = old.devices[e]
          /\ a.pollIndex[d] = 0 /\ \A e \in Dev : e # d => a.pollIndex[e] = old.pollIndex[e]
          /\ a.cache = old.cache /\ a.online = old.online /\ a.bram = old.bram
          /\ a.mirror = old.mirror /\ a.missed = old.missed /\ a.current = old.current
          /\ a.confirmed = old.confirmed
      BY <1>2, AdoptFields DEF Base
    <2>2. /\ old.devices = s.devices
          /\ \A r \in Regs : old.cache[d][r] = Invalid
          /\ ~old.online[d]
      <3>1. s.cache \in [Dev -> [Regs -> Entries]] /\ s.online \in [Dev -> BOOLEAN]
        BY DEF Base, Services
      <3> QED BY <1>2, <3>1 DEF Forgotten
    <2> HIDE DEF a
    <2>3. ConfigsFit(a)
      BY <2>1, <2>2 DEF Base, ConfigsFit
    <2>4. EntriesServed(a)
      BY <1>2, <2>1, <2>2 DEF Base, EntriesServed, Invalid
    <2>5. CellsExact(a)
      <3> SUFFICES ASSUME NEW x \in Cells
                   PROVE  /\ (~\E e \in Dev : a.devices[e].phy = x[1] /\ x[2] < a.devices[e].count)
                                => old.bram[x] = Undriven
                          /\ old.bram[x] # Undriven => x \in old.current \cup old.missed
        BY <2>1 DEF CellsExact
      <3>1. CASE x[1] = s.devices[d].phy
        BY <1>2, <1>4, <3>1 DEF Base, CellsExact, Forgotten
      <3>2. CASE x[1] # s.devices[d].phy
        <4>1. (~\E e \in Dev : a.devices[e].phy = x[1] /\ x[2] < a.devices[e].count)
                 => ~\E e \in Dev : old.devices[e].phy = x[1] /\ x[2] < old.devices[e].count
          BY <2>1, <2>2, <3>2
        <4> QED BY <1>2, <4>1 DEF Base, CellsExact
      <3> QED BY <3>1, <3>2
    <2>6. WorkerFits(a)
      BY <1>2, <2>1, <2>2 DEF Base, WorkerFits
    <2>7. \A e \in Dev : e # d =>
               /\ DOMAIN a.mirror[e].entries = 0 .. a.devices[e].count - 1
               /\ (a.mirror[e].presence = "ready") <=> a.online[e]
               /\ \A r \in 0 .. a.devices[e].count - 1 : a.mirror[e].entries[r] = a.cache[e][r]
      BY <1>2, <2>1 DEF Base, CatalogFits, MirrorBut
    <2>8. Base(b) /\ MirrorBut(b, 0, {}) /\ b.devices[d] = c
      BY <2>1, <2>3, <2>4, <2>5, <2>6, <2>7, ConfigureKeeps
    <2> HIDE DEF b
    <2>9. Base(new) /\ MirrorBut(new, 0, {}) /\ new.devices[d] = c
      <3>1. Base(new) /\ Forgotten(b, new, d, f2) /\ MirrorBut(new, d, {})
        BY <1>1, <2>8, ForgetKeeps
      <3> QED BY <1>1, <2>8, <3>1 DEF Forgotten
    <2> HIDE DEF new
    <2>10. Base(seed(new, d, n)) /\ MirrorBut(seed(new, d, n), 0, {})
      BY <2>9, SeedKeeps
    <2> QED BY <1>3, <1>4, <2>9, <2>10
  <1>5. CASE f1 # {}
    BY <1>2, <1>3, <1>5
  <1> QED BY <1>4, <1>5

-----------------------------------------------------------------------------
(* The inductive invariant and its steps.                                  *)

\* What the holder of the mutex relies on: the register it writes is declared,
\* what it held is forgotten before the frame leaves, and the policy that
\* allowed the frame is the one in force.
\* What the holder of the mutex relies on between two of its steps.
JobFits ==
    /\ job \in Jobs \cup Writes
    /\ job.pc = "clear" => job.taken < TakeMax
    /\ job.pc \in {"dispatch", "verify"} =>
          /\ job.reg < svc.devices[job.dev].count
          /\ job.next.pc \in {"idle", "scan"}
    /\ job.pc = "dispatch" =>
          /\ bvstk_mdio_policy_allows(svc.devices[job.dev], job.reg, job.word)
          /\ Erased(svc, job.dev, job.reg, job.word)

Inv ==
    /\ Base(svc) /\ MirrorBut(svc, 0, {})
    /\ mailbox \in [Cells -> SUBSET Words]
    /\ JobFits

\* The record of a job tells its shape.
LEMMA JobShape ==
    ASSUME JobFits
    PROVE  /\ job.pc = "scan" => job.left \in 0 .. CellCount /\ job.taken \in 0 .. TakeMax
           /\ job.pc = "poll" => job.left \in 0 .. DeviceCount
           /\ job.pc = "clear" => /\ job.cell \in Cells /\ job.word \in Words
                                  /\ job.left \in 0 .. CellCount /\ job.taken \in 0 .. TakeMax
           /\ job.pc \in {"dispatch", "verify"} => job \in Writes
           /\ job.pc \in {"idle", "scan", "poll", "clear", "dispatch", "verify"}
  BY DEF JobFits, Jobs, Writes, Idle

\* The scan covers a finite, nonempty number of cells.
LEMMA CellCountType ==
    /\ CellCount \in Nat \ {0}
    /\ 0 \in Dev
  <1>1. PhyCount \in Nat \ {0} /\ RegMax \in Nat \ {0} /\ DeviceCount \in Nat \ {0}
    BY MdioAssumption
  <1>2. \A a, b \in Nat \ {0} : a * b \in Nat \ {0}
    OBVIOUS
  <1> QED BY <1>1, <1>2 DEF CellCount, Dev

\* Cells are numbered address by address.
LEMMA CellAtType ==
    ASSUME NEW i \in 0 .. CellCount - 1
    PROVE  CellAt(i) \in Cells
  <1>1. PhyCount \in Nat \ {0} /\ RegMax \in Nat \ {0} /\ i \in Nat /\ i < PhyCount * RegMax
    BY CellCountType, MdioAssumption DEF CellCount
  <1> DEFINE q == i \div RegMax
             m == i % RegMax
  <1>2. q \in Nat /\ m \in 0 .. RegMax - 1 /\ i = RegMax * q + m
    BY <1>1
  <1> HIDE DEF q, m
  <1>3. q < PhyCount
    <2> SUFFICES ASSUME q >= PhyCount PROVE FALSE
      BY <1>1, <1>2
    <2>1. RegMax * q >= RegMax * PhyCount
      BY <1>1, <1>2
    <2> QED BY <1>1, <1>2, <2>1
  <1> QED BY <1>1, <1>2, <1>3 DEF CellAt, Cells, Phys, Regs, q, m

\* Jobs the actions leave behind.
LEMMA JobTypes ==
    /\ Idle \in Jobs /\ Idle.pc = "idle"
    /\ \A l \in 0 .. CellCount, k \in 0 .. TakeMax : Scan(l, k) \in Jobs /\ Scan(l, k).pc = "scan"
    /\ \A l \in 0 .. DeviceCount : Poll(l) \in Jobs /\ Poll(l).pc = "poll"
    /\ \A x \in Cells, w \in Words, l \in 0 .. CellCount, k \in 0 .. TakeMax :
          [pc |-> "clear", cell |-> x, word |-> w, left |-> l, taken |-> k] \in Jobs
    /\ DeviceCount \in 0 .. DeviceCount /\ 0 \in 0 .. TakeMax /\ CellCount \in 0 .. CellCount
    /\ 0 \in 0 .. CellCount
  BY CellCountType, MdioAssumption DEF Jobs, Idle, Scan, Poll

\* A job that writes nothing asks nothing of the service.
LEMMA PlainJob ==
    ASSUME job' \in Jobs, job'.pc # "clear"
    PROVE  JobFits'
  BY DEF JobFits, Jobs, Idle

\* The worker's bookkeeping, and the clock, leave what matters alone.
LEMMA FrameStep ==
    ASSUME Inv, NEW t \in Services, svc' = t,
           t.devices = svc.devices, t.cache = svc.cache, t.online = svc.online,
           t.pollIndex = svc.pollIndex, t.bram = svc.bram, t.mirror = svc.mirror,
           t.missed = svc.missed, t.current = svc.current, t.confirmed = svc.confirmed,
           mailbox' \in [Cells -> SUBSET Words],
           job' = job \/ JobFits'
    PROVE  Inv'
  <1>1. Base(t) /\ MirrorBut(t, 0, {})
    BY FrameKeeps DEF Inv
  <1>2. JobFits'
    <2> SUFFICES ASSUME job' = job PROVE JobFits'
      OBVIOUS
    <2> QED BY DEF Inv, JobFits, Erased, Silent
  <1> QED BY <1>1, <1>2 DEF Inv

\* The worker begins a round.
LEMMA StepBeginStep == ASSUME Inv, StepBegin PROVE Inv'
  <1>1. JobFits'
    BY JobTypes, PlainJob DEF StepBegin, Scan
  <1> QED BY <1>1 DEF Inv, StepBegin

\* The worker takes a read request of the host.
LEMMA TakeReadStep == ASSUME Inv, TakeRead PROVE Inv'
  <1> DEFINE At(k) == CellAt((svc.scan + k) % CellCount)
  <1>1. /\ job.pc = "scan" /\ job.left \in 0 .. CellCount /\ job.taken \in 0 .. TakeMax
        /\ job.taken < TakeMax /\ mailbox' = mailbox
    BY JobShape DEF Inv, TakeRead
  <1>2. svc \in Services /\ svc.scan \in 0 .. CellCount - 1
    BY DEF Inv, Base, Services
  <1>3. \A k \in 0 .. job.left :
           /\ (svc.scan + k) % CellCount \in 0 .. CellCount - 1
           /\ (svc.scan + k + 1) % CellCount \in 0 .. CellCount - 1
    BY <1>1, <1>2, CellCountType
  <1>4. \A k \in 0 .. job.left : At(k) \in Cells
    BY <1>3, CellAtType
  <1> HIDE DEF At
  <1>5. \E x \in 0 .. CellCount - 1 : svc' = [svc EXCEPT !.scan = x]
    BY <1>3 DEF TakeRead
  <1>6. PICK x \in 0 .. CellCount - 1 : svc' = [svc EXCEPT !.scan = x]
    BY <1>5
  <1>7. /\ svc' \in Services /\ svc'.devices = svc.devices /\ svc'.cache = svc.cache
        /\ svc'.online = svc.online /\ svc'.pollIndex = svc.pollIndex
        /\ svc'.bram = svc.bram /\ svc'.mirror = svc.mirror /\ svc'.missed = svc.missed
        /\ svc'.current = svc.current /\ svc'.confirmed = svc.confirmed
    BY <1>2, <1>6 DEF Services
  <1>8. JobFits'
    <2>1. PICK k \in 0 .. job.left :
             \/ job' = Scan(0, job.taken)
             \/ /\ k < job.left
                /\ \/ \E v \in mailbox[At(k)] :
                         job' = [pc |-> "clear", cell |-> At(k), word |-> v,
                                 left |-> job.left - k - 1, taken |-> job.taken]
                   \/ job' = Poll(DeviceCount)
      BY DEF TakeRead, At
    <2>2. CASE job' = Scan(0, job.taken)
      BY <1>1, <2>2, JobTypes, PlainJob DEF Scan
    <2>3. CASE job' = Poll(DeviceCount)
      BY <2>3, JobTypes, PlainJob DEF Poll
    <2>4. ASSUME k < job.left, NEW v \in mailbox[At(k)],
                 job' = [pc |-> "clear", cell |-> At(k), word |-> v,
                         left |-> job.left - k - 1, taken |-> job.taken]
          PROVE  JobFits'
      <3>1. v \in Words
        BY <1>4 DEF Inv
      <3>2. job.left - k - 1 \in 0 .. CellCount
        BY <1>1, <2>4, CellCountType
      <3>3. job' \in Jobs
        BY <1>1, <1>4, <2>4, <3>1, <3>2, JobTypes
      <3>4. job'.pc = "clear" /\ job'.taken = job.taken
        BY <2>4
      <3> QED BY <1>1, <3>3, <3>4 DEF JobFits
    <2> QED BY <2>1, <2>2, <2>3, <2>4
  <1> QED
    BY <1>1, <1>7, <1>8, FrameStep DEF Inv

\* The scan has found no request.
LEMMA ScanEndStep == ASSUME Inv, ScanEnd PROVE Inv'
  <1>1. JobFits'
    BY JobTypes, PlainJob DEF ScanEnd, Poll
  <1> QED BY <1>1 DEF Inv, ScanEnd

\* The start of a write, from the mailbox or from a task.
LEMMA BeginWriteStep ==
    ASSUME Inv, NEW d \in Dev, NEW r \in Regs, NEW v \in Words, NEW next \in Jobs,
           next.pc \in {"idle", "scan"}, BeginWrite(d, r, v, next),
           mailbox' \in [Cells -> SUBSET Words]
    PROVE  Inv'
  <1>1. CASE bvstk_mdio_policy_allows(svc.devices[d], r, v)
    <2>1. PICK fails \in FailureSets : svc' = Forget(svc, d, r, v, fails)
      BY <1>1 DEF BeginWrite
    <2>2. job' = [pc |-> "dispatch", dev |-> d, reg |-> r, word |-> v, next |-> next]
      BY <1>1 DEF BeginWrite
    <2>3. fails \in SUBSET Regs
      BY MdioAssumption
    <2>4. /\ Base(svc') /\ MirrorBut(svc', 0, {}) /\ svc'.devices = svc.devices
          /\ Erased(svc', d, r, v)
      BY <2>1, <2>3, EraseKeeps DEF Inv
    <2>5. job' \in Writes /\ job'.pc = "dispatch" /\ job'.dev = d /\ job'.reg = r
          /\ job'.word = v /\ job'.next = next
      BY <2>2 DEF Writes
    <2>6. r < svc.devices[d].count
      BY <1>1 DEF bvstk_mdio_policy_allows
    <2>7. JobFits'
      BY <1>1, <2>4, <2>5, <2>6 DEF JobFits
    <2> QED BY <2>4, <2>7 DEF Inv
  <1>2. CASE ~bvstk_mdio_policy_allows(svc.devices[d], r, v)
    <2>1. svc' = svc /\ job' = next
      BY <1>2 DEF BeginWrite
    <2>2. JobFits'
      BY <2>1, PlainJob
    <2> QED BY <2>1, <2>2 DEF Inv
  <1> QED BY <1>1, <1>2

\* The worker clears a request it has taken.
LEMMA TakeClearStep == ASSUME Inv, TakeClear PROVE Inv'
  <1> DEFINE next == Scan(job.left, job.taken + 1)
  <1>1. /\ job.pc = "clear" /\ job.cell \in Cells /\ job.word \in Words
        /\ job.left \in 0 .. CellCount /\ job.taken \in 0 .. TakeMax /\ job.taken < TakeMax
    BY JobShape DEF Inv, TakeClear, JobFits
  <1>2. job.taken + 1 \in 0 .. TakeMax
    BY <1>1, MdioAssumption
  <1>3. next \in Jobs /\ next.pc = "scan"
    BY <1>1, <1>2, JobTypes
  <1>4. job.cell[2] \in Regs
    BY <1>1 DEF Cells
  <1>5. CASE /\ mailbox' = [mailbox EXCEPT ![job.cell] = {}]
             /\ IF Owners(svc, job.cell[1]) = {}
                THEN job' = next /\ UNCHANGED svc
                ELSE \E d \in Owners(svc, job.cell[1]) :
                        BeginWrite(d, job.cell[2], job.word, next)
    <2>1. mailbox' \in [Cells -> SUBSET Words]
      BY <1>1, <1>5 DEF Inv
    <2>2. CASE job' = next /\ UNCHANGED svc
      <3>1. JobFits'
        BY <1>3, <2>2, PlainJob
      <3> QED BY <2>1, <2>2, <3>1 DEF Inv
    <2>3. ASSUME NEW d \in Owners(svc, job.cell[1]), BeginWrite(d, job.cell[2], job.word, next)
          PROVE  Inv'
      <3>1. d \in Dev
        BY DEF Owners
      <3> HIDE DEF next
      <3> QED BY <1>1, <1>3, <1>4, <2>1, <2>3, <3>1, BeginWriteStep
    <2> QED BY <1>5, <2>2, <2>3
  <1>6. CASE job' = Poll(DeviceCount) /\ UNCHANGED <<svc, mailbox>>
    <2>1. JobFits'
      BY <1>6, JobTypes, PlainJob DEF Poll
    <2> QED BY <1>6, <2>1 DEF Inv
  <1> QED BY <1>5, <1>6 DEF TakeClear

\* The frame leaves: whatever it may have changed has been forgotten.
LEMMA DispatchStep == ASSUME Inv, Dispatch PROVE Inv'
  <1> DEFINE d == job.dev
             phy == svc.devices[d].phy
             reset == IsReset(job.reg, job.word)
             hit == IF reset THEN {phy} \X Regs ELSE {<<phy, job.reg>>}
             confirmed == [e \in Dev |-> IF reset /\ svc.confirmed[e] = phy
                                         THEN NoPhy ELSE svc.confirmed[e]]
             current == svc.current \ hit
  <1>1. job.pc = "dispatch" /\ job \in Writes /\ JobFits /\ mailbox' = mailbox
    BY JobShape DEF Inv, Dispatch
  <1>2. d \in Dev /\ job.reg \in Regs /\ job.word \in Words /\ job.next \in Jobs
    BY <1>1 DEF Writes
  <1>3. /\ Erased(svc, d, job.reg, job.word) /\ job.reg < svc.devices[d].count
        /\ job.next.pc \in {"idle", "scan"}
    BY <1>1 DEF JobFits
  <1>4. /\ svc \in Services /\ svc.devices \in [Dev -> ConfigRecords]
        /\ svc.confirmed \in [Dev -> Phys \cup {NoPhy}] /\ svc.current \subseteq Cells
    BY DEF Inv, Base, Services
  <1>5. \A e \in Dev : svc.devices[e].phy \in Phys
    BY <1>4 DEF ConfigRecords
  <1>6. svc' = [svc EXCEPT !.current = current, !.confirmed = confirmed]
    BY DEF Dispatch
  <1>7. confirmed \in [Dev -> Phys \cup {NoPhy}] /\ current \subseteq Cells
    BY <1>4
  <1>8. /\ svc' \in Services /\ svc'.devices = svc.devices /\ svc'.cache = svc.cache
        /\ svc'.online = svc.online /\ svc'.pollIndex = svc.pollIndex
        /\ svc'.bram = svc.bram /\ svc'.mirror = svc.mirror /\ svc'.missed = svc.missed
        /\ svc'.current = current /\ svc'.confirmed = confirmed
    <2> HIDE DEF current, confirmed
    <2> QED BY <1>4, <1>6, <1>7 DEF Services
  <1>9. \A x \in hit \cap Cells : \E q \in Regs : x = <<phy, q>> /\ Silent(svc, d, q)
    <2>1. CASE reset
      BY <1>3, <2>1 DEF Erased, Cells
    <2>2. CASE ~reset
      BY <1>2, <1>3, <2>2 DEF Erased
    <2> QED BY <2>1, <2>2
  <1> HIDE DEF hit
  <1>10. ConfigsFit(svc') /\ CatalogFits(svc') /\ MirrorBut(svc', 0, {})
    BY <1>8 DEF Inv, Base, ConfigsFit, CatalogFits, MirrorBut
  <1>11. EntriesServed(svc')
    <2> SUFFICES ASSUME NEW e \in Dev, NEW q \in Regs, svc.cache[e][q].valid
                 PROVE  /\ q < svc.devices[e].count
                        /\ svc.bram[<<svc.devices[e].phy, q>>] = svc.cache[e][q].value
                        /\ <<svc.devices[e].phy, q>> \in current
      BY <1>8 DEF EntriesServed
    <2>1. /\ q < svc.devices[e].count
          /\ svc.bram[<<svc.devices[e].phy, q>>] = svc.cache[e][q].value
          /\ <<svc.devices[e].phy, q>> \in svc.current
      BY DEF Inv, Base, EntriesServed
    <2>2. <<svc.devices[e].phy, q>> \notin hit
      <3> SUFFICES ASSUME <<svc.devices[e].phy, q>> \in hit PROVE FALSE
        OBVIOUS
      <3>1. <<svc.devices[e].phy, q>> \in Cells
        BY <1>5 DEF Cells
      <3>2. PICK p \in Regs : <<svc.devices[e].phy, q>> = <<phy, p>> /\ Silent(svc, d, p)
        BY <1>9, <3>1
      <3>3. e = d /\ q = p
        BY <1>2, <3>2 DEF Inv, Base, ConfigsFit
      <3> QED BY <3>2, <3>3 DEF Silent
    <2> QED BY <2>1, <2>2
  <1>12. CellsExact(svc')
    <2> SUFFICES ASSUME NEW x \in Cells
                 PROVE  /\ (~\E e \in Dev : svc.devices[e].phy = x[1] /\ x[2] < svc.devices[e].count)
                                => svc.bram[x] = Undriven
                        /\ svc.bram[x] # Undriven => x \in current \cup svc.missed
      BY <1>8 DEF CellsExact
    <2>1. CASE x \in hit
      <3>1. svc.bram[x] = Undriven \/ x \in svc.missed
        BY <1>9, <2>1 DEF Silent
      <3> QED BY <3>1 DEF Inv, Base, CellsExact
    <2>2. CASE x \notin hit
      BY <2>2 DEF Inv, Base, CellsExact
    <2> QED BY <2>1, <2>2
  <1>13. WorkerFits(svc')
    <2> SUFFICES ASSUME NEW e \in Dev
                 PROVE  /\ svc.online[e] => /\ confirmed[e] = svc.devices[e].phy
                                            /\ svc.devices[e].count >= ProbeMin
                        /\ svc.pollIndex[e] = 0 \/ svc.pollIndex[e] < Len(svc.devices[e].regs)
      BY <1>8 DEF WorkerFits
    <2>1. /\ svc.online[e] => /\ svc.confirmed[e] = svc.devices[e].phy
                              /\ svc.devices[e].count >= ProbeMin
          /\ svc.pollIndex[e] = 0 \/ svc.pollIndex[e] < Len(svc.devices[e].regs)
      BY DEF Inv, Base, WorkerFits
    <2>2. CASE e = d
      BY <1>3, <2>1, <2>2 DEF Erased
    <2>3. CASE e # d
      BY <1>2, <2>1, <2>3 DEF Inv, Base, ConfigsFit
    <2> QED BY <2>2, <2>3
  <1>14. JobFits'
    <2>1. CASE job' = job.next
      BY <1>2, <1>3, <2>1, PlainJob
    <2>2. CASE job' = [job EXCEPT !.pc = "verify"]
      <3>1. /\ job' \in Writes /\ job'.pc = "verify" /\ job'.dev = d /\ job'.reg = job.reg
            /\ job'.next = job.next
        BY <1>1, <2>2 DEF Writes
      <3> QED BY <1>3, <1>8, <3>1 DEF JobFits
    <2> QED BY <2>1, <2>2 DEF Dispatch
  <1> QED
    BY <1>1, <1>8, <1>10, <1>11, <1>12, <1>13, <1>14 DEF Inv, Base

\* A read of a declared register by whoever holds the mutex.
LEMMA FullReadKeeps ==
    ASSUME NEW s, Base(s), MirrorBut(s, 0, {}), NEW d \in Dev, NEW r \in Regs,
           r < s.devices[d].count, NEW reply \in BusReplies, NEW ok \in BOOLEAN,
           NEW okFF \in BOOLEAN
    PROVE  LET t == read_phy(s, d, r, reply, ok, okFF, FALSE)
           IN  Base(t) /\ MirrorBut(t, 0, {}) /\ SameConfig(s, t)
  <1> DEFINE u == read_phy(s, d, r, reply, ok, okFF, TRUE)
             t == read_phy(s, d, r, reply, ok, okFF, FALSE)
  <1>1. \A w, e : MirrorBut(w, e, {}) <=> MirrorBut(w, 0, {})
    BY DEF MirrorBut
  <1>2. s \in Services
    BY DEF Base
  <1>3. Outcome(s, u, d, r, reply, ok) /\ Unseen(s, u) /\ t = cache_changed(u, d, r)
    <2>1. Outcome(s, u, d, r, reply, ok)
      BY <1>2, ReadFields
    <2>2. Unseen(s, u)
      BY <1>2, ReadFields
    <2>3. t = cache_changed(u, d, r)
      BY <1>2, ReadFields
    <2> QED BY <2>1, <2>2, <2>3
  <1> HIDE DEF u, t
  <1>4. /\ Base(u) /\ u.devices = s.devices
        /\ \A X : MirrorBut(s, d, X) => MirrorBut(u, d, X \cup {r})
    BY <1>3, ReadKeeps DEF Unseen
  <1>5. MirrorBut(u, d, {} \cup {r})
    BY <1>1, <1>4
  <1>6. Base(t) /\ t.devices = u.devices /\ MirrorBut(t, d, ({} \cup {r}) \ {r})
    BY <1>3, <1>4, <1>5, CopyKeeps
  <1>7. ({} \cup {r}) \ {r} = {}
    OBVIOUS
  <1> QED BY <1>1, <1>4, <1>6, <1>7 DEF t, SameConfig

\* Resetting the polling round, and the due flags, is always allowed.
LEMMA RoundKeeps ==
    ASSUME NEW s, Base(s), MirrorBut(s, 0, {}), NEW d \in Dev, NEW i \in 0 .. RegMax - 1,
           i = 0 \/ i < Len(s.devices[d].regs), NEW b \in BOOLEAN
    PROVE  LET t == [s EXCEPT !.pollDue[d] = b, !.pollIndex[d] = i]
           IN  Base(t) /\ MirrorBut(t, 0, {})
  <1> DEFINE t == [s EXCEPT !.pollDue[d] = b, !.pollIndex[d] = i]
  <1>1. /\ t \in Services /\ t.devices = s.devices /\ t.cache = s.cache
        /\ t.online = s.online /\ t.pollIndex = [s.pollIndex EXCEPT ![d] = i]
        /\ t.bram = s.bram /\ t.mirror = s.mirror /\ t.missed = s.missed
        /\ t.current = s.current /\ t.confirmed = s.confirmed
        /\ s.pollIndex \in [Dev -> 0 .. RegMax - 1]
    BY DEF Base, Services
  <1> HIDE DEF t
  <1>2. ConfigsFit(t) /\ CatalogFits(t) /\ EntriesServed(t) /\ CellsExact(t) /\ MirrorBut(t, 0, {})
    BY <1>1 DEF Base, ConfigsFit, CatalogFits, EntriesServed, CellsExact, MirrorBut
  <1>3. WorkerFits(t)
    BY <1>1 DEF Base, WorkerFits
  <1> QED BY <1>1, <1>2, <1>3 DEF Base, t

\* A write is verified by reading it back.
LEMMA VerifyStep == ASSUME Inv, Verify PROVE Inv'
  <1>1. job.pc = "verify" /\ job \in Writes /\ JobFits /\ mailbox' = mailbox /\ job' = job.next
    BY JobShape DEF Inv, Verify
  <1>2. /\ job.dev \in Dev /\ job.reg \in Regs /\ job.next \in Jobs
        /\ job.reg < svc.devices[job.dev].count /\ job.next.pc \in {"idle", "scan"}
    BY <1>1 DEF Writes, JobFits
  <1>3. PICK reply \in BusReplies, f1 \in FailureSets, f2 \in FailureSets :
           svc' = [read_phy(svc, job.dev, job.reg, reply,
                            job.reg \notin f1, job.reg \notin f2, FALSE)
                      EXCEPT !.pollDue[job.dev] = TRUE, !.pollIndex[job.dev] = 0]
    BY DEF Verify
  <1> DEFINE ok == job.reg \notin f1
             okFF == job.reg \notin f2
             s == read_phy(svc, job.dev, job.reg, reply, ok, okFF, FALSE)
  <1>4. ok \in BOOLEAN /\ okFF \in BOOLEAN /\ 0 \in 0 .. RegMax - 1
    BY MdioAssumption
  <1>5. Base(s) /\ MirrorBut(s, 0, {})
    <2> HIDE DEF ok, okFF
    <2> QED BY <1>2, <1>4, FullReadKeeps DEF Inv
  <1> HIDE DEF s
  <1>6. Base(svc') /\ MirrorBut(svc', 0, {})
    BY <1>2, <1>3, <1>4, <1>5, RoundKeeps DEF s
  <1>7. JobFits'
    BY <1>1, <1>2, PlainJob
  <1> QED BY <1>1, <1>6, <1>7 DEF Inv

\* poll_device moves on.
LEMMA AdvanceFields ==
    ASSUME NEW s, Base(s), MirrorBut(s, 0, {})
    PROVE  LET t == Advanced(s)
           IN  /\ Base(t) /\ MirrorBut(t, 0, {}) /\ t.devices = s.devices
               /\ t.pollIndex = s.pollIndex
  <1> DEFINE x == (s.pollDevice + 1) % DeviceCount
             t == Advanced(s)
  <1>1. s \in Services /\ s.pollDevice \in 0 .. DeviceCount - 1 /\ DeviceCount \in Nat \ {0}
    BY MdioAssumption DEF Base, Services, Dev
  <1>2. x \in Dev
    BY <1>1 DEF Dev
  <1>3. t = [s EXCEPT !.pollDevice = x]
    BY DEF Advanced
  <1> HIDE DEF x, t
  <1>4. /\ t \in Services /\ t.devices = s.devices /\ t.cache = s.cache
        /\ t.online = s.online /\ t.pollIndex = s.pollIndex /\ t.bram = s.bram
        /\ t.mirror = s.mirror /\ t.missed = s.missed /\ t.current = s.current
        /\ t.confirmed = s.confirmed
    BY <1>1, <1>2, <1>3 DEF Services
  <1> QED BY <1>4, FrameKeeps DEF t

\* The due flag of a probe is not read by the invariant.
LEMMA DueKeeps ==
    ASSUME NEW s, Base(s), MirrorBut(s, 0, {}), NEW d \in Dev, NEW b \in BOOLEAN
    PROVE  LET t == [s EXCEPT !.probeDue[d] = b]
           IN  Base(t) /\ MirrorBut(t, 0, {}) /\ t.devices = s.devices
  <1> DEFINE t == [s EXCEPT !.probeDue[d] = b]
  <1>1. /\ t \in Services /\ t.devices = s.devices /\ t.cache = s.cache
        /\ t.online = s.online /\ t.pollIndex = s.pollIndex /\ t.bram = s.bram
        /\ t.mirror = s.mirror /\ t.missed = s.missed /\ t.current = s.current
        /\ t.confirmed = s.confirmed
    BY DEF Base, Services
  <1> HIDE DEF t
  <1> QED BY <1>1, FrameKeeps DEF t

\* A device with nothing due is passed over in the poll round.
LEMMA SkipStep == ASSUME Inv, Skip PROVE Inv'
  <1>1. job.pc = "poll" /\ job.left \in 0 .. DeviceCount /\ mailbox' = mailbox
    BY JobShape DEF Inv, Skip
  <1>2. CASE job.left > 0 /\ svc' = Advanced(svc) /\ job' = Poll(job.left - 1)
    <2>1. job.left - 1 \in 0 .. DeviceCount
      BY <1>1, <1>2, MdioAssumption
    <2>2. JobFits'
      BY <1>2, <2>1, JobTypes, PlainJob
    <2> QED BY <1>1, <1>2, <2>2, AdvanceFields DEF Inv
  <1>3. CASE job' = Idle /\ UNCHANGED svc
    <2>1. JobFits'
      BY <1>3, JobTypes, PlainJob
    <2> QED BY <1>1, <1>3, <2>1 DEF Inv
  <1> QED BY <1>2, <1>3 DEF Skip

\* An accepted identity makes a device that declares the registers online.
LEMMA AcceptKeeps ==
    ASSUME NEW s, Base(s), MirrorBut(s, 0, {}), NEW d \in Dev, NEW b \in BOOLEAN,
           s.devices[d].count >= ProbeMin
    PROVE  LET t == [s EXCEPT !.pollDue[d] = b, !.online[d] = TRUE,
                              !.mirror[d].presence = "ready",
                              !.confirmed[d] = s.devices[d].phy]
           IN  Base(t) /\ MirrorBut(t, 0, {})
  <1> DEFINE phy == s.devices[d].phy
             m == [s.mirror[d] EXCEPT !.presence = "ready"]
             t == [s EXCEPT !.pollDue[d] = b, !.online[d] = TRUE,
                            !.mirror[d].presence = "ready", !.confirmed[d] = phy]
  <1>1. /\ s \in Services /\ s.mirror \in [Dev -> Catalogs] /\ phy \in Phys
        /\ s.online \in [Dev -> BOOLEAN] /\ s.confirmed \in [Dev -> Phys \cup {NoPhy}]
    BY DEF Base, Services, ConfigRecords
  <1>2. m \in Catalogs /\ m.presence = "ready" /\ m.entries = s.mirror[d].entries
    BY <1>1 DEF Catalogs, Presences
  <1>3. t = [s EXCEPT !.pollDue = [@ EXCEPT ![d] = b], !.online = [@ EXCEPT ![d] = TRUE],
                      !.mirror = [@ EXCEPT ![d] = m], !.confirmed = [@ EXCEPT ![d] = phy]]
    OBVIOUS
  <1>4. /\ t \in Services /\ t.devices = s.devices /\ t.cache = s.cache
        /\ t.online = [s.online EXCEPT ![d] = TRUE] /\ t.pollIndex = s.pollIndex
        /\ t.bram = s.bram /\ t.mirror = [s.mirror EXCEPT ![d] = m]
        /\ t.missed = s.missed /\ t.current = s.current
        /\ t.confirmed = [s.confirmed EXCEPT ![d] = phy]
    <2> HIDE DEF m, t, phy
    <2> QED BY <1>1, <1>2, <1>3 DEF Services
  <1> HIDE DEF t, m
  <1>5. ConfigsFit(t) /\ EntriesServed(t) /\ CellsExact(t)
    BY <1>4 DEF Base, ConfigsFit, EntriesServed, CellsExact
  <1>6. CatalogFits(t)
    BY <1>1, <1>2, <1>4 DEF Base, CatalogFits
  <1>7. WorkerFits(t)
    BY <1>1, <1>4 DEF Base, WorkerFits
  <1>8. MirrorBut(t, 0, {})
    <2> SUFFICES ASSUME NEW e \in Dev
                 PROVE  /\ (t.mirror[e].presence = "ready") <=> t.online[e]
                        /\ \A q \in 0 .. s.devices[e].count - 1 :
                              t.mirror[e].entries[q] = s.cache[e][q]
      BY <1>4 DEF MirrorBut
    <2>1. CASE e = d
      BY <1>1, <1>2, <1>4, <2>1 DEF MirrorBut
    <2>2. CASE e # d
      BY <1>1, <1>4, <2>2 DEF MirrorBut
    <2> QED BY <2>1, <2>2
  <1> QED BY <1>4, <1>5, <1>6, <1>7, <1>8 DEF Base, t, phy

\* A device that is forgotten has no confirmed identity.
LEMMA RefuseKeeps ==
    ASSUME NEW s, Base(s), NEW d \in Dev, NEW fails \in SUBSET Regs, NEW X, MirrorBut(s, d, X)
    PROVE  LET t == [invalidate(s, d, fails) EXCEPT !.confirmed[d] = NoPhy]
           IN  Base(t) /\ MirrorBut(t, 0, {})
  <1> DEFINE u == invalidate(s, d, fails)
             t == [u EXCEPT !.confirmed[d] = NoPhy]
  <1>1. Base(u) /\ Forgotten(s, u, d, fails) /\ MirrorBut(u, d, {})
    BY ForgetKeeps
  <1>2. s.online \in [Dev -> BOOLEAN]
    BY DEF Base, Services
  <1>3. ~u.online[d]
    BY <1>1, <1>2 DEF Forgotten
  <1> HIDE DEF u
  <1>4. /\ t \in Services /\ t.devices = u.devices /\ t.cache = u.cache
        /\ t.online = u.online /\ t.pollIndex = u.pollIndex /\ t.bram = u.bram
        /\ t.mirror = u.mirror /\ t.missed = u.missed /\ t.current = u.current
        /\ t.confirmed = [u.confirmed EXCEPT ![d] = NoPhy]
        /\ u.confirmed \in [Dev -> Phys \cup {NoPhy}]
    BY <1>1 DEF Base, Services
  <1> HIDE DEF t
  <1>5. ConfigsFit(t) /\ EntriesServed(t) /\ CellsExact(t) /\ CatalogFits(t) /\ MirrorBut(t, 0, {})
    BY <1>1, <1>4 DEF Base, ConfigsFit, EntriesServed, CellsExact, CatalogFits, MirrorBut
  <1>6. WorkerFits(t)
    BY <1>1, <1>3, <1>4 DEF Base, WorkerFits
  <1> QED BY <1>4, <1>5, <1>6 DEF Base, t, u

\* One identity register of a probe is read.
LEMMA ProbeReadKeeps ==
    ASSUME NEW s, Base(s), NEW d \in Dev, NEW r \in Regs, r < s.devices[d].count,
           NEW reply \in BusReplies, NEW ok \in BOOLEAN, NEW okFF \in BOOLEAN,
           NEW X, MirrorBut(s, d, X)
    PROVE  LET t == read_phy(s, d, r, reply, ok, okFF, TRUE)
           IN  Base(t) /\ SameConfig(s, t) /\ MirrorBut(t, d, X \cup {r})
  <1> DEFINE t == read_phy(s, d, r, reply, ok, okFF, TRUE)
  <1>1. s \in Services
    BY DEF Base
  <1>2. Outcome(s, t, d, r, reply, ok)
    BY <1>1, ReadFields
  <1>3. Unseen(s, t)
    BY <1>1, ReadFields
  <1> HIDE DEF t
  <1>4. /\ Base(t) /\ t.devices = s.devices
        /\ \A Y : MirrorBut(s, d, Y) => MirrorBut(t, d, Y \cup {r})
    BY <1>2, <1>3, ReadKeeps DEF Unseen
  <1> QED BY <1>4 DEF t, SameConfig

\* A device that is due is probed.
LEMMA ProbeStep == ASSUME Inv, Probe PROVE Inv'
  <1> DEFINE d == PollDevice
  <1>1. /\ job.pc = "poll" /\ ProbeTurn(d) /\ job' = Idle /\ mailbox' = mailbox
    BY DEF Probe
  <1>2. /\ d \in Dev /\ svc \in Services /\ svc.devices[d].count >= ProbeMin
        /\ svc.devices[d].count \in Int
    <2>1. svc \in Services /\ d \in Dev
      BY DEF Inv, Base, Services, PollDevice
    <2>2. svc.devices[d] \in ConfigRecords
      BY <2>1 DEF Services
    <2> HIDE DEF d
    <2> QED BY <1>1, <2>1, <2>2 DEF ProbeTurn, ConfigRecords
  <1>3. /\ IdReg1 \in Regs /\ IdReg2 \in Regs
        /\ IdReg1 < svc.devices[d].count /\ IdReg2 < svc.devices[d].count
    BY <1>2, MdioAssumption DEF Regs
  <1>4. PICK a \in BusReplies, b \in BusReplies, f1 \in FailureSets, f2 \in FailureSets,
             f3 \in FailureSets :
              LET ok1 == a.ok /\ IdReg1 \notin f1
                  ok2 == b.ok /\ IdReg2 \notin f1
                  s1 == read_phy(Advanced(svc), d, IdReg1, a,
                                 IdReg1 \notin f1, IdReg1 \notin f2, TRUE)
                  s2 == IF ok1 THEN read_phy(s1, d, IdReg2, b,
                                             IdReg2 \notin f1, IdReg2 \notin f2, TRUE)
                               ELSE s1
                  shown == cache_changed(cache_changed(s2, d, IdReg1), d, IdReg2)
                  s3 == IF ok1 /\ ok2 /\ IdentityPair(a.word, b.word)
                        THEN [shown EXCEPT !.pollDue[d] = @ \/ ~svc.online[d],
                                           !.online[d] = TRUE,
                                           !.mirror[d].presence = "ready",
                                           !.confirmed[d] = svc.devices[d].phy]
                        ELSE [invalidate(s2, d, f3) EXCEPT !.confirmed[d] = NoPhy]
              IN  svc' = [s3 EXCEPT !.probeDue[d] = FALSE]
    BY DEF Probe
  <1> DEFINE ok1 == a.ok /\ IdReg1 \notin f1
             ok2 == b.ok /\ IdReg2 \notin f1
             u1 == IdReg1 \notin f1
             v1 == IdReg1 \notin f2
             u2 == IdReg2 \notin f1
             v2 == IdReg2 \notin f2
             s0 == Advanced(svc)
             s1 == read_phy(s0, d, IdReg1, a, u1, v1, TRUE)
             r2 == read_phy(s1, d, IdReg2, b, u2, v2, TRUE)
             s2 == IF ok1 THEN r2 ELSE s1
             half == cache_changed(s2, d, IdReg1)
             shown == cache_changed(half, d, IdReg2)
             due == shown.pollDue[d] \/ ~svc.online[d]
             yes == [shown EXCEPT !.pollDue[d] = due, !.online[d] = TRUE,
                                  !.mirror[d].presence = "ready",
                                  !.confirmed[d] = svc.devices[d].phy]
             no == [invalidate(s2, d, f3) EXCEPT !.confirmed[d] = NoPhy]
             s3 == IF ok1 /\ ok2 /\ IdentityPair(a.word, b.word) THEN yes ELSE no
  <1>5. svc' = [s3 EXCEPT !.probeDue[d] = FALSE]
    BY <1>4
  <1>6. u1 \in BOOLEAN /\ v1 \in BOOLEAN /\ u2 \in BOOLEAN /\ v2 \in BOOLEAN /\ due \in BOOLEAN
    OBVIOUS
  <1> HIDE DEF d, u1, u2, v1, v2, due
  <1>7. Base(s0) /\ MirrorBut(s0, d, {}) /\ s0.devices = svc.devices
    <2>1. Base(s0) /\ MirrorBut(s0, 0, {}) /\ s0.devices = svc.devices
      BY AdvanceFields DEF Inv
    <2> QED BY <2>1 DEF MirrorBut
  <1> HIDE DEF s0
  <1>8. Base(s1) /\ s1.devices = svc.devices /\ MirrorBut(s1, d, {} \cup {IdReg1})
    <2>1. d \in Dev /\ IdReg1 \in Regs /\ IdReg1 < s0.devices[d].count
      BY <1>2, <1>3, <1>7
    <2>2. Base(s1)
      BY <1>6, <1>7, <2>1, ProbeReadKeeps
    <2>3. SameConfig(s0, s1)
      BY <1>6, <1>7, <2>1, ProbeReadKeeps
    <2>4. MirrorBut(s1, d, {} \cup {IdReg1})
      BY <1>6, <1>7, <2>1, ProbeReadKeeps
    <2> HIDE DEF s1
    <2> QED BY <1>7, <2>2, <2>3, <2>4 DEF SameConfig
  <1> HIDE DEF s1
  <1>9. /\ Base(r2) /\ r2.devices = svc.devices
        /\ MirrorBut(r2, d, ({} \cup {IdReg1}) \cup {IdReg2})
    <2>1. d \in Dev /\ IdReg2 \in Regs /\ IdReg2 < s1.devices[d].count
      BY <1>2, <1>3, <1>8
    <2>2. Base(r2)
      BY <1>6, <1>8, <2>1, ProbeReadKeeps
    <2>3. SameConfig(s1, r2)
      BY <1>6, <1>8, <2>1, ProbeReadKeeps
    <2>4. MirrorBut(r2, d, ({} \cup {IdReg1}) \cup {IdReg2})
      BY <1>6, <1>8, <2>1, ProbeReadKeeps
    <2> HIDE DEF r2
    <2> QED BY <1>8, <2>2, <2>3, <2>4 DEF SameConfig
  <1> HIDE DEF r2
  <1>10. Base(s2) /\ s2.devices = svc.devices /\ MirrorBut(s2, d, {IdReg1, IdReg2})
    <2>1. MirrorBut(s1, d, {IdReg1, IdReg2})
      BY <1>8 DEF MirrorBut
    <2>2. MirrorBut(r2, d, {IdReg1, IdReg2})
      BY <1>9 DEF MirrorBut
    <2> QED BY <1>8, <1>9, <2>1, <2>2
  <1> HIDE DEF s2, ok1, ok2
  <1>11. Base(half) /\ half.devices = svc.devices /\ MirrorBut(half, d, {IdReg1, IdReg2} \ {IdReg1})
    BY <1>2, <1>3, <1>10, CopyKeeps
  <1> HIDE DEF half
  <1>12. /\ Base(shown) /\ shown.devices = svc.devices
         /\ MirrorBut(shown, d, ({IdReg1, IdReg2} \ {IdReg1}) \ {IdReg2})
    BY <1>2, <1>3, <1>11, CopyKeeps
  <1>13. MirrorBut(shown, 0, {})
    BY <1>12 DEF MirrorBut
  <1> HIDE DEF shown
  <1>14. Base(yes) /\ MirrorBut(yes, 0, {})
    BY <1>2, <1>6, <1>12, <1>13, AcceptKeeps
  <1>15. Base(no) /\ MirrorBut(no, 0, {})
    <2>1. f3 \in SUBSET Regs
      BY MdioAssumption
    <2> QED BY <1>2, <1>10, <2>1, RefuseKeeps
  <1> HIDE DEF yes, no
  <1>16. Base(s3) /\ MirrorBut(s3, 0, {})
    BY <1>14, <1>15
  <1> HIDE DEF s3
  <1>17. Base(svc') /\ MirrorBut(svc', 0, {})
    BY <1>2, <1>5, <1>16, DueKeeps
  <1>18. JobFits'
    BY <1>1, JobTypes, PlainJob
  <1> QED BY <1>1, <1>17, <1>18 DEF Inv

\* A register that is due is polled.
LEMMA AutoPollStep == ASSUME Inv, AutoPoll PROVE Inv'
  <1> DEFINE d == PollDevice
             c == svc.devices[d]
             r == c.regs[svc.pollIndex[d] + 1]
             last == svc.pollIndex[d] + 1 >= Len(c.regs)
  <1>1. job.pc = "poll" /\ PollTurn(d) /\ job' = Idle /\ mailbox' = mailbox
    BY DEF AutoPoll
  <1>2. /\ d \in Dev /\ svc \in Services /\ c.regs # <<>> /\ c.regs \in Seq(Regs)
        /\ svc.pollIndex[d] \in 0 .. RegMax - 1 /\ c.count \in Int
    <2>1. svc \in Services /\ d \in Dev
      BY DEF Inv, Base, Services, PollDevice
    <2>2. c \in ConfigRecords /\ svc.pollIndex[d] \in 0 .. RegMax - 1
      BY <2>1 DEF Services
    <2> HIDE DEF d
    <2>3. c.regs # <<>>
      BY <1>1 DEF PollTurn
    <2> HIDE DEF c
    <2> QED BY <2>1, <2>2, <2>3 DEF ConfigRecords
  <1>3. /\ svc.pollIndex[d] = 0 \/ svc.pollIndex[d] < Len(c.regs)
        /\ Len(c.regs) <= RegMax /\ \A i \in DOMAIN c.regs : c.regs[i] < c.count
    BY <1>2 DEF Inv, Base, WorkerFits, ConfigsFit, bvstk_mdio_config_validate
  <1>4. Len(c.regs) \in Nat /\ Len(c.regs) > 0 /\ DOMAIN c.regs = 1 .. Len(c.regs)
    <2> HIDE DEF c
    <2> QED BY <1>2
  <1>5. svc.pollIndex[d] + 1 \in DOMAIN c.regs
    BY <1>2, <1>3, <1>4
  <1>6. r \in Regs /\ r < c.count
    <2> HIDE DEF c
    <2> QED BY <1>2, <1>3, <1>4, <1>5
  <1>7. PICK reply \in BusReplies, f1 \in FailureSets, f2 \in FailureSets, f3 \in FailureSets :
              LET s1 == read_phy(Advanced(svc), d, r, reply, r \notin f1, r \notin f2, FALSE)
                  s2 == IF reply.ok /\ r \notin f1 THEN s1
                        ELSE [invalidate(s1, d, f3) EXCEPT !.probeDue[d] = FALSE]
              IN  svc' = [s2 EXCEPT !.pollDue[d] = FALSE,
                                    !.pollIndex[d] = IF last THEN 0 ELSE @ + 1]
    BY DEF AutoPoll
  <1> DEFINE ok == r \notin f1
             okFF == r \notin f2
             s0 == Advanced(svc)
             s1 == read_phy(s0, d, r, reply, ok, okFF, FALSE)
             lost == invalidate(s1, d, f3)
             bad == [lost EXCEPT !.probeDue[d] = FALSE]
             s2 == IF reply.ok /\ r \notin f1 THEN s1 ELSE bad
             i == IF last THEN 0 ELSE s2.pollIndex[d] + 1
  <1>8. svc' = [s2 EXCEPT !.pollDue[d] = FALSE, !.pollIndex[d] = i]
    BY <1>7
  <1>9. ok \in BOOLEAN /\ okFF \in BOOLEAN /\ f3 \in SUBSET Regs
    BY MdioAssumption
  <1>10. /\ Base(s0) /\ MirrorBut(s0, 0, {}) /\ s0.devices = svc.devices
         /\ s0.pollIndex = svc.pollIndex
    BY AdvanceFields DEF Inv
  <1> HIDE DEF s0, ok, okFF, r, d
  <1>20. d \in Dev /\ r \in Regs /\ r < s0.devices[d].count
    BY <1>2, <1>6, <1>10
  <1>11. Base(s1) /\ MirrorBut(s1, 0, {}) /\ s1.devices = svc.devices
    <2>1. Base(s1)
      BY <1>20, <1>9, <1>10, FullReadKeeps
    <2>2. MirrorBut(s1, 0, {})
      BY <1>20, <1>9, <1>10, FullReadKeeps
    <2>3. SameConfig(s0, s1)
      BY <1>20, <1>9, <1>10, FullReadKeeps
    <2> HIDE DEF s1
    <2> QED BY <1>10, <2>1, <2>2, <2>3 DEF SameConfig
  <1>12. s1.pollIndex = svc.pollIndex
    <2> DEFINE u == read_phy(s0, d, r, reply, ok, okFF, TRUE)
    <2>1. s0 \in Services /\ DOMAIN s0.mirror[d].entries = 0 .. s0.devices[d].count - 1
      BY <1>2, <1>10 DEF Base, CatalogFits
    <2>2. Outcome(s0, u, d, r, reply, ok)
      BY <1>20, <1>9, <2>1, ReadFields
    <2>3. Unseen(s0, u)
      BY <1>20, <1>9, <2>1, ReadFields
    <2>4. s1 = cache_changed(u, d, r)
      BY <1>20, <1>9, <2>1, ReadFields
    <2> HIDE DEF u, s1
    <2>5. u \in Services /\ u.pollIndex = s0.pollIndex /\ u.devices = s0.devices
      BY <2>2 DEF Outcome, Access, Rest
    <2>6. Copied(u, s1, d, r)
      BY <1>20, <2>1, <2>3, <2>4, <2>5, ChangedFields DEF Unseen
    <2> QED BY <1>10, <2>5, <2>6 DEF Copied, Rest
  <1> HIDE DEF s1
  <1>13. /\ Base(lost) /\ MirrorBut(lost, 0, {}) /\ lost.devices = svc.devices
         /\ lost.pollIndex = svc.pollIndex
    <2>1. MirrorBut(s1, d, {})
      BY <1>11 DEF MirrorBut
    <2>2. Base(lost) /\ Forgotten(s1, lost, d, f3) /\ MirrorBut(lost, d, {})
      BY <1>2, <1>9, <1>11, <2>1, ForgetKeeps
    <2>3. MirrorBut(lost, 0, {})
      BY <2>2 DEF MirrorBut
    <2> HIDE DEF lost
    <2> QED BY <1>11, <1>12, <2>2, <2>3 DEF Forgotten
  <1> HIDE DEF lost
  <1>14. Base(bad) /\ MirrorBut(bad, 0, {}) /\ bad.devices = svc.devices
    BY <1>2, <1>13, DueKeeps
  <1>15. bad.pollIndex = svc.pollIndex
    BY <1>13 DEF Base, Services
  <1> HIDE DEF bad
  <1>16. Base(s2) /\ MirrorBut(s2, 0, {}) /\ s2.devices = svc.devices /\ s2.pollIndex = svc.pollIndex
    BY <1>11, <1>12, <1>14, <1>15
  <1> HIDE DEF s2
  <1>17. i \in 0 .. RegMax - 1 /\ (i = 0 \/ i < Len(s2.devices[d].regs))
    BY <1>2, <1>3, <1>4, <1>16, MdioAssumption
  <1> HIDE DEF i
  <1>18. Base(svc') /\ MirrorBut(svc', 0, {})
    BY <1>2, <1>8, <1>16, <1>17, RoundKeeps
  <1>19. JobFits'
    BY <1>1, JobTypes, PlainJob
  <1> QED BY <1>1, <1>18, <1>19 DEF Inv

-----------------------------------------------------------------------------
(* Calls of other tasks.                                                   *)

\* A client reads through the service.
LEMMA ClientReadStep ==
    ASSUME Inv, NEW d \in Dev, NEW r \in ClientReads, ClientRead(d, r)
    PROVE  Inv'
  <1>1. /\ r \in Regs /\ r < svc.devices[d].count /\ job = Idle /\ job' = job
        /\ mailbox' = mailbox
    BY MdioAssumption DEF ClientRead
  <1>2. PICK reply \in BusReplies, f1 \in FailureSets, f2 \in FailureSets :
           svc' = read_phy(svc, d, r, reply, r \notin f1, r \notin f2, FALSE)
    BY DEF ClientRead
  <1> DEFINE ok == r \notin f1
             okFF == r \notin f2
             s == read_phy(svc, d, r, reply, ok, okFF, FALSE)
  <1>3. ok \in BOOLEAN /\ okFF \in BOOLEAN /\ svc' = s
    BY <1>2
  <1> HIDE DEF ok, okFF
  <1>4. Base(s) /\ MirrorBut(s, 0, {})
    BY <1>1, <1>3, FullReadKeeps DEF Inv
  <1>5. JobFits'
    BY <1>1, JobTypes, PlainJob
  <1> QED BY <1>1, <1>3, <1>4, <1>5 DEF Inv

\* A client writes through the service.
LEMMA ClientWriteStep ==
    ASSUME Inv, NEW d \in Dev, NEW w \in ClientWrites, ClientWrite(d, w[1], w[2])
    PROVE  Inv'
  <1>1. w[1] \in Regs /\ w[2] \in Words
    BY MdioAssumption
  <1>2. BeginWrite(d, w[1], w[2], Idle) /\ mailbox' = mailbox
    BY DEF ClientWrite
  <1>3. mailbox' \in [Cells -> SUBSET Words]
    BY <1>2 DEF Inv
  <1> QED BY <1>1, <1>2, <1>3, JobTypes, BeginWriteStep

\* A client invalidates a cached entry.
LEMMA ClientInvalidateStep ==
    ASSUME Inv, NEW d \in Dev, ClientInvalidate(d)
    PROVE  Inv'
  <1>1. PICK fails \in FailureSets : svc' = invalidate(svc, d, fails)
    BY DEF ClientInvalidate
  <1>2. job = Idle /\ job' = job /\ mailbox' = mailbox /\ fails \in SUBSET Regs
    BY MdioAssumption DEF ClientInvalidate
  <1>3. MirrorBut(svc, d, {})
    BY DEF Inv, MirrorBut
  <1>4. Base(svc') /\ MirrorBut(svc', d, {})
    BY <1>1, <1>2, <1>3, ForgetKeeps DEF Inv
  <1>5. MirrorBut(svc', 0, {})
    BY <1>4 DEF MirrorBut
  <1>6. JobFits'
    BY <1>2, JobTypes, PlainJob
  <1> QED BY <1>2, <1>4, <1>5, <1>6 DEF Inv

\* A configuration is replaced.
LEMMA SetConfigStep ==
    ASSUME Inv, NEW d \in Dev, NEW c \in Configs, SetConfig(d, c)
    PROVE  Inv'
  <1>1. /\ c \in ConfigRecords /\ bvstk_mdio_config_validate(c)
        /\ \A e \in Dev \ {d} : svc.devices[e].phy # c.phy
        /\ job = Idle /\ job' = job /\ mailbox' = mailbox
    BY MdioAssumption DEF SetConfig
  <1>2. CASE changed(svc.devices[d], c)
    <2>1. PICK f1 \in FailureSets, f2 \in FailureSets, n \in 0 .. Len(c.settings) :
             svc' = Move(svc, d, c, f1, f2, n)
      BY <1>2 DEF SetConfig
    <2>2. f1 \in SUBSET Regs /\ f2 \in SUBSET Regs
      BY MdioAssumption
    <2>3. Base(svc') /\ MirrorBut(svc', 0, {})
      BY <1>1, <2>1, <2>2, MoveKeeps DEF Inv
    <2>4. JobFits'
      BY <1>1, JobTypes, PlainJob
    <2> QED BY <1>1, <2>3, <2>4 DEF Inv
  <1>3. CASE ~changed(svc.devices[d], c)
    <2>1. svc' = configure_mdio(Adopt(svc, d, c), d)
      BY <1>3 DEF SetConfig
    <2>2. Base(svc') /\ MirrorBut(svc', 0, {})
      BY <1>1, <1>3, <2>1, AdoptKeeps DEF Inv
    <2>3. JobFits'
      BY <1>1, JobTypes, PlainJob
    <2> QED BY <1>1, <2>2, <2>3 DEF Inv
  <1> QED BY <1>2, <1>3

\* The policy of a device changes.
LEMMA SetPolicyStep ==
    ASSUME Inv, NEW d \in Dev, NEW mode \in Modes, SetPolicy(d, mode)
    PROVE  Inv'
  <1> DEFINE c == [svc.devices[d] EXCEPT !.policy = mode]
  <1>1. job = Idle /\ job' = job /\ mailbox' = mailbox
    BY DEF SetPolicy
  <1>2. svc' = [svc EXCEPT !.devices[d] = c]
    BY DEF SetPolicy
  <1>3. svc.devices[d] \in ConfigRecords
    BY DEF Inv, Base, Services
  <1>4. /\ c \in ConfigRecords /\ c.phy = svc.devices[d].phy /\ c.count = svc.devices[d].count
        /\ c.regs = svc.devices[d].regs /\ c.settings = svc.devices[d].settings
        /\ c.whitelist = svc.devices[d].whitelist /\ c.blacklist = svc.devices[d].blacklist
    BY <1>3 DEF ConfigRecords
  <1>5. bvstk_mdio_config_validate(svc.devices[d])
    BY DEF Inv, Base, ConfigsFit
  <1> HIDE DEF c
  <1>6. bvstk_mdio_config_validate(c)
    BY <1>4, <1>5 DEF bvstk_mdio_config_validate
  <1>7. Base(svc') /\ MirrorBut(svc', 0, {})
    BY <1>2, <1>4, <1>6, EditKeeps DEF Inv
  <1>8. JobFits'
    BY <1>1, JobTypes, PlainJob
  <1> QED BY <1>1, <1>7, <1>8 DEF Inv

\* A list that a configuration may hold.
RuleList(list, count) ==
    /\ list \in Seq(Rules) /\ Len(list) <= RulesMax
    /\ \A i \in DOMAIN list : list[i].reg < count

\* A list of rules is replaced.
LEMMA PutListStep ==
    ASSUME Inv, NEW d \in Dev, NEW mode \in Modes, NEW list,
           RuleList(list, svc.devices[d].count), PutList(d, mode, list),
           job = Idle, UNCHANGED <<mailbox, job>>
    PROVE  Inv'
  <1> DEFINE old == svc.devices[d]
             c == IF mode = "whitelist" THEN [old EXCEPT !.whitelist = list]
                                        ELSE [old EXCEPT !.blacklist = list]
  <1>1. svc' = [svc EXCEPT !.devices[d] = c]
    <2>1. CASE mode = "whitelist"
      BY <2>1 DEF PutList
    <2>2. CASE mode # "whitelist"
      BY <2>2 DEF PutList
    <2> QED BY <2>1, <2>2
  <1>2. old \in ConfigRecords
    BY DEF Inv, Base, Services
  <1>3. bvstk_mdio_config_validate(old)
    BY DEF Inv, Base, ConfigsFit
  <1> HIDE DEF old
  <1>4. /\ c \in ConfigRecords /\ c.phy = old.phy /\ c.count = old.count
        /\ c.regs = old.regs /\ c.settings = old.settings
        /\ c.whitelist = old.whitelist \/ c.whitelist = list
        /\ c.blacklist = old.blacklist \/ c.blacklist = list
    <2>1. list \in Seq(Rules)
      BY DEF RuleList
    <2>2. CASE mode = "whitelist"
      BY <1>2, <2>1, <2>2 DEF ConfigRecords
    <2>3. CASE mode # "whitelist"
      BY <1>2, <2>1, <2>3 DEF ConfigRecords
    <2> QED BY <2>2, <2>3
  <1> HIDE DEF c
  <1>5. bvstk_mdio_config_validate(c)
    <2>1. \A i \in DOMAIN list : list[i].reg < old.count
      BY DEF RuleList, old
    <2>2. Len(list) <= RulesMax
      BY DEF RuleList
    <2> QED BY <1>3, <1>4, <2>1, <2>2 DEF bvstk_mdio_config_validate
  <1>6. Base(svc') /\ MirrorBut(svc', 0, {})
    BY <1>1, <1>4, <1>5, EditKeeps DEF Inv, old
  <1>7. JobFits'
    BY JobTypes, PlainJob
  <1> QED BY <1>6, <1>7 DEF Inv

\* The lists of the current configurations are such lists.
LEMMA CurrentList ==
    ASSUME Inv, NEW d \in Dev, NEW mode \in Modes
    PROVE  /\ RuleList(List(svc.devices[d], mode), svc.devices[d].count)
           /\ RulesMax \in Nat
  <1>1. svc.devices[d] \in ConfigRecords
    BY DEF Inv, Base, Services
  <1>2. bvstk_mdio_config_validate(svc.devices[d])
    BY DEF Inv, Base, ConfigsFit
  <1>3. svc.devices[d].whitelist \in Seq(Rules) /\ svc.devices[d].blacklist \in Seq(Rules)
    BY <1>1 DEF ConfigRecords
  <1> QED BY <1>2, <1>3, MdioAssumption DEF RuleList, List, bvstk_mdio_config_validate

\* A rule is added.
LEMMA RuleAddStep ==
    ASSUME Inv, NEW d \in Dev, NEW mode \in Modes, NEW rule \in EditedRules,
           RuleAdd(d, mode, rule)
    PROVE  Inv'
  <1> DEFINE list == List(svc.devices[d], mode)
             n == svc.devices[d].count
             x == [rule EXCEPT !.val = @ \cap rule.mask]
  <1>1. /\ job = Idle /\ UNCHANGED <<mailbox, job>> /\ rule.reg < n
        /\ With(list, rule) # list => HasRoom(list)
        /\ PutList(d, mode, With(list, rule))
    BY DEF RuleAdd
  <1>2. RuleList(list, n) /\ RulesMax \in Nat
    BY CurrentList
  <1>3. x \in Rules /\ x.reg = rule.reg
    BY MdioAssumption DEF Rules, Words
  <1> HIDE DEF list, n, x
  <1>4. list \in Seq(Rules) /\ Len(list) \in Nat
    BY <1>2 DEF RuleList
  <1>5. RuleList(With(list, rule), n)
    <2>1. CASE With(list, rule) = list
      BY <1>2, <2>1
    <2>2. CASE With(list, rule) # list
      <3>1. With(list, rule) = Append(list, x)
        BY <2>2 DEF With, x
      <3>2. Len(list) < RulesMax
        BY <1>1, <2>2 DEF HasRoom
      <3> HIDE DEF Rules
      <3>3. /\ Append(list, x) \in Seq(Rules)
            /\ Len(Append(list, x)) = Len(list) + 1
            /\ DOMAIN Append(list, x) = 1 .. Len(list) + 1
            /\ \A i \in 1 .. Len(list) : Append(list, x)[i] = list[i]
            /\ Append(list, x)[Len(list) + 1] = x
        BY <1>3, <1>4
      <3>4. ASSUME NEW i \in DOMAIN Append(list, x) PROVE Append(list, x)[i].reg < n
        <4>1. CASE i = Len(list) + 1
          BY <1>1, <1>3, <3>3, <4>1
        <4>2. CASE i # Len(list) + 1
          <5>1. i \in 1 .. Len(list) /\ i \in DOMAIN list
            BY <1>4, <3>3, <4>2
          <5> QED BY <1>2, <3>3, <5>1 DEF RuleList
        <4> QED BY <4>1, <4>2
      <3> QED BY <1>2, <1>4, <3>1, <3>2, <3>3, <3>4 DEF RuleList
    <2> QED BY <2>1, <2>2
  <1> QED BY <1>1, <1>5, PutListStep DEF n

\* A rule is removed.
LEMMA RuleRemoveStep ==
    ASSUME Inv, NEW d \in Dev, NEW mode \in Modes, NEW rule \in EditedRules,
           RuleRemove(d, mode, rule)
    PROVE  Inv'
  <1> DEFINE list == List(svc.devices[d], mode)
             n == svc.devices[d].count
             keep == {i \in DOMAIN list : ~policy_rule_equal(list[i], rule)}
             k == Cardinality(keep)
  <1>1. PICK at \in Without(list, rule) : PutList(d, mode, [i \in DOMAIN at |-> list[at[i]]])
    BY DEF RuleRemove
  <1>2. job = Idle /\ UNCHANGED <<mailbox, job>>
    BY DEF RuleRemove
  <1>3. RuleList(list, n) /\ RulesMax \in Nat
    BY CurrentList
  <1> HIDE DEF list, n
  <1>4. list \in Seq(Rules) /\ Len(list) \in Nat /\ DOMAIN list = 1 .. Len(list)
    <2> HIDE DEF Rules
    <2> QED BY <1>3 DEF RuleList
  <1>5. k \in Nat /\ k <= Len(list)
    <2>1. IsFiniteSet(1 .. Len(list)) /\ Cardinality(1 .. Len(list)) = Len(list)
      BY <1>4, FS_Interval
    <2>2. keep \in SUBSET (1 .. Len(list))
      BY <1>4
    <2> HIDE DEF keep
    <2> QED BY <2>1, <2>2, FS_Subset, FS_CardinalityType
  <1>6. at \in [1 .. k -> keep]
    BY <1>1 DEF Without
  <1> DEFINE new == [i \in DOMAIN at |-> list[at[i]]]
  <1>7. \A i \in 1 .. k : new[i] \in Rules /\ new[i].reg < n
    <2>1. ASSUME NEW i \in 1 .. k PROVE at[i] \in DOMAIN list /\ new[i] = list[at[i]]
      BY <1>6
    <2>2. \A i \in DOMAIN list : list[i] \in Rules /\ list[i].reg < n
      <3> HIDE DEF Rules
      <3> QED BY <1>3, <1>4 DEF RuleList
    <2> HIDE DEF new, keep, k
    <2> QED BY <2>1, <2>2
  <1>8. RuleList(new, n)
    <2>1. DOMAIN new = 1 .. k
      BY <1>6
    <2>2. new \in [1 .. k -> Rules]
      <3> HIDE DEF Rules, k
      <3> QED BY <1>7, <2>1
    <2>3. new \in Seq(Rules) /\ Len(new) = k
      <3> HIDE DEF Rules, new, k
      <3> QED BY <1>5, <2>2
    <2> HIDE DEF new, k
    <2> QED BY <1>3, <1>4, <1>5, <1>7, <2>1, <2>3 DEF RuleList
  <1> HIDE DEF new
  <1>9. PutList(d, mode, new)
    BY <1>1 DEF new
  <1> QED BY <1>2, <1>8, <1>9, PutListStep DEF n

\* The rules are cleared.
LEMMA RuleClearStep ==
    ASSUME Inv, NEW d \in Dev, NEW mode \in Modes, RuleClear(d, mode)
    PROVE  Inv'
  <1>1. RuleList(<<>>, svc.devices[d].count)
    BY MdioAssumption DEF RuleList
  <1> QED BY <1>1, PutListStep DEF RuleClear

\* Time passes: probes and polls become due.
LEMMA TickStep ==
    ASSUME Inv, NEW d \in Dev, Tick(d)
    PROVE  Inv'
  <1>1. svc \in Services /\ job' = job /\ mailbox' = mailbox
    BY DEF Inv, Base, Tick
  <1>2. /\ svc' \in Services /\ svc'.devices = svc.devices /\ svc'.cache = svc.cache
        /\ svc'.online = svc.online /\ svc'.pollIndex = svc.pollIndex
        /\ svc'.bram = svc.bram /\ svc'.mirror = svc.mirror /\ svc'.missed = svc.missed
        /\ svc'.current = svc.current /\ svc'.confirmed = svc.confirmed
    <2>1. CASE svc' = [svc EXCEPT !.probeDue[d] = TRUE]
      BY <1>1, <2>1 DEF Services
    <2>2. CASE svc' = [svc EXCEPT !.pollDue[d] = TRUE]
      BY <1>1, <2>2 DEF Services
    <2> QED BY <2>1, <2>2 DEF Tick
  <1> QED BY <1>1, <1>2, FrameStep DEF Inv

\* The host puts a request into the mailbox.
LEMMA HostWriteStep ==
    ASSUME Inv, NEW w \in HostWrites, HostWrite(w[1], w[2])
    PROVE  Inv'
  <1>1. w[1] \in Cells /\ w[2] \in Words
    BY MdioAssumption
  <1>2. mailbox' \in [Cells -> SUBSET Words]
    BY <1>1 DEF Inv, HostWrite
  <1>3. svc' = svc /\ job' = job
    BY DEF HostWrite
  <1>4. JobFits'
    BY <1>3 DEF Inv, JobFits
  <1> QED BY <1>2, <1>3, <1>4 DEF Inv

\* Boot: the settings are preset and shown, everything else is silent.
LEMMA InitHolds == Init => Inv
  <1> SUFFICES ASSUME Init PROVE Inv
    OBVIOUS
  <1> DEFINE Presets(d) == {i \in DOMAIN Boot[d].settings : TRUE}
             Has(d, r) == \E i \in Presets(d) : Boot[d].settings[i].reg = r
             At(d, r) == CHOOSE i \in Presets(d) : Boot[d].settings[i].reg = r
             Entry(d, r) == IF Has(d, r) THEN Seeded(Boot[d].settings[At(d, r)].val) ELSE Invalid
             Shown(c) == IF \E d \in Dev : Boot[d].phy = c[1] /\ Entry(d, c[2]).valid
                         THEN Entry(CHOOSE d \in Dev : Boot[d].phy = c[1], c[2]).value
                         ELSE Undriven
             cache == [d \in Dev |-> [r \in Regs |-> Entry(d, r)]]
             bram == [c \in Cells |-> Shown(c)]
             mirror == [d \in Dev |-> [presence |-> "unknown",
                            entries |-> [r \in 0 .. Boot[d].count - 1 |-> Entry(d, r)]]]
             current == {c \in Cells : \E d \in Dev : Boot[d].phy = c[1] /\ Entry(d, c[2]).valid}
             falses == [d \in Dev |-> FALSE]
             trues == [d \in Dev |-> TRUE]
             zeros == [d \in Dev |-> 0]
             nobody == [d \in Dev |-> NoPhy]
  <1>1. svc = [devices |-> Boot, cache |-> cache, online |-> falses, probeDue |-> trues,
               pollDue |-> trues, pollIndex |-> zeros, scan |-> 0, pollDevice |-> 0,
               bram |-> bram, mirror |-> mirror, missed |-> {}, current |-> current,
               confirmed |-> nobody]
    BY DEF Init
  <1>2. /\ Boot \in [Dev -> ConfigRecords]
        /\ \A d \in Dev : bvstk_mdio_config_validate(Boot[d])
        /\ \A d, e \in Dev : d # e => Boot[d].phy # Boot[e].phy
        /\ \A d \in Dev : Boot[d].phy \in Phys /\ Boot[d].count \in 1 .. RegMax
    BY MdioAssumption DEF ConfigRecords
  <1>3. ASSUME NEW d \in Dev, NEW r
        PROVE  /\ Entry(d, r) \in Entries
               /\ Entry(d, r).valid => r < Boot[d].count
    <2>1. CASE Has(d, r)
      <3>1. At(d, r) \in DOMAIN Boot[d].settings /\ Boot[d].settings[At(d, r)].reg = r
        BY <2>1
      <3>2. Boot[d] \in ConfigRecords
        BY <1>2
      <3>3. Boot[d].settings \in Seq([reg : Regs, val : Words])
        BY <3>2 DEF ConfigRecords
      <3> DEFINE list == Boot[d].settings
                 S == [reg : Regs, val : Words]
                 i == At(d, r)
      <3>4. list[i] \in S
        <4>1. list \in Seq(S) /\ i \in DOMAIN list
          BY <3>1, <3>3
        <4> HIDE DEF list, S, i
        <4> QED BY <4>1
      <3>5. list[i].val \in Words
        <4> HIDE DEF list, i
        <4> QED BY <3>4
      <3>6. Boot[d].settings[At(d, r)].reg < Boot[d].count
        BY <1>2, <3>1 DEF bvstk_mdio_config_validate
      <3>7. Entry(d, r) = Seeded(list[i].val)
        BY <2>1
      <3> HIDE DEF Entry, list, i
      <3>8. Entry(d, r) \in Entries
        BY <3>5, <3>7, EntryTypes
      <3> QED BY <3>1, <3>6, <3>8
    <2>2. CASE ~Has(d, r)
      <3>1. Entry(d, r) = Invalid
        BY <2>2
      <3> HIDE DEF Entry
      <3> QED BY <3>1, EntryTypes DEF Invalid
    <2> QED BY <2>1, <2>2
  <1> HIDE DEF Entry
  <1>4. ASSUME NEW x \in Entries PROVE x.value \in Words
    BY DEF Entries, Invalid, Seeded, Sampled, Words
  <1>5. ASSUME NEW d \in Dev, NEW r \in Regs, Entry(d, r).valid
        PROVE  /\ <<Boot[d].phy, r>> \in Cells /\ <<Boot[d].phy, r>> \in current
               /\ bram[<<Boot[d].phy, r>>] = Entry(d, r).value
    <2> DEFINE c == <<Boot[d].phy, r>>
    <2>1. c \in Cells /\ c[1] = Boot[d].phy /\ c[2] = r
      BY <1>2 DEF Cells
    <2> HIDE DEF c
    <2>2. (CHOOSE e \in Dev : Boot[e].phy = c[1]) = d
      BY <1>2, <2>1
    <2>3. Shown(c) = Entry(d, r).value
      BY <1>5, <2>1, <2>2
    <2> QED BY <1>5, <2>1, <2>3 DEF c
  <1>6. ASSUME NEW c \in Cells
        PROVE  /\ Shown(c) \in Words
               /\ (~\E d \in Dev : Boot[d].phy = c[1] /\ c[2] < Boot[d].count)
                     => Shown(c) = Undriven
               /\ Shown(c) # Undriven => c \in current
    <2>1. CASE \E d \in Dev : Boot[d].phy = c[1] /\ Entry(d, c[2]).valid
      <3>1. PICK d \in Dev : Boot[d].phy = c[1] /\ Entry(d, c[2]).valid
        BY <2>1
      <3>2. (CHOOSE e \in Dev : Boot[e].phy = c[1]) = d
        BY <1>2, <3>1
      <3>3. Shown(c) = Entry(d, c[2]).value
        BY <3>1, <3>2
      <3>4. Entry(d, c[2]) \in Entries /\ c[2] < Boot[d].count
        BY <1>3, <3>1
      <3> QED BY <1>4, <3>1, <3>3, <3>4
    <2>2. CASE ~\E d \in Dev : Boot[d].phy = c[1] /\ Entry(d, c[2]).valid
      BY <2>2, EntryTypes
    <2> QED BY <2>1, <2>2
  <1> HIDE DEF Shown
  <1>7. cache \in [Dev -> [Regs -> Entries]] /\ bram \in [Cells -> Words] /\ current \subseteq Cells
    BY <1>3, <1>6
  <1>8. mirror \in [Dev -> Catalogs]
    <2> SUFFICES ASSUME NEW d \in Dev PROVE mirror[d] \in Catalogs
      OBVIOUS
    <2> DEFINE entries == [r \in 0 .. Boot[d].count - 1 |-> Entry(d, r)]
    <2>1. entries \in [0 .. Boot[d].count - 1 -> Entries]
      BY <1>3
    <2>2. entries \in Listings
      <3> HIDE DEF entries
      <3> QED BY <1>2, <2>1 DEF Listings
    <2>3. mirror[d] = [presence |-> "unknown", entries |-> entries]
      OBVIOUS
    <2> HIDE DEF entries, mirror
    <2> QED BY <2>2, <2>3 DEF Catalogs, Presences
  <1>9. /\ falses \in [Dev -> BOOLEAN] /\ trues \in [Dev -> BOOLEAN]
        /\ zeros \in [Dev -> 0 .. RegMax - 1] /\ nobody \in [Dev -> Phys \cup {NoPhy}]
        /\ 0 \in 0 .. CellCount - 1 /\ 0 \in Dev
    BY CellCountType, MdioAssumption
  <1>10. /\ svc \in Services /\ svc.devices = Boot /\ svc.cache = cache /\ svc.online = falses
         /\ svc.pollIndex = zeros /\ svc.bram = bram /\ svc.mirror = mirror
         /\ svc.current = current
    <2> HIDE DEF cache, bram, mirror, current, falses, trues, zeros, nobody
    <2> QED BY <1>1, <1>2, <1>7, <1>8, <1>9 DEF Services
  <1>11. ConfigsFit(svc) /\ WorkerFits(svc)
    BY <1>2, <1>10 DEF ConfigsFit, WorkerFits
  <1>12. CatalogFits(svc)
    BY <1>10 DEF CatalogFits
  <1>13. EntriesServed(svc)
    <2> SUFFICES ASSUME NEW d \in Dev, NEW r \in Regs, Entry(d, r).valid
                 PROVE  /\ r < Boot[d].count /\ bram[<<Boot[d].phy, r>>] = Entry(d, r).value
                        /\ <<Boot[d].phy, r>> \in current
      <3> HIDE DEF bram, current
      <3> QED BY <1>10 DEF EntriesServed
    <2> QED BY <1>3, <1>5
  <1>14. CellsExact(svc)
    <2> HIDE DEF current
    <2> QED BY <1>6, <1>10 DEF CellsExact
  <1>15. MirrorBut(svc, 0, {})
    <2>1. \A d \in Dev : \A r \in 0 .. Boot[d].count - 1 : r \in Regs
      BY <1>2, MdioAssumption DEF Regs
    <2> SUFFICES ASSUME NEW e \in Dev
                 PROVE  /\ (mirror[e].presence = "ready") <=> falses[e]
                        /\ \A q \in 0 .. Boot[e].count - 1 :
                             mirror[e].entries[q] = cache[e][q]
      <3> HIDE DEF mirror, cache, falses
      <3> QED BY <1>10 DEF MirrorBut
    <2>2. mirror[e] = [presence |-> "unknown",
                       entries |-> [r \in 0 .. Boot[e].count - 1 |-> Entry(e, r)]]
      OBVIOUS
    <2>3. ~falses[e]
      OBVIOUS
    <2>4. \A q \in Regs : cache[e][q] = Entry(e, q)
      OBVIOUS
    <2> HIDE DEF mirror, cache, falses
    <2> QED BY <2>1, <2>2, <2>3, <2>4
  <1>16. job \in Jobs /\ job.pc = "idle" /\ mailbox \in [Cells -> SUBSET Words]
    BY JobTypes DEF Init
  <1>17. JobFits
    BY <1>16 DEF JobFits
  <1> QED BY <1>10, <1>11, <1>12, <1>13, <1>14, <1>15, <1>16, <1>17 DEF Inv, Base

-----------------------------------------------------------------------------
\* Every step of every actor keeps the invariant.
LEMMA NextHolds == Inv /\ [Next]_vars => Inv'
  <1> SUFFICES ASSUME Inv, [Next]_vars PROVE Inv'
    OBVIOUS
  <1>1. CASE Worker
    BY <1>1, StepBeginStep, TakeReadStep, TakeClearStep, ScanEndStep, SkipStep, ProbeStep,
       AutoPollStep DEF Worker
  <1>2. CASE Holder
    BY <1>2, DispatchStep, VerifyStep DEF Holder
  <1>3. ASSUME NEW d \in Dev, NEW r \in ClientReads, ClientRead(d, r) PROVE Inv'
    BY <1>3, ClientReadStep
  <1>4. ASSUME NEW d \in Dev, NEW w \in ClientWrites, ClientWrite(d, w[1], w[2]) PROVE Inv'
    BY <1>4, ClientWriteStep
  <1>5. ASSUME NEW d \in Dev, ClientInvalidate(d) \/ Tick(d) PROVE Inv'
    BY <1>5, ClientInvalidateStep, TickStep
  <1>6. ASSUME NEW d \in Dev, NEW c \in Configs, SetConfig(d, c) PROVE Inv'
    BY <1>6, SetConfigStep
  <1>7. ASSUME NEW d \in Dev, NEW mode \in Modes, SetPolicy(d, mode) \/ RuleClear(d, mode)
        PROVE  Inv'
    BY <1>7, SetPolicyStep, RuleClearStep
  <1>8. ASSUME NEW d \in Dev, NEW mode \in Modes, NEW rule \in EditedRules,
               RuleAdd(d, mode, rule) \/ RuleRemove(d, mode, rule)
        PROVE  Inv'
    BY <1>8, RuleAddStep, RuleRemoveStep
  <1>9. ASSUME NEW w \in HostWrites, HostWrite(w[1], w[2]) PROVE Inv'
    BY <1>9, HostWriteStep
  <1>10. CASE UNCHANGED vars
    BY <1>10 DEF Inv, JobFits, vars
  <1> QED
    BY <1>1, <1>2, <1>3, <1>4, <1>5, <1>6, <1>7, <1>8, <1>9, <1>10 DEF Next

\* The invariant says what the properties say.
LEMMA InvSuffices ==
    ASSUME Inv
    PROVE  TypeOK /\ MirrorExact /\ ReadAreaExact /\ WorkerFitsConfig /\ PolicyEnforced
  <1>1. svc \in Services /\ CatalogFits(svc)
    BY DEF Inv, Base
  <1>2. \A d \in Dev : svc.mirror[d] \in [presence : Presences,
                                          entries : [0 .. svc.devices[d].count - 1 -> Entries]]
    <2> SUFFICES ASSUME NEW d \in Dev
                 PROVE  svc.mirror[d] \in [presence : Presences,
                                           entries : [0 .. svc.devices[d].count - 1 -> Entries]]
      OBVIOUS
    <2> DEFINE n == svc.devices[d].count
               m == svc.mirror[d]
    <2>1. m \in Catalogs /\ DOMAIN m.entries = 0 .. n - 1
      BY <1>1 DEF Services, CatalogFits
    <2> HIDE DEF m, n
    <2>2. m.entries \in [0 .. n - 1 -> Entries]
      BY <2>1 DEF Catalogs, Listings
    <2>3. m \in [presence : Presences, entries : [0 .. n - 1 -> Entries]]
      BY <2>1, <2>2 DEF Catalogs
    <2> QED BY <2>3 DEF m, n
  <1>3. job \in Jobs \cup Writes /\ mailbox \in [Cells -> SUBSET Words]
    BY DEF Inv, JobFits
  <1>4. TypeOK
    BY <1>1, <1>2, <1>3 DEF TypeOK, Services, Presences
  <1>5. MirrorExact
    BY DEF Inv, MirrorBut, MirrorExact
  <1>6. ReadAreaExact
    BY DEF Inv, Base, EntriesServed, CellsExact, ReadAreaExact, ValidServed,
           UndeclaredSilent, Declared, ValidCurrent, ServedCurrent
  <1>7. WorkerFitsConfig
    BY DEF Inv, Base, WorkerFits, WorkerFitsConfig, OnlineConfirmed, PollIndexInRange
  <1>8. PolicyEnforced
    BY DEF Inv, Base, ConfigsFit, JobFits, PolicyEnforced, FrameAllowed, RulesBounded,
           bvstk_mdio_config_validate
  <1> QED BY <1>4, <1>5, <1>6, <1>7, <1>8

\* Every field of the service keeps its type, and a device's catalog has one
\* entry per declared register (the fixed arrays of bvstk_mdio_service_t).
THEOREM TypeCorrect == Spec => []TypeOK
  BY InitHolds, NextHolds, InvSuffices, PTL DEF Spec

\* The registry shows the cache and the presence of every device after every
\* call, probe and failed publication (bvstk_cache_bridges.c).
THEOREM RegistryShowsCache == Spec => []MirrorExact
  BY InitHolds, NextHolds, InvSuffices, PTL DEF Spec

\* What the host reads in the read area is what the cache holds, nothing of an
\* undeclared register, and nothing from before a write or a RESET.
THEOREM HostReadsTruth == Spec => []ReadAreaExact
  BY InitHolds, NextHolds, InvSuffices, PTL DEF Spec

\* What the worker keeps of a device fits the configuration in force, whenever
\* set_config replaces it.
THEOREM WorkerFollowsConfig == Spec => []WorkerFitsConfig
  BY InitHolds, NextHolds, InvSuffices, PTL DEF Spec

\* Only frames the policy in force allows leave, and no rule list outgrows its
\* array.
THEOREM OnlyAllowedFramesLeave == Spec => []PolicyEnforced
  BY InitHolds, NextHolds, InvSuffices, PTL DEF Spec
=============================================================================
