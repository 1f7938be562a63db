---------------------------- MODULE CacheSession ----------------------------
(***************************************************************************)
(* The DCP2 CACHE service, protocols/dcp2/bvstk_dcp2_cache.c, over the     *)
(* registry it serves and the client that keeps a copy of each device it   *)
(* subscribed to.                                                          *)
(*                                                                         *)
(* A session has one snapshot buffer and a few subscriptions.  SUBSCRIBE   *)
(* copies the device into the buffer together with the journal position of *)
(* that moment and returns the first page; the client fetches the other    *)
(* pages with GET.  Until every page has been read in sequence the         *)
(* subscription is pending and gets no events.  Afterwards each event      *)
(* carries one journal record; a subscription that cannot be continued     *)
(* gets one RESYNC event and is paused until it is renewed.  Pages not     *)
(* fetched for SnapshotMs expire the snapshot.                             *)
(*                                                                         *)
(* Requests and events are calls of the one server thread; the services    *)
(* change the registry between any two of them.  The connection is a TCP   *)
(* stream, so the client sees replies and events in the order they are     *)
(* made: "view" is its copy, brought up to date in the step that sends.    *)
(***************************************************************************)
EXTENDS CacheRegistry

CONSTANTS
    Catalogs,       \* the catalogs the services may publish
    Reports,        \* the presences they may report
    Subscriptions,  \* BVSTK_DCP2_CACHE_SUBSCRIPTIONS
    PageSize,       \* entries that fit in one page
    SnapshotMs,     \* BVSTK_DCP2_CACHE_SNAPSHOT_MS, in clock steps
    SubIdMax,       \* the last subscription id (UINT16_MAX in the code)
    MaxHead,        \* bound: journal records
    MaxGeneration,  \* bound: catalogs published
    MaxSnapshot     \* bound: snapshots captured in one session

ASSUME SessionAssumption ==
    /\ Subscriptions \in Nat \ {0}
    /\ PageSize \in Nat \ {0}
    /\ SnapshotMs \in Nat \ {0}
    /\ SubIdMax \in Nat
    /\ Reports \subseteq Presences
    /\ Catalogs \subseteq [name : Names, count : 0 .. ResourcesMax,
                            presence : Presences, entries : [Resources -> Entries]]

VARIABLES
    subs,           \* the subscriptions, by slot
    snapshot,       \* the snapshot buffer
    snapshotId,     \* its token, 0 when it may not be read
    snapshotSub,    \* the subscription it was captured for, or 0
    progress,       \* entries read in sequence
    idle,           \* clock steps since the last page (now - activity)
    nextSub,        \* last subscription id given out
    nextSnapshot,   \* last token given out
    roundRobin,     \* the slot the next event call starts at
    view,           \* the client's copies, by slot
    passedOver      \* history: events sent to others while a slot had one

sessionVars == <<subs, snapshot, snapshotId, snapshotSub, progress, idle,
                 nextSub, nextSnapshot, roundRobin>>
vars == <<registryVars, sessionVars, view, passedOver>>

Slots == 0 .. Subscriptions - 1

FreeSub == [id |-> 0, handle |-> 0, generation |-> 0, revision |-> 0,
            cursor |-> 0, pending |-> FALSE, paused |-> "no"]
Subs == [id : 0 .. SubIdMax, handle : 0 .. DevicesMax, generation : Nat,
         revision : Nat, cursor : Nat, pending : BOOLEAN,
         paused : {"no", "expired", "told"}]

Unread == [valid |-> FALSE, value |-> -1]
NoView == [generation |-> 0, revision |-> 0, presence |-> "unknown",
           entries |-> [i \in Resources |-> Unread]]
Views == [generation : Nat, revision : Nat, presence : Presences,
          entries : [Resources -> Entries \cup {Unread}]]

\* Every variable keeps its type; the reading position stays within the
\* snapshot, tokens and ids are ones the session gave out, and ids stop at
\* their limit (bvstk_dcp2_cache_request).
TypeOK ==
    /\ RegistryTypeOK
    /\ subs \in [Slots -> Subs]
    /\ snapshot \in Devices
    /\ snapshotId \in Nat /\ snapshotId <= nextSnapshot
    /\ snapshotSub \in 0 .. nextSub
    /\ progress \in 0 .. snapshot.count
    /\ idle \in 0 .. SnapshotMs
    /\ nextSub \in 0 .. SubIdMax
    /\ nextSnapshot \in Nat
    /\ roundRobin \in Slots
    /\ view \in [Slots -> Views]
    /\ passedOver \in [Slots -> Nat]

SessionInit ==
    /\ subs = [j \in Slots |-> FreeSub]
    /\ snapshot = NoDevice
    /\ snapshotId = 0
    /\ snapshotSub = 0
    /\ progress = 0
    /\ idle = 0
    /\ nextSub = 0
    /\ nextSnapshot = 0
    /\ roundRobin = 0
    /\ view = [j \in Slots |-> NoView]
    /\ passedOver = [j \in Slots |-> 0]

Init == RegistryInit /\ SessionInit

-----------------------------------------------------------------------------
(* The services, through the bridges: a handle is 0 or one they were given *)

Configure(h, c) ==
    /\ generation < MaxGeneration
    /\ bvstk_cache_define(h, c.name, c.count, c.presence, c.entries)
    /\ UNCHANGED <<sessionVars, view, passedOver>>

PutEntry(h, index, value, valid) ==
    /\ head < MaxHead
    /\ bvstk_cache_put(h, index, value, valid)
    /\ UNCHANGED <<sessionVars, view, passedOver>>

SetPresence(h, presence) ==
    /\ head < MaxHead
    /\ bvstk_cache_presence(h, presence)
    /\ UNCHANGED <<sessionVars, view, passedOver>>

-----------------------------------------------------------------------------
(* The session                                                             *)

\* The slot of a subscription id; ids are never reused within a session.
SlotsOf(id) == {j \in Slots : id # 0 /\ subs[j].id = id}

\* expire: every request and event call starts with it.
Overdue == snapshotId # 0 /\ idle >= SnapshotMs
LiveId == IF Overdue THEN 0 ELSE snapshotId
ExpiredSubs ==
    [j \in Slots |->
        IF Overdue /\ j \in SlotsOf(snapshotSub) /\ subs[j].pending
        THEN [subs[j] EXCEPT !.paused = "expired"] ELSE subs[j]]

\* The entries of the page that starts at "first".
PageCount(snap, first) ==
    IF first + PageSize <= snap.count THEN PageSize ELSE snap.count - first

\* A mistake: a later page counts although one before it was not read.
NewProgressAnyOrder(done, first, n) == IF first + n > done THEN first + n ELSE done

\* Only the page that continues the sequence moves the progress.
NewProgress(done, first, n) == IF first = done THEN first + n ELSE done

\* page: the entries first .. first+PageSize-1 of buffer "snap" go to the
\* client.  Reading in sequence moves the progress; the last page in sequence
\* ends the pending state.  A client fills its copy while it is pending.
Page(subs0, sub, snap, done, first, views) ==
    LET n == PageCount(snap, first)
        reading == {j \in Slots : sub # 0 /\ subs0[j].id = sub}
    IN  /\ progress' = NewProgress(done, first, n)
        /\ subs' = [j \in Slots |->
              IF j \in reading /\ progress' = snap.count
              THEN [subs0[j] EXCEPT !.pending = FALSE] ELSE subs0[j]]
        /\ view' = [j \in Slots |->
              IF j \in reading /\ subs0[j].pending
              THEN [views[j] EXCEPT !.entries =
                      [i \in Resources |-> IF i \in first .. first + n - 1
                                           THEN snap.entries[i] ELSE @[i]]]
              ELSE views[j]]

\* A request that is malformed, unknown, stale or out of range: the expiry
\* check is all it does.
RejectedRequest ==
    /\ subs' = ExpiredSubs
    /\ snapshotId' = LiveId
    /\ UNCHANGED <<registryVars, snapshot, snapshotSub, progress, idle, nextSub,
                   nextSnapshot, roundRobin, view, passedOver>>

\* UNSUBSCRIBE drops the subscription, and the snapshot read for it.
Unsubscribe(j) ==
    LET owns == snapshotSub = subs[j].id
    IN  /\ subs[j].id # 0
        /\ subs' = [ExpiredSubs EXCEPT ![j] = FreeSub]
        /\ snapshotSub' = IF owns THEN 0 ELSE snapshotSub
        /\ snapshotId' = IF owns THEN 0 ELSE LiveId
        /\ view' = [view EXCEPT ![j] = NoView]
        /\ UNCHANGED <<registryVars, snapshot, progress, idle, nextSub,
                       nextSnapshot, roundRobin, passedOver>>

\* GET with a token: one more page of the snapshot in the buffer.
GetPage(token, first) ==
    /\ LiveId # 0
    /\ token = LiveId
    /\ first \in 0 .. snapshot.count
    /\ Page(subs, snapshotSub, snapshot, progress, first, view)
    /\ idle' = 0
    /\ UNCHANGED <<registryVars, snapshot, snapshotId, snapshotSub, nextSub,
                   nextSnapshot, roundRobin, passedOver>>

\* A mistake: a capture is never refused.
CaptureNever == FALSE

\* A new capture is refused while a pending subscription's snapshot is live.
CaptureBlocked ==
    LiveId # 0 /\ \E j \in SlotsOf(snapshotSub) : subs[j].pending

\* GET without a token: a snapshot of its own, for no subscription.
GetFirst(name) ==
    /\ ~CaptureBlocked
    /\ nextSnapshot < MaxSnapshot
    /\ Lookup(name) # 0
    /\ snapshot' = devices[Lookup(name)]
    /\ snapshotSub' = 0
    /\ nextSnapshot' = nextSnapshot + 1
    /\ snapshotId' = nextSnapshot + 1
    /\ idle' = 0
    /\ Page(ExpiredSubs, 0, devices[Lookup(name)], 0, 0, view)
    /\ UNCHANGED <<registryVars, nextSub, roundRobin, passedOver>>

\* The slot for a subscription to device h: the one it already has, else the
\* first free one (none: -1).
SlotForSub(h) ==
    LET same == {j \in Slots : subs[j].id # 0 /\ subs[j].handle = h}
        free == {j \in Slots : subs[j].id = 0}
        first(S) == CHOOSE j \in S : \A k \in S : j <= k
    IN  IF same # {} THEN first(same) ELSE IF free # {} THEN first(free) ELSE -1

\* A mistake: one record before the snapshot.
CursorBeforeSnapshot(h) == IF head > 0 THEN head - 1 ELSE 0

\* A subscription starts at the journal position of its snapshot.
StartCursor(h) == head

Subscribe(name) ==
    LET h == Lookup(name)
        d == devices[h]
        j == SlotForSub(h)
        id == IF subs[j].id # 0 THEN subs[j].id ELSE nextSub + 1
        sub == [id |-> id, handle |-> h, generation |-> d.generation,
                revision |-> d.revision, cursor |-> StartCursor(h),
                pending |-> TRUE, paused |-> "no"]
    IN  /\ ~CaptureBlocked
        /\ nextSnapshot < MaxSnapshot
        /\ h # 0
        /\ j # -1
        /\ subs[j].id # 0 \/ nextSub < SubIdMax
        /\ snapshot' = d
        /\ snapshotSub' = id
        /\ nextSub' = IF subs[j].id # 0 THEN nextSub ELSE id
        /\ nextSnapshot' = nextSnapshot + 1
        /\ snapshotId' = nextSnapshot + 1
        /\ idle' = 0
        /\ Page([ExpiredSubs EXCEPT ![j] = sub], id, d, 0, 0,
                [view EXCEPT ![j] = [NoView EXCEPT !.generation = d.generation,
                                     !.revision = d.revision,
                                     !.presence = d.presence]])
        /\ UNCHANGED <<registryVars, roundRobin, passedOver>>

\* No slot or no id left: the device has been captured by then, so the old
\* token is gone although the subscription is refused.
SubscribeRefused(name) ==
    LET h == Lookup(name)
        j == SlotForSub(h)
    IN  /\ ~CaptureBlocked
        /\ h # 0
        /\ j = -1 \/ (subs[j].id = 0 /\ nextSub = SubIdMax)
        /\ snapshot' = devices[h]
        /\ snapshotId' = 0
        /\ snapshotSub' = 0
        /\ progress' = 0
        /\ subs' = ExpiredSubs
        /\ UNCHANGED <<registryVars, idle, nextSub, nextSnapshot, roundRobin,
                       view, passedOver>>

\* What an event call finds for slot j.
News(j) ==
    LET sub == ExpiredSubs[j]
        next == bvstk_cache_next(sub.handle, sub.generation, sub.cursor)
    IN  IF sub.id = 0 \/ sub.paused = "told"
            THEN [status |-> "skip", cursor |-> sub.cursor]
        ELSE IF sub.paused = "expired"
            THEN [status |-> "expired", cursor |-> sub.cursor]
        ELSE IF sub.pending
            THEN [status |-> "skip", cursor |-> sub.cursor]
        ELSE IF next.status = "change" /\ Rec(next.cursor).revision # sub.revision + 1
            THEN [status |-> "lost", cursor |-> next.cursor]
        ELSE next

Waiting(j) == News(j).status \notin {"skip", "none"}

\* A mistake: the position does not move within a call.
TurnStuck(k) == roundRobin

\* The slots from roundRobin on.
Turn(k) == (roundRobin + k) % Subscriptions
Silent == {j \in Slots : ~Waiting(j)}

\* Slots passed on the way have their cursors moved to the head.
Scanned(k) == {Turn(i) : i \in 0 .. k - 1}

\* A mistake: the same slot is asked first again.
NextTurnSticky(k) == Turn(k)

\* The served slot is followed by the one after it.
NextTurn(k) == Turn(k + 1)

\* The client brings its copy up to date with a record.
Applied(v, rec) ==
    LET entries == IF rec.kind = "change"
                   THEN [v.entries EXCEPT ![rec.index] = rec.entry] ELSE v.entries
    IN  [v EXCEPT !.revision = rec.revision, !.presence = rec.presence, !.entries = entries]

\* One event for the k-th slot of the round: a record, or a RESYNC.
SendEvent(k) ==
    LET j == Turn(k)
        news == News(j)
        rec == Rec(news.cursor)
        sub == ExpiredSubs[j]
        resync == news.status # "change"
    IN  /\ Scanned(k) \subseteq Silent
        /\ Waiting(j)
        /\ snapshotId' = LiveId
        /\ roundRobin' = NextTurn(k)
        /\ subs' = [i \in Slots |->
              IF i = j THEN
                  IF resync
                  THEN [sub EXCEPT !.pending = FALSE, !.paused = "told",
                                   !.cursor = news.cursor]
                  ELSE [sub EXCEPT !.revision = rec.revision, !.cursor = news.cursor]
              ELSE IF i \in Scanned(k)
                  THEN [ExpiredSubs[i] EXCEPT !.cursor = News(i).cursor]
              ELSE ExpiredSubs[i]]
        /\ view' = IF resync THEN view
                   ELSE [view EXCEPT ![j] = Applied(view[j], rec)]
        /\ passedOver' = [i \in Slots |->
              IF i # j /\ Waiting(i) THEN passedOver[i] + 1 ELSE 0]
        /\ UNCHANGED <<registryVars, snapshot, snapshotSub, progress, idle,
                       nextSub, nextSnapshot>>

\* An event call that finds every slot silent.
NoEvent ==
    /\ Slots \subseteq Silent
    /\ snapshotId' = LiveId
    /\ subs' = [j \in Slots |-> [ExpiredSubs[j] EXCEPT !.cursor = News(j).cursor]]
    /\ passedOver' = [j \in Slots |-> 0]
    /\ UNCHANGED <<registryVars, snapshot, snapshotSub, progress, idle, nextSub,
                   nextSnapshot, roundRobin, view>>

EventCall == NoEvent \/ \E k \in Slots : SendEvent(k)

Tick ==
    /\ snapshotId # 0
    /\ idle < SnapshotMs
    /\ idle' = idle + 1
    /\ UNCHANGED <<registryVars, subs, snapshot, snapshotId, snapshotSub, progress,
                   nextSub, nextSnapshot, roundRobin, view, passedOver>>

\* A new connection starts with a zeroed session.
Reconnect ==
    /\ subs' = [j \in Slots |-> FreeSub]
    /\ snapshot' = NoDevice
    /\ snapshotId' = 0
    /\ snapshotSub' = 0
    /\ progress' = 0
    /\ idle' = 0
    /\ nextSub' = 0
    /\ nextSnapshot' = 0
    /\ roundRobin' = 0
    /\ view' = [j \in Slots |-> NoView]
    /\ passedOver' = [j \in Slots |-> 0]
    /\ UNCHANGED registryVars

Next ==
    \/ \E h \in 0 .. DevicesMax, c \in Catalogs : Configure(h, c)
    \/ \E h \in Handles, index \in Resources, value \in Values, valid \in BOOLEAN :
          PutEntry(h, index, value, valid)
    \/ \E h \in Handles, presence \in Reports : SetPresence(h, presence)
    \/ RejectedRequest
    \/ \E j \in Slots : Unsubscribe(j)
    \/ \E token \in 1 .. MaxSnapshot, first \in 0 .. ResourcesMax :
          GetPage(token, first)
    \/ \E name \in Names : GetFirst(name)
    \/ \E name \in Names : Subscribe(name)
    \/ \E name \in Names : SubscribeRefused(name)
    \/ EventCall
    \/ Tick
    \/ Reconnect

Spec == Init /\ [][Next]_vars

\* The server thread calls bvstk_dcp2_cache_event in every round of its loop.
FairSpec == Spec /\ WF_vars(EventCall)

-----------------------------------------------------------------------------
(* Properties                                                              *)

\* A subscription that has been read completely and not been told to resync.
Following(j) == subs[j].id # 0 /\ ~subs[j].pending /\ subs[j].paused = "no"
\* ... whose device still has the catalog it was taken from, and whose
\* position is still in the journal.
Current(j) ==
    /\ Following(j)
    /\ Defined(subs[j].handle)
    /\ devices[subs[j].handle].generation = subs[j].generation
    /\ ~Lost(subs[j].cursor)

SameAs(v, d) ==
    /\ v.generation = d.generation
    /\ v.revision = d.revision
    /\ v.presence = d.presence
    /\ \A i \in 0 .. d.count - 1 : v.entries[i] = d.entries[i]

\* Snapshot plus events is the device: a follower with no record of its
\* device ahead holds exactly the registry's state, entry by entry, with
\* the presence and revision (bvstk_dcp2_cache.c with bvstk_cache.c).
MirrorExact ==
    \A j \in Slots :
        Current(j) /\ Ahead(subs[j].handle, subs[j].cursor) = {}
            => SameAs(view[j], devices[subs[j].handle])

\* A follower still in the journal finds every revision it misses, in order:
\* the check of revision + 1 in bvstk_dcp2_cache_event never fires, and no
\* record of an older catalog of the handle lies ahead of it.
NoGap ==
    \A j \in Slots :
        Current(j) /\ Ahead(subs[j].handle, subs[j].cursor) # {} =>
            LET rec == Rec(FirstAhead(subs[j].handle, subs[j].cursor))
            IN  /\ rec.revision = subs[j].revision + 1
                /\ rec.generation = subs[j].generation

\* While a subscription is pending the buffer holds its snapshot, so its
\* pages never mix two captures.
PendingOwnsSnapshot ==
    \A j \in Slots :
        subs[j].id # 0 /\ subs[j].pending /\ subs[j].paused = "no" =>
            /\ snapshotSub = subs[j].id
            /\ snapshotId # 0
            /\ snapshot.generation = subs[j].generation
            /\ snapshot.revision = subs[j].revision
            /\ \A i \in 0 .. progress - 1 : view[j].entries[i] = snapshot.entries[i]

\* The round robin is fair: while a slot has an event to send, at most one
\* event goes to each of the other slots before its turn.
BoundedBypass == \A j \in Slots : passedOver[j] < Subscriptions

\* A client is told to resync only when it has to: its catalog was replaced,
\* its position left the journal, or its unread snapshot expired.
ResyncIsJustified ==
    [][\A j \in Slots :
          subs[j].paused # "told" /\ subs'[j].paused = "told" =>
              \/ ExpiredSubs[j].paused = "expired"
              \/ ~Defined(subs[j].handle)
              \/ devices[subs[j].handle].generation # subs[j].generation
              \/ Lost(subs[j].cursor)]_vars

\* A subscriber with news is eventually served: it catches up, is told to
\* resync, or its subscription or connection ends; and an expired snapshot is
\* eventually reported.
Informed ==
    \A j \in Slots :
        /\ (Following(j) /\ Waiting(j)) ~> (~Following(j) \/ ~Waiting(j))
        /\ (subs[j].paused = "expired") ~> (subs[j].paused # "expired")
=============================================================================
