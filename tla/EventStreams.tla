---------------------------- MODULE EventStreams ----------------------------
(***************************************************************************)
(* The DCP2 server's delivery of journal records to its single client:     *)
(* NOTIFY (control events, with a class and bus filter) and the per-bus    *)
(* telemetry STREAM, apps/freertos/services/dcp2/dcp2_server.c.            *)
(*                                                                         *)
(* The server thread repeats one loop: drain every notify bus, drain every *)
(* stream, then handle at most one request.  Other tasks publish between   *)
(* any two of its steps.  One connection is served at a time and its state *)
(* is a local variable, so it is gone when the connection ends.            *)
(*                                                                         *)
(* The variables after "log" in the list below the loop's state are        *)
(* history: what the client was told since it subscribed.                  *)
(***************************************************************************)
EXTENDS EventJournal

CONSTANTS
    Published,  \* the events other tasks may publish
    MaxHead     \* bound: records published to one ring

ASSUME PublishedAssumption == Published \subseteq Events

VARIABLES
    conn,       \* a client is connected
    phase,      \* where the loop stands: "notify", "stream" or "request"
    todo,       \* buses the current phase has still to visit
    notify,     \* state->notify_enabled and notify_filter
    streams,    \* the buses with stream_enabled
    cursor,     \* notify_cursor and stream_cursor, by reader
    origin,     \* history: the cursor a reader's subscription began with
    got,        \* history: records handed over (before the class filter)
    lost,       \* history: losses announced to the client
    delivered   \* history: records sent to the client

serverVars == <<conn, phase, todo, notify, streams, cursor>>
historyVars == <<origin, got, lost, delivered>>
vars == <<journalVars, serverVars, historyVars>>

Readers == {"notify", "stream"} \X Buses
RingFor(rd) == <<rd[2], IF rd[1] = "notify" THEN "events" ELSE "telemetry">>

NotifyOff == [enabled |-> FALSE, classes |-> {}, buses |-> {}]

Subscribed(rd) ==
    IF rd[1] = "notify" THEN notify.enabled /\ rd[2] \in notify.buses
                        ELSE rd[2] \in streams

\* dcp2_notify_filter_match: the class and source masks, as one set of types
\* (a type stands for a class and a source); a stream sends every record.
Wanted(rd, e) == rd[1] = "notify" => e.type \in notify.classes

Records == [sequence : Nat, event : Events]

\* Every variable keeps its type; in particular the loss count of
\* bvstk_journal_read, an unsigned subtraction, never wraps.
TypeOK ==
    /\ JournalTypeOK
    /\ conn \in BOOLEAN
    /\ phase \in {"notify", "stream", "request"}
    /\ todo \in SUBSET Buses
    /\ notify \in [enabled : BOOLEAN, classes : SUBSET EventTypes,
                   buses : SUBSET (Buses \cup OtherBuses)]
    /\ streams \in SUBSET Buses
    /\ cursor \in [Readers -> Nat]
    /\ origin \in [Readers -> Nat]
    /\ got \in [Readers -> Nat]
    /\ lost \in [Readers -> Nat]
    /\ delivered \in [Readers -> SUBSET Records]

\* The zeroed dcp2_conn_state_t, and a loop about to start.
ConnectionState(up) ==
    /\ conn' = up
    /\ phase' = "notify"
    /\ todo' = Buses
    /\ notify' = NotifyOff
    /\ streams' = {}
    /\ cursor' = [rd \in Readers |-> 0]
    /\ origin' = [rd \in Readers |-> 0]
    /\ got' = [rd \in Readers |-> 0]
    /\ lost' = [rd \in Readers |-> 0]
    /\ delivered' = [rd \in Readers |-> {}]

Init ==
    /\ JournalInit
    /\ conn = FALSE
    /\ phase = "notify"
    /\ todo = Buses
    /\ notify = NotifyOff
    /\ streams = {}
    /\ cursor = [rd \in Readers |-> 0]
    /\ origin = [rd \in Readers |-> 0]
    /\ got = [rd \in Readers |-> 0]
    /\ lost = [rd \in Readers |-> 0]
    /\ delivered = [rd \in Readers |-> {}]

-----------------------------------------------------------------------------
Publish(e) ==
    /\ RingOf(e) \in Rings => head[RingOf(e)] < MaxHead
    /\ bvstk_observer_publish(e)
    /\ UNCHANGED <<serverVars, historyVars>>

Connect ==
    /\ ~conn
    /\ ConnectionState(TRUE)
    /\ UNCHANGED journalVars

\* A mistake: the round goes from the notify buses to the request.
AdvanceSkippingStreams(b) ==
    /\ phase' = IF todo # {b} THEN phase ELSE "request"
    /\ todo' = IF todo # {b} THEN todo \ {b} ELSE Buses

\* Bus b of the current phase is done; the last one starts the next phase.
Advance(b) ==
    /\ phase' = IF todo # {b} THEN phase
                ELSE IF phase = "notify" THEN "stream" ELSE "request"
    /\ todo' = IF todo # {b} THEN todo \ {b} ELSE Buses

\* A mistake: no LOST event is sent.
AnnouncedOnStreamsOnly(rd, batch) == IF rd[1] = "notify" THEN 0 ELSE batch.lost

\* What a notify drain announces: a LOST event whenever records are gone.
\* A stream carries the count on the first record of the batch only.
Announced(rd, batch) ==
    IF rd[1] = "notify" THEN batch.lost
    ELSE IF batch.count > 0 THEN batch.lost ELSE 0

\* One bus of dcp2_drain_notify_events or dcp2_drain_stream_events.  A send
\* that fails ends the connection.  A stream may also carry a synthetic sample
\* of the simulator, which has no record and moves no cursor, so a stream can
\* fail with nothing to hand over.
Drain(rd) ==
    LET batch == bvstk_journal_read(RingFor(rd), ANY, cursor[rd])
        sent  == {x \in batch.records : Wanted(rd, x.event)}
    IN  /\ conn
        /\ phase = rd[1]
        /\ rd[2] \in todo
        /\ Subscribed(rd)
        /\ UNCHANGED journalVars
        /\ \/ /\ Advance(rd[2])
              /\ cursor' = [cursor EXCEPT ![rd] = batch.next]
              /\ got' = [got EXCEPT ![rd] = @ + batch.count]
              /\ lost' = [lost EXCEPT ![rd] = @ + Announced(rd, batch)]
              /\ delivered' = [delivered EXCEPT ![rd] = @ \cup sent]
              /\ UNCHANGED <<conn, notify, streams, origin>>
           \/ /\ rd[1] = "stream" \/ sent # {} \/ Announced(rd, batch) > 0
              /\ ConnectionState(FALSE)

\* A bus the client did not ask for is passed over.
Skip(rd) ==
    /\ conn
    /\ phase = rd[1]
    /\ rd[2] \in todo
    /\ ~Subscribed(rd)
    /\ Advance(rd[2])
    /\ UNCHANGED <<journalVars, conn, notify, streams, cursor, historyVars>>

\* The request step ends the round; every round starts with notify again.
NextRound ==
    /\ conn
    /\ phase = "request"
    /\ phase' = "notify"
    /\ UNCHANGED <<journalVars, conn, todo>>

\* A subscription starts every reader it names at the current head.
StartAt(rds) ==
    /\ cursor' = [rd \in Readers |->
                    IF rd \in rds THEN bvstk_journal_head(RingFor(rd)) ELSE cursor[rd]]
    /\ origin' = [rd \in Readers |-> IF rd \in rds THEN cursor'[rd] ELSE origin[rd]]
    /\ got' = [rd \in Readers |-> IF rd \in rds THEN 0 ELSE got[rd]]
    /\ lost' = [rd \in Readers |-> IF rd \in rds THEN 0 ELSE lost[rd]]
    /\ delivered' = [rd \in Readers |-> IF rd \in rds THEN {} ELSE delivered[rd]]

\* Empty masks are refused (ERR_RANGE); all notify cursors move to the head.
NotifySubscribe(classes, buses) ==
    /\ NextRound
    /\ classes # {} /\ buses # {}
    /\ notify' = [enabled |-> TRUE, classes |-> classes, buses |-> buses]
    /\ StartAt({"notify"} \X Buses)
    /\ UNCHANGED streams

NotifyUnsubscribe ==
    /\ NextRound
    /\ notify' = NotifyOff
    /\ UNCHANGED <<streams, cursor, historyVars>>

StreamSubscribe(b) ==
    /\ NextRound
    /\ streams' = streams \cup {b}
    /\ StartAt({<<"stream", b>>})
    /\ UNCHANGED notify

StreamUnsubscribe(b) ==
    /\ NextRound
    /\ streams' = streams \ {b}
    /\ UNCHANGED <<notify, cursor, historyVars>>

\* No request within 100 ms, or one that does not concern subscriptions.
OtherRequest ==
    /\ NextRound
    /\ UNCHANGED <<notify, streams, cursor, historyVars>>

\* The peer closes, sends a malformed frame or stops reading.
Disconnect ==
    /\ conn
    /\ phase = "request"
    /\ ConnectionState(FALSE)
    /\ UNCHANGED journalVars

Next ==
    \/ \E e \in Published : Publish(e)
    \/ Connect
    \/ \E rd \in Readers : Drain(rd)
    \/ \E rd \in Readers : Skip(rd)
    \/ \E classes \in SUBSET EventTypes, buses \in SUBSET (Buses \cup OtherBuses) :
          NotifySubscribe(classes, buses)
    \/ NotifyUnsubscribe
    \/ \E b \in Buses : StreamSubscribe(b)
    \/ \E b \in Buses : StreamUnsubscribe(b)
    \/ OtherRequest
    \/ Disconnect

Spec == Init /\ [][Next]_vars

\* The server thread keeps running its loop while a client is connected.
Loop ==
    \/ \E rd \in Readers : Drain(rd) \/ Skip(rd)
    \/ OtherRequest

FairSpec == Spec /\ WF_vars(Loop)

-----------------------------------------------------------------------------
(* Properties                                                              *)

\* A cursor never runs ahead of its ring, so a live subscription is never
\* answered with "reset".
CursorBehindHead ==
    \A rd \in Readers : origin[rd] <= cursor[rd] /\ cursor[rd] <= head[RingFor(rd)]

\* Every record published since the subscription is accounted for exactly
\* once: handed over, announced as lost, or still ahead of the cursor.
Accounted ==
    \A rd \in Readers : origin[rd] + got[rd] + lost[rd] = cursor[rd]

\* The client only ever receives records that were published under that
\* sequence number after it subscribed, never an older record of the slot.
DeliveredIsPublished ==
    \A rd \in Readers : \A x \in delivered[rd] :
        /\ x.sequence \in origin[rd] + 1 .. cursor[rd]
        /\ log[RingFor(rd)][x.sequence] = x.event

\* Nothing the client asked for disappears silently: the wanted records it
\* has been moved past and did not receive are covered by the loss count.
NoSilentLoss ==
    \A rd \in Readers :
        conn /\ Subscribed(rd) =>
            Cardinality({s \in origin[rd] + 1 .. cursor[rd] :
                /\ Wanted(rd, log[RingFor(rd)][s])
                /\ \A x \in delivered[rd] : x.sequence # s}) <= lost[rd]

\* Once publishers pause, the loop brings every subscription to the head,
\* unless the connection or the subscription ends first.
CatchesUp ==
    \A rd \in Readers :
        (conn /\ Subscribed(rd)) ~>
            (~conn \/ ~Subscribed(rd) \/ cursor[rd] = head[RingFor(rd)])
=============================================================================
