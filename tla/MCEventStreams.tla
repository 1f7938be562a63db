--------------------------- MODULE MCEventStreams ---------------------------
(* Small instances of EventStreams for TLC.                                *)
EXTENDS EventStreams

CONSTANTS i2c, system, attempt, denied, sample, unknown

Event(b, t, u) == [bus |-> b, type |-> t, unconfirmed |-> u, arg0 |-> 1]

\* Two control events the class filter tells apart, one confirmed telemetry
\* record, and one event for each reason to be dropped.
OneBus ==
    {Event(i2c, attempt, FALSE), Event(i2c, denied, FALSE),
     Event(i2c, sample, FALSE), Event(i2c, sample, TRUE),
     Event(i2c, unknown, FALSE), Event(system, attempt, FALSE)}
=============================================================================
