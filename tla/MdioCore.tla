------------------------------ MODULE MdioCore ------------------------------
(***************************************************************************)
(* The driver of the MDIO master core: transfer, ack and reset of          *)
(* drivers/pl/mdio/bvstk_mdio_core.c, with the core as the driver uses it. *)
(*                                                                         *)
(* A command word goes through the TX FIFO to the engine, which completes  *)
(* one frame.  The answer to a read waits in the RX FIFO until the core    *)
(* writes it into the cell of its PHY and register in BRAM and raises      *)
(* DATA_VALID.  Nothing more is published before DATA_VALID is taken back: *)
(* by reading MEM_ADDR, which arms the acknowledgement, and writing IRQ.   *)
(*                                                                         *)
(* The driver mutex admits one call at a time.  A deadline may pass at any *)
(* look at the status.  Frames are numbered, one number per call; the      *)
(* answer to a frame is its number, so a stale answer can be told from the *)
(* right one.  Register accesses of a mapped region do not fail.           *)
(***************************************************************************)
EXTENDS Integers, Sequences

CONSTANTS
    Cells,          \* <<PHY, register>> pairs
    MaxFrames       \* bound on the calls made

ASSUME CoreAssumption == MaxFrames \in Nat

VARIABLES
    pc,             \* where the driver is in transfer
    op, cell,       \* the arguments of the call
    addr, value,    \* MEM_ADDR and the BRAM word it has read
    outcome,        \* what the last call returned
    frames,         \* calls made so far; the number of the current frame
    port,           \* the command word on its way into the FIFO
    tx,             \* the TX FIFO
    engine,         \* the command on the bus
    rx,             \* the RX FIFO
    dataValid,      \* DATA_VALID and IRQ
    armed,          \* MEM_ADDR was read since the last acknowledgement
    memAddr,        \* MEM_ADDR
    bank,           \* the result bank of the BRAM
    completed       \* history: frames completed during the current call

driverVars == <<pc, op, cell, addr, value, outcome, frames>>
coreVars == <<port, tx, engine, rx, dataValid, armed, memAddr, bank, completed>>
vars == <<driverVars, coreVars>>

Nothing == [op |-> "none"]
Commands == [op : {"read", "write"}, cell : Cells, frame : Nat]
Empty == 0                      \* BVSTK_MDIO_MAILBOX_EMPTY: no 16-bit word
NoCell == <<>>
Command == [op |-> op, cell |-> cell, frame |-> frames]

B == INSTANCE MdioBus WITH
        request <- IF pc = "idle" THEN [op |-> "none"] ELSE Command

Init ==
    /\ pc = "idle" /\ op = "read" /\ cell \in Cells /\ addr = NoCell /\ value = Empty
    /\ outcome = B!NoOutcome
    /\ frames = 0
    /\ port = Nothing /\ tx = Nothing /\ engine = Nothing /\ rx = <<>>
    /\ dataValid = FALSE /\ armed = FALSE /\ memAddr = NoCell
    /\ bank = [c \in Cells |-> Empty]
    /\ completed = 0

-----------------------------------------------------------------------------
(* The driver                                                              *)

Goto(label) == pc' = label /\ UNCHANGED <<op, cell, addr, value, outcome, frames>>

Begin(o, c) ==
    /\ pc = "idle"
    /\ frames < MaxFrames
    /\ pc' = "ack"
    /\ op' = o /\ cell' = c
    /\ frames' = frames + 1
    /\ completed' = 0
    /\ UNCHANGED <<addr, value, outcome, port, tx, engine, rx, dataValid, armed, memAddr, bank>>

\* ack, first access: reading MEM_ADDR arms the acknowledgement.
Arm(label) ==
    /\ armed' = TRUE
    /\ Goto(label)
    /\ UNCHANGED <<port, tx, engine, rx, dataValid, memAddr, bank, completed>>

\* A mistake: IRQ is not written.
LeaveRaised ==
    /\ armed' = FALSE
    /\ UNCHANGED <<dataValid, port, tx, engine, rx, memAddr, bank>>

\* ack, second access: writing IRQ.  An unarmed write does nothing.
Acknowledge ==
    /\ dataValid' = IF armed THEN FALSE ELSE dataValid
    /\ armed' = FALSE
    /\ UNCHANGED <<port, tx, engine, rx, memAddr, bank>>

StartAck ==
    \/ pc = "ack" /\ Arm("ack2")
    \/ pc = "ack2" /\ Acknowledge /\ Goto("wait") /\ UNCHANGED completed

\* The core is free: no frame on the bus and an empty FIFO.
AwaitIdle ==
    /\ pc = "wait"
    /\ engine = Nothing /\ tx = Nothing
    /\ Goto(IF op = "read" THEN "mark" ELSE "send")
    /\ UNCHANGED coreVars

\* A read puts the empty mark where its answer will appear.
Mark ==
    /\ pc = "mark"
    /\ bank' = [bank EXCEPT ![cell] = Empty]
    /\ Goto("send")
    /\ UNCHANGED <<port, tx, engine, rx, dataValid, armed, memAddr, completed>>

Send ==
    /\ pc = "send"
    /\ port' = Command
    /\ Goto("sleep")
    /\ UNCHANGED <<tx, engine, rx, dataValid, armed, memAddr, bank, completed>>

\* One millisecond: the FIFO has the word before the status is looked at.
Sleep ==
    /\ pc = "sleep"
    /\ port = Nothing
    /\ Goto("poll")
    /\ UNCHANGED coreVars

Return(result) ==
    /\ pc' = "idle"
    /\ outcome' = result
    /\ completed' = 0
    /\ UNCHANGED <<op, cell, addr, value, frames>>

\* A write is over when the core is free again.
WriteDone ==
    /\ pc = "poll" /\ op = "write"
    /\ engine = Nothing /\ tx = Nothing
    /\ Return([status |-> "ok", value |-> 0])
    /\ UNCHANGED <<port, tx, engine, rx, dataValid, armed, memAddr, bank>>

\* A read is over when DATA_VALID is up.  MEM_ADDR and the cell are read, the
\* event is acknowledged, and an answer for another cell or none is an error.
ReadAddr ==
    /\ pc = "poll" /\ op = "read"
    /\ dataValid
    /\ pc' = "data" /\ addr' = memAddr /\ armed' = TRUE
    /\ UNCHANGED <<op, cell, value, outcome, frames>>
    /\ UNCHANGED <<port, tx, engine, rx, dataValid, memAddr, bank, completed>>

ReadData ==
    /\ pc = "data"
    /\ pc' = "arm" /\ value' = bank[cell]
    /\ UNCHANGED <<op, cell, addr, outcome, frames>>
    /\ UNCHANGED coreVars

FinishAck ==
    \/ pc = "arm" /\ Arm("taken")
    \/ /\ pc = "taken"
       /\ Acknowledge
       /\ IF addr = cell /\ value # Empty
          THEN Return([status |-> "ok", value |-> value])
          ELSE Goto("reset") /\ UNCHANGED completed

\* A mistake: a command without an answer is sent again.
Retry ==
    /\ pc = "poll"
    /\ Goto("send")
    /\ UNCHANGED coreVars

\* The deadline passes while the driver waits for the core or the answer.
Timeout ==
    /\ pc \in {"wait", "poll"}
    /\ Goto("reset")
    /\ UNCHANGED coreVars

\* reset: the core drops the frame, the FIFOs and the answer in them.
Reset ==
    /\ pc = "reset"
    /\ port' = Nothing /\ tx' = Nothing /\ engine' = Nothing /\ rx' = <<>>
    /\ Goto("resetArm")
    /\ UNCHANGED <<dataValid, armed, memAddr, bank, completed>>

\* The event is acknowledged and the call returns its error.
ResetAck ==
    \/ pc = "resetArm" /\ Arm("resetAck")
    \/ /\ pc = "resetAck"
       /\ Acknowledge
       /\ Return([status |-> "error", value |-> 0])

-----------------------------------------------------------------------------
(* The core                                                                *)

Accept ==
    /\ port # Nothing /\ tx = Nothing
    /\ tx' = port /\ port' = Nothing
    /\ UNCHANGED driverVars
    /\ UNCHANGED <<engine, rx, dataValid, armed, memAddr, bank, completed>>

Fetch ==
    /\ tx # Nothing /\ engine = Nothing
    /\ engine' = tx /\ tx' = Nothing
    /\ UNCHANGED driverVars
    /\ UNCHANGED <<port, rx, dataValid, armed, memAddr, bank, completed>>

\* The frame ends: the PHY has seen it; a read has its answer.
Finish ==
    /\ engine # Nothing
    /\ engine' = Nothing
    /\ rx' = IF engine.op = "read" THEN Append(rx, engine) ELSE rx
    /\ completed' = completed + 1
    /\ UNCHANGED driverVars
    /\ UNCHANGED <<port, tx, dataValid, armed, memAddr, bank>>

\* The oldest answer is written to its cell and announced.
Publish ==
    /\ rx # <<>> /\ ~dataValid
    /\ bank' = [bank EXCEPT ![Head(rx).cell] = Head(rx).frame]
    /\ memAddr' = Head(rx).cell
    /\ dataValid' = TRUE
    /\ rx' = Tail(rx)
    /\ UNCHANGED driverVars
    /\ UNCHANGED <<port, tx, engine, armed, completed>>

-----------------------------------------------------------------------------
Driver ==
    StartAck \/ AwaitIdle \/ Mark \/ Send \/ Sleep \/ WriteDone \/ ReadAddr \/ ReadData
    \/ FinishAck \/ Reset \/ ResetAck
Core == Accept \/ Fetch \/ Finish \/ Publish

Next ==
    \/ \E o \in {"read", "write"}, c \in Cells : Begin(o, c)
    \/ Driver
    \/ Timeout
    \/ Core

Spec == Init /\ [][Next]_vars

-----------------------------------------------------------------------------
(* Properties                                                              *)

Labels == {"idle", "ack", "ack2", "wait", "mark", "send", "sleep", "poll", "data",
           "arm", "taken", "reset", "resetArm", "resetAck"}

\* The driver's and the core's variables have their types.
TypeOK ==
    /\ pc \in Labels
    /\ op \in {"read", "write"} /\ cell \in Cells
    /\ addr \in Cells \cup {NoCell} /\ value \in Nat
    /\ outcome \in [status : {"none", "ok", "error"}, value : Nat]
    /\ frames \in Nat
    /\ port \in Commands \cup {Nothing}
    /\ tx \in Commands \cup {Nothing}
    /\ engine \in Commands \cup {Nothing}
    /\ rx \in Seq(Commands)
    /\ dataValid \in BOOLEAN /\ armed \in BOOLEAN
    /\ memAddr \in Cells \cup {NoCell}
    /\ bank \in [Cells -> Nat]
    /\ completed \in Nat

\* The core never works for a call that has returned: when the driver is idle
\* no command and no answer is left in it, whatever timed out before.
NothingBehind ==
    pc = "idle" => /\ port = Nothing /\ tx = Nothing /\ engine = Nothing
                   /\ rx = <<>> /\ ~dataValid

\* Where the current frame is: on its way, on the bus, or answered.
Waiting == <<port, tx, engine>> \in
    {<<Command, Nothing, Nothing>>, <<Nothing, Command, Nothing>>, <<Nothing, Nothing, Command>>}
Clear == port = Nothing /\ tx = Nothing /\ engine = Nothing
OnItsWay == Waiting /\ rx = <<>> /\ ~dataValid /\ completed = 0
Sent == Clear /\ op = "write" /\ rx = <<>> /\ ~dataValid /\ completed = 1
Unpublished == Clear /\ op = "read" /\ rx = <<Command>> /\ ~dataValid /\ completed = 1
Answered ==
    /\ Clear /\ op = "read" /\ rx = <<>> /\ dataValid /\ completed = 1
    /\ memAddr = cell /\ bank[cell] = frames
Quiet == Clear /\ rx = <<>> /\ ~dataValid /\ completed = 0

\* At every moment of a call the core holds its frame in exactly one place, or
\* nothing: the strengthening of NothingBehind that steps preserve.
OneFrame ==
    /\ pc # "idle" => frames > 0
    /\ pc \in {"idle", "ack", "ack2", "wait", "mark", "send"} => Quiet
    /\ pc = "mark" => op = "read"
    /\ pc = "sleep" => OnItsWay \/ Sent \/ Unpublished \/ Answered
    /\ pc = "poll" => (OnItsWay /\ port = Nothing) \/ Sent \/ Unpublished \/ Answered
    /\ pc \in {"data", "arm", "taken"} => Answered /\ addr = cell
    /\ pc \in {"arm", "taken"} => value = frames
    /\ pc = "reset" => Quiet \/ OnItsWay \/ Sent \/ Unpublished \/ Answered
    /\ pc \in {"resetArm", "resetAck"} => Clear /\ rx = <<>>
    /\ pc \in {"ack2", "taken", "resetAck"} => armed

\* The driver keeps what MdioBus promises: one frame per call at most, none
\* after the call, and only the answer to the call's own frame.
BusPromise == B!Spec

\* A call fails only because its deadline passed: no event or answer left by
\* an earlier call, however that one ended, is met and refused.
FailsOnlyLate == [][pc # "reset" /\ pc' = "reset" => pc \in {"wait", "poll"}]_vars
=============================================================================
