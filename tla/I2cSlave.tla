------------------------------ MODULE I2cSlave ------------------------------
(***************************************************************************)
(* The board as an I2C slave of an external host: interrupt capture and    *)
(* BRAM windows (drivers/pl/i2c/bvstk_i2c_slave.c), the two operating      *)
(* system adapters (ports/*/os/i2c/bvstk_i2c_slave_*.c) and the service    *)
(* that keeps register pointer and read permission                         *)
(* (services/i2c/bvstk_i2c_slave_service.c).                               *)
(*                                                                         *)
(* External: the host, which writes frames <<pointer, data...>> and reads, *)
(* and the core, which has one window per direction, stretches the clock   *)
(* of a read until it is told rd_valid or its own deadline passes, and     *)
(* raises flags.  The master service behind is one step per byte: the chip *)
(* takes it or the call fails (I2cService has the details).                *)
(***************************************************************************)
EXTENDS Integers, Sequences

CONSTANTS
    RegCount,       \* registers of the device
    Frames,         \* frames the host writes
    SlaveValues,    \* bytes the chip may hold
    WindowBytes,    \* bytes of the core's write window
    FrameMax,       \* BVSTK_I2C_SLAVE_MAX_FRAME_BYTES
    WindowMax,      \* BVSTK_I2C_SLAVE_READ_WINDOW_BYTES
    QueueMax,       \* BVSTK_I2C_SLAVE_FREERTOS_QUEUE_LENGTH
    MaxPhases,      \* write and read phases of the host
    MaxBytes,       \* bytes the host takes in one read
    MaxMisses       \* failing calls of the master service

ASSUME SlaveAssumption ==
    /\ RegCount \in Nat \ {0} /\ WindowMax \in Nat \ {0} /\ MaxBytes \in Nat
    /\ MaxPhases \in Nat /\ MaxMisses \in Nat
    /\ WindowBytes \in Nat /\ FrameMax \in 0 .. WindowBytes
    /\ \A f \in Frames : f \in Seq(Nat) /\ f # <<>> /\ Len(f) <= WindowBytes
    /\ QueueMax \in Nat /\ QueueMax >= 3

VARIABLES
    adapter,    \* "freertos": interrupt queue and task; "neutrino": one thread
    host,       \* what the host is doing, with the pointer it relies on
    irq,        \* flags of the core
    hdr, data,  \* the write window: length in the header, bytes
    rdwin,      \* the read window, bytes with the register they come from
    slave,      \* "idle", "wait" (clock held, RD_REQUEST raised) or "serve"
    captured,   \* flags read and not yet acknowledged
    queue,      \* captured events
    task,       \* the event in work
    pointer, read_armed,  \* register_pointer, read_armed
    chip, valid,        \* registers of the chip; those valid in the cache
    phases, misses,
    \* History:
    sent,       \* the frame the host sent last
    loose,      \* the pointer the host left without reading
    calm,       \* since the last frame no transaction met a busy slave, no flag an acknowledge
    torn,       \* the last frame was put into a window in use
    missed      \* what ends the host's last transaction was lost

hostvars == <<host, phases, sent, loose>>
portvars == <<irq, hdr, data, rdwin, slave, captured>>
taskvars == <<queue, task, pointer, read_armed, chip, valid, misses>>
slavevars == <<adapter, hostvars, portvars, taskvars, calm, torn, missed>>

SlaveRegs == 0 .. RegCount - 1
NoPointer == -1
Resting == [at |-> "idle"]
Errors == {"ERR_ACK", "MEM_OVERFLOW"}
SlaveQuiet == irq = {} /\ queue = <<>> /\ task = Resting
----------------------------------------------------------------------------
(* Host and core. *)

Phase == phases < MaxPhases /\ phases' = phases + 1
Raise(flags) == irq' = irq \cup flags
\* The pointer a read can count on after the frame: one valid byte.
PointerOf(f) == IF Len(f) = 1 /\ f[1] < RegCount THEN f[1] ELSE NoPointer
\* From taking up a frame's event to clear_frame the task uses the window.
UsesWindow == task.at \in {"header", "bytes", "handle", "forward", "clear"}

\* The bytes of a frame reach the window before its header, over what is
\* there; a fragment that meets an unacknowledged interrupt is an overflow.
WriteData ==
    /\ host.at = "idle" /\ Phase
    /\ \E f \in Frames, then \in {"stop", "restart"} :
          /\ host' = [at |-> "header", then |-> then] /\ sent' = f
          /\ data' = [i \in 1 .. WindowBytes |-> IF i <= Len(f) THEN f[i] ELSE data[i]]
    /\ loose' = NoPointer /\ calm' = SlaveQuiet /\ torn' = UsesWindow
    /\ UNCHANGED <<adapter, irq, hdr, rdwin, slave, captured, missed, taskvars>>
WriteHeader ==
    /\ host.at = "header"
    /\ hdr' = Len(sent)
    /\ Raise({"DATA_VALID", "FINAL_PACKET"} \cup IF irq # {} THEN {"MEM_OVERFLOW"} ELSE {})
    /\ IF host.then = "stop"
       THEN host' = [at |-> "idle"] /\ loose' = PointerOf(sent)
       ELSE host' = [at |-> "turn", next |-> PointerOf(sent)] /\ UNCHANGED loose
    /\ missed' = FALSE
    /\ UNCHANGED <<adapter, data, rdwin, slave, captured, phases, sent, calm, torn, taskvars>>
\* Address with direction R, after a repeated START or on its own (then the
\* pointer of an earlier frame may still be armed).
ReadAddress ==
    /\ \/ /\ host.at = "turn" /\ UNCHANGED calm
          /\ host' = [at |-> "read", next |-> host.next, got |-> <<>>]
       \/ /\ host.at = "idle" /\ calm' = (calm /\ SlaveQuiet)
          /\ host' = [at |-> "read", next |-> loose, got |-> <<>>]
    /\ Phase /\ slave' = "wait" /\ Raise({"RD_REQUEST"}) /\ loose' = NoPointer
    /\ UNCHANGED <<adapter, hdr, data, rdwin, captured, sent, torn, missed, taskvars>>
\* A byte goes out; when it was the window's last the core asks for more.
ReadByte ==
    /\ slave = "serve" /\ Len(host.got) < MaxBytes
    /\ host' = [host EXCEPT !.got = Append(@, Head(rdwin))]
    /\ rdwin' = Tail(rdwin)
    /\ IF Len(rdwin) = 1 THEN slave' = "wait" /\ Raise({"RD_REQUEST"})
                         ELSE UNCHANGED <<slave, irq>>
    /\ UNCHANGED <<adapter, hdr, data, captured, phases, sent, loose, calm, torn, missed, taskvars>>
\* The host ends the read, or the core's deadline passes and the host gives
\* up.  An end raised beside a frame's DATA_VALID is not seen as one.
ReadEnds ==
    /\ host.at = "read" /\ slave \in {"serve", "wait"}
    /\ host.got # <<>> \/ slave = "wait"
    /\ \E flags \in {{"FINAL_PACKET"}, {"FINAL_PACKET", "ERR_ACK"}} :
          /\ "ERR_ACK" \in flags => slave = "wait"
          /\ host.got = <<>> => "ERR_ACK" \in flags
          /\ Raise(flags)
          /\ missed' = ("DATA_VALID" \in irq /\ "ERR_ACK" \notin flags)
    /\ host' = [at |-> "idle"] /\ slave' = "idle" /\ rdwin' = <<>>
    /\ UNCHANGED <<adapter, hdr, data, captured, phases, sent, loose, calm, torn, taskvars>>
----------------------------------------------------------------------------
(* Capturing an event: the interrupt handler, or on Neutrino the thread     *)
(* when it is ready to handle one. *)

\* The flags are read; REQ is read and the reset written after that, so what
\* the core raises in between is reset unread.
bvstk_i2c_slave_hw_capture_irq ==
    /\ captured = {} /\ irq # {}
    /\ adapter = "neutrino" => task = Resting /\ queue = <<>>
    /\ captured' = irq
    /\ UNCHANGED <<adapter, hostvars, irq, hdr, data, rdwin, slave, taskvars, calm, torn, missed>>
\* slave_isr puts the event in the queue, or drops it when that is full.
EventFits == adapter = "freertos" => Len(queue) < QueueMax
slave_isr ==
    /\ captured # {}
    /\ queue' = (IF EventFits THEN Append(queue, captured) ELSE queue)
    /\ irq' = {} /\ captured' = {}
    /\ calm' = (calm /\ irq = captured)
    /\ missed' = (missed \/ irq # captured \/ ~EventFits)
    /\ UNCHANGED <<adapter, hostvars, hdr, data, rdwin, slave, task, pointer, read_armed, chip,
                   valid, misses, torn>>
----------------------------------------------------------------------------
(* Handling it.  Go(at) takes the work on; Give(at) with a failed status.  *)

Go(at) == task' = [task EXCEPT !.at = at]
Give(at) == task' = [task EXCEPT !.at = at, !.ok = FALSE]
unseen == <<adapter, hostvars, irq, slave, captured, calm, missed>>

ReceiveEvent ==
    /\ task = Resting /\ queue # <<>>
    /\ queue' = Tail(queue)
    /\ task' = [at |-> IF "DATA_VALID" \in Head(queue) THEN "header" ELSE "reply",
                flags |-> Head(queue), ok |-> TRUE, size |-> 0, frame |-> <<>>, next |-> 0,
                window |-> <<>>]
    /\ torn' = (torn \/ ("DATA_VALID" \in Head(queue) /\ host.at = "header"))
    /\ UNCHANGED <<unseen, hdr, data, rdwin, pointer, read_armed, chip, valid, misses>>

\* bvstk_i2c_slave_hw_read_frame: header, then bytes.  A cleared header has
\* no address, so it does not match the target; a frame that is too long is
\* refused without its size.
read_header ==
    /\ task.at = "header"
    /\ IF hdr \in 1 .. FrameMax THEN task' = [task EXCEPT !.at = "bytes", !.size = hdr]
                                ELSE Give("clear")
    /\ UNCHANGED <<unseen, hdr, data, rdwin, torn, queue, pointer, read_armed, chip, valid, misses>>
\* A mistake: one byte too many is copied.
BytesOneMore(n) == [i \in 1 .. n + 1 |-> IF i <= WindowBytes THEN data[i] ELSE 0]
Bytes(n) == [i \in 1 .. n |-> data[i]]
read_bytes ==
    /\ task.at = "bytes"
    /\ task' = [task EXCEPT !.at = "handle", !.frame = Bytes(task.size)]
    /\ UNCHANGED <<unseen, hdr, data, rdwin, torn, queue, pointer, read_armed, chip, valid, misses>>

\* bvstk_i2c_slave_service_handle_frame, write phase: the old permission ends,
\* a valid pointer is taken, a frame of only a pointer permits a read.
Permits(frame) == Len(frame) = 1
handle_write ==
    /\ task.at = "handle"
    /\ LET reg == task.frame[1] IN
       IF reg >= RegCount
       THEN read_armed' = FALSE /\ Give("clear") /\ UNCHANGED pointer
       ELSE /\ pointer' = reg /\ read_armed' = Permits(task.frame)
            /\ task' = [task EXCEPT !.at = "forward", !.next = 2]
    /\ UNCHANGED <<unseen, hdr, data, rdwin, torn, queue, chip, valid, misses>>
\* The data go to consecutive registers, one call of the master service each,
\* until one fails or the last register is passed.
Target == task.frame[1] + task.next - 2
forward_write ==
    /\ task.at = "forward"
    /\ IF task.next > Len(task.frame) \/ Target >= RegCount
       THEN Go("clear") /\ UNCHANGED <<chip, valid, misses>>
       ELSE \/ /\ chip' = [chip EXCEPT ![Target] = task.frame[task.next]]
               /\ valid' = valid \cup {Target}
               /\ task' = [task EXCEPT !.next = @ + 1] /\ UNCHANGED misses
            \/ /\ misses < MaxMisses /\ misses' = misses + 1
               /\ valid' = valid \ {Target} /\ Give("clear") /\ UNCHANGED chip
    /\ UNCHANGED <<unseen, hdr, data, rdwin, torn, queue, pointer, read_armed>>
\* bvstk_i2c_slave_hw_clear_frame, whatever became of the frame: the header
\* and the words of the bytes that were read.
WordBytes == 4
Cleared(size) == WordBytes * ((size + WordBytes - 1) \div WordBytes)
clear_frame ==
    /\ task.at = "clear" /\ Go("reply")
    /\ hdr' = 0
    /\ data' = [i \in 1 .. WindowBytes |-> IF i <= Cleared(task.size) THEN 0 ELSE data[i]]
    /\ UNCHANGED <<unseen, rdwin, torn, queue, pointer, read_armed, chip, valid, misses>>

\* Read phase: a permitted read starts at the pointer.  load_window takes the
\* valid registers from there on; if the first is not valid it alone is
\* fetched from the chip.
WantsReply ==
    task.ok /\ task.flags \cap Errors = {} /\ "RD_REQUEST" \in task.flags /\ read_armed
ReadStart(reg) == IF reg >= RegCount THEN 0 ELSE reg
Cached(reg) ==
    LET n == CHOOSE k \in 0 .. WindowMax :
               /\ \A i \in 0 .. k - 1 : reg + i \in valid
               /\ k = WindowMax \/ reg + k \notin valid
    IN [i \in 1 .. n |-> [reg |-> reg + i - 1, val |-> chip[reg + i - 1]]]
\* A mistake: the last register of a window is asked for again.
AdvancedOneLess(reg, count) ==
    IF reg + count <= RegCount /\ count > 1 THEN reg + count - 1 ELSE (reg + count) % RegCount
Advanced(reg, count) == IF reg + count < RegCount THEN reg + count ELSE 0
load_window ==
    /\ task.at = "reply"
    /\ IF ~WantsReply THEN Go("end") /\ UNCHANGED <<pointer, valid, misses>>
       ELSE LET reg == ReadStart(pointer) IN
            \/ /\ reg \in valid
               /\ task' = [task EXCEPT !.at = "window", !.window = Cached(reg)]
               /\ pointer' = Advanced(reg, Len(Cached(reg))) /\ UNCHANGED <<valid, misses>>
            \/ /\ reg \notin valid
               /\ task' = [task EXCEPT !.at = "window",
                                       !.window = <<[reg |-> reg, val |-> chip[reg]]>>]
               /\ valid' = valid \cup {reg} /\ pointer' = Advanced(reg, 1) /\ UNCHANGED misses
            \/ /\ reg \notin valid /\ misses < MaxMisses /\ misses' = misses + 1
               /\ Give("end") /\ UNCHANGED <<pointer, valid>>
    /\ UNCHANGED <<unseen, hdr, data, rdwin, torn, queue, read_armed, chip>>
\* bvstk_i2c_slave_hw_write_read_window, then accept_read: rd_valid means
\* something to a core that waits.
accept_read ==
    /\ task.at = "window" /\ Go("end")
    /\ IF slave = "wait" THEN slave' = "serve" /\ rdwin' = task.window
                        ELSE UNCHANGED <<slave, rdwin>>
    /\ UNCHANGED <<adapter, hostvars, irq, captured, calm, missed, hdr, data, torn, queue, pointer,
                   read_armed, chip, valid, misses>>

\* A mistake: only errors end it.
EndsOnErrors(flags) == flags \cap Errors # {}
bvstk_i2c_slave_irq_ends_read(flags) ==
    flags \cap Errors # {} \/ ("FINAL_PACKET" \in flags /\ "DATA_VALID" \notin flags)
end_transaction ==
    /\ task.at = "end" /\ task' = Resting
    /\ read_armed' = (read_armed /\ task.ok /\ ~bvstk_i2c_slave_irq_ends_read(task.flags))
    /\ UNCHANGED <<unseen, hdr, data, rdwin, torn, queue, pointer, chip, valid, misses>>

SlaveInit ==
    /\ adapter \in {"freertos", "neutrino"}
    /\ host = [at |-> "idle"] /\ irq = {} /\ captured = {} /\ rdwin = <<>>
    /\ hdr = 0 /\ data = [i \in 1 .. WindowBytes |-> 0]
    /\ slave = "idle" /\ queue = <<>> /\ task = Resting /\ pointer = 0 /\ read_armed = FALSE
    /\ chip \in [SlaveRegs -> SlaveValues] /\ valid \in SUBSET SlaveRegs
    /\ phases = 0 /\ misses = 0
    /\ sent = <<>> /\ loose = NoPointer /\ calm = TRUE /\ torn = FALSE /\ missed = FALSE
HandleEvent ==
    \/ ReceiveEvent \/ read_header \/ read_bytes \/ handle_write \/ forward_write
    \/ clear_frame \/ load_window \/ accept_read \/ end_transaction
\* The handler preempts the task; Neutrino's thread does both in turn.
SlaveNext ==
    \/ WriteData \/ WriteHeader \/ ReadAddress \/ ReadByte \/ ReadEnds
    \/ bvstk_i2c_slave_hw_capture_irq \/ slave_isr
    \/ captured = {} /\ HandleEvent
SlaveSpec == SlaveInit /\ [][SlaveNext]_slavevars
----------------------------------------------------------------------------
(* Properties. *)

OwnBytes ==
    host.at = "read" =>
        /\ host.next = NoPointer => host.got = <<>>
        /\ \A i \in DOMAIN host.got :
              host.got[i].reg = (host.next + i - 1) % RegCount

\* The bytes a host gets are the registers from its own pointer on, in order
\* and with the wrap at the end, and a read for which no pointer was left
\* gets none (read phase of handle_frame: windows, prefetched requests and
\* coalesced flags do not shift or repeat a byte), provided that the host
\* began the frame, and every later read of its own, with the slave at rest
\* and no flag was raised just before an acknowledgement.
HostReadsItsPointer == calm => OwnBytes

\* What is forwarded to the chip is the host's last frame, whole, unless the
\* core put it into the window while the task used that (read_frame takes the
\* length first and the bytes after it, clear_frame wipes what it finds; a
\* queued, late, coalesced or dropped event does not forward a mixture).
ForwardsSentFrames == task.at = "forward" /\ ~torn => task.frame = sent

\* When the slave has come to rest a read is armed only by a pointer that the
\* host left for it ("Invalid frames and rejected writes must never leave an
\* older read armed"; a read that ended takes its permission with it), also
\* after frames that overtook each other, unless the event that tells the end
\* was lost or the last frame torn.
NoStaleArm ==
    SlaveQuiet /\ host.at = "idle" /\ read_armed /\ ~missed /\ ~torn => loose # NoPointer

\* Not kept by the code: a pointer frame settles the register that the host
\* reads next, whatever the read before it was doing.
PointerSetsTheStart == host.at = "read" /\ host.next # NoPointer => OwnBytes

\* Not kept by the code: at rest, with the window whole, an ended read has no
\* permission left.
EndTakesPermission ==
    SlaveQuiet /\ host.at = "idle" /\ read_armed /\ ~torn => loose # NoPointer
=============================================================================
