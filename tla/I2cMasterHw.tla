---------------------------- MODULE I2cMasterHw ----------------------------
(***************************************************************************)
(* The driver of the I2C master core (drivers/pl/i2c/bvstk_i2c_master.c),  *)
(* register access by register access: transfer_locked with its attempts,  *)
(* between the mutex being taken and given back.                           *)
(*                                                                         *)
(* The core is external.  It acts on START some time after the register    *)
(* was written, so its CSR may still read idle ("Idle alone can precede    *)
(* START or the BRAM writer"); a START that meets a busy core may be lost. *)
(* It takes the commands of its FIFO one by one, may go on after a STOP if *)
(* there are more, may hang, and writes what it read to the BRAM later.    *)
(* An MMIO access of an opened region does not fail.                       *)
(***************************************************************************)
EXTENDS Integers, Sequences

CONSTANTS
    HwCalls,        \* calls made one after the other
    HwAttempts      \* BVSTK_I2C_RECOVERY_ATTEMPTS

ASSUME HwAssumption == HwCalls \in Nat /\ HwAttempts \in Nat \ {0}

VARIABLES
    hwcall,     \* the call in work: kind "write", "read" or "none"
    hwat,       \* position in transfer_locked
    attempt,    \* attempts used up
    free,       \* what CSR bit 0 said when wait_completion read it last
    fifo,       \* commands in the TX FIFO, with the call they are of
    asked,      \* START is written, and the core has not acted on it
    core_state, \* "idle"; "runs": a command is to come; "ends": after a STOP
    flags,      \* IRQ register
    publishing, \* bytes on their way to the BRAM, by call
    bram,       \* number of the call whose bytes the BRAM holds
    calls,
    effects,    \* times the chip took the present call (history)
    early,      \* a write took an idle CSR for its end before the core had
                \* acted on START, and the core has not been at rest since (history)
    hwresult    \* outcome of the last call, with the bytes it returned (history)

hwvars == <<hwcall, hwat, attempt, free, fifo, asked, core_state, flags, publishing, bram, calls,
            effects, early, hwresult>>
corevars == <<fifo, asked, core_state, publishing, early>>
At(p) == hwat = p
To(p) == hwat' = p
CoreEmpty == fifo = <<>> /\ ~asked /\ publishing = 0

\* The call returns.
HwReturn(ok) ==
    /\ To("idle") /\ hwcall' = "none" /\ attempt' = 0
    /\ hwresult' = [ok |-> ok, bytes |-> IF ok /\ hwcall = "read" THEN bram ELSE 0,
                    kind |-> hwcall, call |-> calls, effects |-> effects]
\* recover: soft reset of the core; commands and pending bytes are gone.
recover ==
    /\ fifo' = <<>> /\ asked' = FALSE /\ core_state' = "idle" /\ publishing' = 0
    /\ early' = FALSE
\* After a failed attempt: another one, if any is left.
Again ==
    /\ recover
    /\ IF attempt + 1 < HwAttempts
       THEN attempt' = attempt + 1 /\ To("ready") /\ UNCHANGED <<hwcall, hwresult>>
       ELSE HwReturn(FALSE)

Call ==
    /\ At("idle") /\ calls < HwCalls /\ calls' = calls + 1
    /\ \E kind \in {"read", "write"} : hwcall' = kind
    /\ To("ready") /\ attempt' = 0 /\ effects' = 0
    /\ early' = (early /\ ~CoreEmpty)
    /\ UNCHANGED <<free, fifo, asked, core_state, flags, publishing, bram, hwresult>>
wait_ready ==
    /\ At("ready")
    /\ \/ core_state = "idle" /\ To("clear") /\ UNCHANGED <<hwcall, attempt, corevars, hwresult>>
       \/ core_state # "idle" /\ Again
    /\ UNCHANGED <<free, flags, bram, calls, effects>>
\* A mistake: flags of an earlier command are left.
keep_irq ==
    /\ At("clear") /\ To("push")
    /\ UNCHANGED <<hwcall, attempt, free, flags, bram, calls, effects, hwresult, corevars>>
clear_irq ==
    /\ At("clear") /\ To("push") /\ flags' = {}
    /\ UNCHANGED <<hwcall, attempt, free, bram, calls, effects, hwresult, corevars>>
\* Headers, with the bytes of the write phase; a read has both phases.
Headers(kind, call) ==
    IF kind = "read" THEN <<[cmd |-> "pointer", call |-> call], [cmd |-> "read", call |-> call]>>
    ELSE <<[cmd |-> "write", call |-> call]>>
push_commands ==
    /\ At("push") /\ To("start")
    /\ fifo' = fifo \o Headers(hwcall, calls)
    /\ UNCHANGED <<hwcall, attempt, free, asked, core_state, flags, publishing, bram, calls,
                   effects, early, hwresult>>
start ==
    /\ At("start") /\ To("csr")
    /\ \/ asked' = TRUE
       \/ core_state # "idle" /\ UNCHANGED asked
    /\ UNCHANGED <<hwcall, attempt, free, fifo, core_state, flags, publishing, bram, calls, effects,
                   early, hwresult>>

\* wait_completion: CSR first, then IRQ, then the deadline.
read_csr ==
    /\ At("csr") /\ To("irq")
    /\ free' = (core_state = "idle")
    /\ early' = (early \/ (free' /\ asked /\ hwcall = "write"))
    /\ UNCHANGED <<hwcall, attempt, fifo, asked, core_state, flags, publishing, bram, calls,
                   effects, hwresult>>
\* A refusal ends the call; an idle core ends a write, and a read once its
\* bytes are announced.
HwComplete == free /\ (hwcall = "read" => "DATA_VALID" \in flags)
OnNack == recover /\ HwReturn(FALSE)
read_irq ==
    /\ At("irq")
    /\ \/ "ERR_ACK" \in flags /\ OnNack
       \/ /\ "ERR_ACK" \notin flags /\ HwComplete /\ UNCHANGED corevars
          /\ IF hwcall = "read" THEN To("copy") /\ UNCHANGED <<hwcall, attempt, hwresult>>
                                ELSE HwReturn(TRUE)
       \/ /\ "ERR_ACK" \notin flags /\ ~HwComplete /\ To("late")
          /\ UNCHANGED <<hwcall, attempt, corevars, hwresult>>
    /\ UNCHANGED <<free, flags, bram, calls, effects>>
deadline ==
    /\ At("late")
    /\ \/ To("csr") /\ UNCHANGED <<hwcall, attempt, corevars, hwresult>>
       \/ Again
    /\ UNCHANGED <<free, flags, bram, calls, effects>>
\* The bytes are copied from the BRAM.
copy_bytes ==
    /\ At("copy") /\ HwReturn(TRUE)
    /\ UNCHANGED <<free, flags, bram, calls, effects, corevars>>
----------------------------------------------------------------------------
(* The core and the chip (external).                                       *)

drivervars == <<hwcall, hwat, attempt, free, calls, early, hwresult>>
CoreStarts ==
    /\ asked /\ core_state = "idle" /\ asked' = FALSE
    /\ core_state' \in IF fifo # <<>> THEN {"runs"} ELSE {"idle", "ends"}
    /\ UNCHANGED <<drivervars, fifo, flags, publishing, bram, effects>>
\* The next command is put on the bus: the chip takes it, or refuses an
\* address or a byte, and then the rest of the FIFO is dropped or not.  What
\* an earlier call left in the FIFO is no effect of the present one.
CoreRuns ==
    /\ core_state # "idle" /\ fifo # <<>>
    /\ LET c == Head(fifo) IN
       \/ /\ fifo' = Tail(fifo) /\ core_state' = IF c.cmd = "pointer" THEN "runs" ELSE "ends"
          /\ effects' = IF c.call = calls THEN effects + 1 ELSE effects
          /\ publishing' = IF c.cmd = "read" THEN c.call ELSE publishing
          /\ UNCHANGED flags
       \/ /\ fifo' \in {<<>>, Tail(fifo)} /\ core_state' = "ends"
          /\ flags' = flags \cup {"ERR_ACK"} /\ UNCHANGED <<publishing, effects>>
    /\ UNCHANGED <<drivervars, asked, bram>>
\* After a STOP the core goes idle, whether or not the FIFO is empty.
CoreStops ==
    /\ core_state = "ends" /\ core_state' = "idle"
    /\ UNCHANGED <<drivervars, fifo, asked, flags, publishing, bram, effects>>
CorePublishes ==
    /\ publishing # 0 /\ publishing' = 0
    /\ bram' = publishing /\ flags' = flags \cup {"DATA_VALID"}
    /\ UNCHANGED <<drivervars, fifo, asked, core_state, effects>>

HwInit ==
    /\ hwcall = "none" /\ hwat = "idle" /\ attempt = 0 /\ free = FALSE /\ fifo = <<>>
    /\ asked = FALSE /\ core_state = "idle" /\ flags = {} /\ publishing = 0 /\ bram = 0 /\ calls = 0
    /\ effects = 0 /\ early = FALSE
    /\ hwresult = [ok |-> FALSE, bytes |-> 0, kind |-> "none", call |-> 0, effects |-> 0]
HwNext ==
    \/ Call \/ wait_ready \/ clear_irq \/ push_commands \/ start
    \/ read_csr \/ read_irq \/ deadline \/ copy_bytes
    \/ CoreStarts \/ CoreRuns \/ CoreStops \/ CorePublishes
HwSpec == HwInit /\ [][HwNext]_hwvars
----------------------------------------------------------------------------
(* Properties. *)

\* A read that succeeds returns the bytes of its own command, "never bytes
\* left by an earlier request", whatever an earlier write has left behind.  A
\* call that returns, and any failed one, leaves nothing in the core that
\* could act on the bus or fill the BRAM later, and a write that succeeds was
\* taken by the chip, at most once per attempt: unless a write has taken an
\* idle CSR for its end too early (transfer_locked, wait_completion).
TransferHonest ==
    /\ hwresult.ok /\ hwresult.kind = "read" => hwresult.bytes = hwresult.call
    /\ At("idle") /\ (early => ~hwresult.ok) => CoreEmpty
    /\ At("idle") /\ ~early /\ hwresult.ok /\ hwresult.kind = "write" =>
          hwresult.effects \in 1 .. HwAttempts

\* What a write reported as good has brought about, once the core is at rest:
\* the chip took it ("the cache reflects the value that was sent").
WrittenIsTaken ==
    At("idle") /\ CoreEmpty /\ core_state = "idle" /\ hwresult.ok /\ hwresult.kind = "write" =>
        effects >= 1
=============================================================================
