------------------------------ MODULE QspiFlash ------------------------------
(* The serial flash that holds the boot image and, above it, the window of  *)
(* the file system, as the two images drive it.                             *)
(*                                                                          *)
(* "freertos": FatFs calls disk_write, qspi_write_sector rewrites one 512   *)
(*   byte block by reading, erasing and programming the 4 KiB erase sector  *)
(*   around it; main() runs qspi_flash_self_test on every boot.             *)
(* "neutrino": the resource manager /dev/bvstk-qspi-fat does the same under *)
(*   one mutex, with opcodes that carry three address bytes.                *)
(*                                                                          *)
(* The unit of an address is the I/O block.  A chip keeps the low part of   *)
(* an address that its opcode can carry: Span says how many blocks that is. *)
(* External: the chip finishes an erase or a program before the drivers'    *)
(* five second limit, and the power may fail between any two commands.      *)
EXTENDS Integers, Sequences

CONSTANTS
    Images,         \* the images a behaviour may run
    FlashBlocks,    \* size of the chip
    SectorBlocks,   \* blocks of one erase sector
    BaseBlock,      \* first block of the file system window
    WindowBlocks,   \* size of the window
    Span,           \* [image -> blocks its opcodes can address]
    Reach,          \* [image -> end of the positions its clients write to]
    Patterns,       \* contents a caller writes
    MaxRequest,     \* longest request, in blocks
    QspiRequests    \* bound on the requests of a behaviour

(* Chip and window are made of erase sectors; what an image can address is  *)
(* a part of the chip, for FreeRTOS (four address bytes) all of it.         *)
ASSUME QspiAssumption ==
    /\ SectorBlocks \in Nat \ {0} /\ FlashBlocks \in Nat \ {0} /\ BaseBlock \in Nat
    /\ WindowBlocks \in Nat /\ MaxRequest \in Nat /\ QspiRequests \in Nat
    /\ BaseBlock % SectorBlocks = 0 /\ FlashBlocks % SectorBlocks = 0
    /\ BaseBlock + WindowBlocks <= FlashBlocks
    /\ Images \subseteq {"freertos", "neutrino"} /\ Span["freertos"] = FlashBlocks
    /\ \A i \in Images : /\ Span[i] \in Nat \ {0} /\ Span[i] % SectorBlocks = 0
                         /\ Span[i] <= FlashBlocks /\ Reach[i] \in Nat

VARIABLES
    image,      \* the image that runs
    flash,      \* content of every block of the chip
    qspijob,    \* the call in progress
    known,      \* history: what the block must hold, Unknown after damage
    requests    \* number of requests made

qspivars == <<image, flash, qspijob, known, requests>>

Erased  == "ff"
TornBlock    == "torn"       \* bits of two contents, or half a program
Boot    == "boot"
Fat     == "fat"
TestPattern == "test"
Unknown == "unknown"

AllBlocks == 0 .. FlashBlocks - 1
SectorOf(b) == {c \in AllBlocks : c \div SectorBlocks = b \div SectorBlocks}
FirstOf(b) == b - (b % SectorBlocks)
TestSector == FlashBlocks - SectorBlocks
QspiIdle == [op |-> "idle"]

(* The block the chip selects for an address put into a command.            *)
Chip(a) == a % Span[image]

(* What a read of the erase sector at a returns.                            *)
qspi_read(a) == [i \in 0 .. SectorBlocks - 1 |-> flash[Chip(a + i)]]

(* Programming only clears bits: a block that was not erased is damaged.    *)
Programmed(old, v) ==
    IF old = Erased THEN v ELSE IF v \in {Erased, old} THEN old ELSE TornBlock

----------------------------------------------------------------------------
(* The commands of a call.  A sector is rewritten by one erase and a program *)
(* for each of its blocks; Done is the return to the caller.                 *)
Cmd(k, i, v) == [k |-> k, i |-> i, v |-> v]
EraseCmd == Cmd("erase", 0, Erased)
Done     == Cmd("done", 0, Erased)
qspi_flash_program(c) ==
    [i \in 1 .. SectorBlocks |-> Cmd("program", i - 1, c[i - 1])]
RewriteCmds(c) == <<EraseCmd>> \o qspi_flash_program(c)

\* A mistake: the rest of the sector is taken to be erased.
PatchedFresh(old, i, v) == [[j \in DOMAIN old |-> Erased] EXCEPT ![i] = v]

(* The sector content to program: the copy read from the chip with the      *)
(* caller's block put in.                                                   *)
Patched(old, i, v) == [old EXCEPT ![i] = v]

(* The resource manager clips a request to the window before it starts;     *)
(* FatFs' glue checks every block when it reaches it.                       *)
Clipped(pos, n) ==
    IF image = "neutrino" /\ pos + n > WindowBlocks THEN WindowBlocks - pos ELSE n

NextCmd(k) == qspijob.op # "idle" /\ qspijob.plan # <<>> /\ Head(qspijob.plan).k = k
Rest == [qspijob EXCEPT !.plan = Tail(@)]

----------------------------------------------------------------------------
FsWrite == \E pos \in 0 .. WindowBlocks, n \in 1 .. MaxRequest, v \in Patterns :
    /\ qspijob = QspiIdle /\ requests < QspiRequests
    /\ pos + n <= Reach[image]
    /\ Clipped(pos, n) > 0
    /\ qspijob' = [op |-> "write", at |-> 0, pos |-> pos, left |-> Clipped(pos, n),
               v |-> v, plan |-> <<>>, backup |-> QspiIdle]
    /\ requests' = requests + 1
    /\ UNCHANGED <<image, flash, known>>

(* A block outside the window: a parameter error, the blocks before it stay *)
(* written.                                                                 *)
Refuse == /\ qspijob.op = "write" /\ qspijob.plan = <<>> /\ qspijob.pos >= WindowBlocks
          /\ qspijob' = QspiIdle
          /\ UNCHANGED <<image, flash, known, requests>>

(* Read the erase sector around the block and patch the copy.  The resource *)
(* manager reads once more and leaves a sector that would not change alone. *)
Load == /\ qspijob.op = "write" /\ qspijob.plan = <<>> /\ qspijob.pos < WindowBlocks
        /\ LET b == BaseBlock + qspijob.pos
               a == FirstOf(b)
               c == Patched(qspi_read(a), b - a, qspijob.v)
           IN qspijob' = [qspijob EXCEPT !.at = a,
                        !.plan = (IF image = "neutrino" /\ c = qspi_read(a)
                                  THEN <<>> ELSE RewriteCmds(c)) \o <<Done>>]
        /\ UNCHANGED <<image, flash, known, requests>>

Erase == /\ NextCmd("erase")
         /\ flash' = [b \in AllBlocks |->
                        IF b \in SectorOf(Chip(qspijob.at)) THEN Erased ELSE flash[b]]
         /\ qspijob' = Rest
         /\ UNCHANGED <<image, known, requests>>

Program == /\ NextCmd("program")
           /\ LET s == Head(qspijob.plan)
              IN flash' = [flash EXCEPT ![Chip(qspijob.at + s.i)] = Programmed(@, s.v)]
           /\ qspijob' = Rest
           /\ UNCHANGED <<image, known, requests>>

(* The block is written; the loop of the caller goes on with the next one.  *)
BlockDone == /\ NextCmd("done")
             /\ \/ /\ qspijob.op = "write"
                   /\ known' = [known EXCEPT ![BaseBlock + qspijob.pos] = qspijob.v]
                   /\ qspijob' = IF qspijob.left = 1 THEN QspiIdle
                             ELSE [qspijob EXCEPT !.left = @ - 1, !.pos = @ + 1,
                                              !.plan = <<>>]
                \/ qspijob.op = "test" /\ qspijob' = QspiIdle /\ UNCHANGED known
             /\ UNCHANGED <<image, flash, requests>>

(* The boot-time self-test of the FreeRTOS image works on the last sector   *)
(* of the chip, which belongs to the window: keep a copy, erase, program a  *)
(* pattern into its first page, read it back, then erase and program the    *)
(* copy.                                                                    *)
TestCmds(c) ==
    <<EraseCmd, Cmd("program", 0, TestPattern), Cmd("verify", 0, TestPattern)>>
    \o RewriteCmds(c) \o <<Done>>
SelfTest == /\ image = "freertos" /\ qspijob = QspiIdle /\ requests = 0
            /\ qspijob' = [op |-> "test", at |-> TestSector, pos |-> 0, left |-> 0,
                       v |-> TestPattern, plan |-> TestCmds(qspi_read(TestSector)),
                       backup |-> qspi_read(TestSector)]
            /\ requests' = 1
            /\ UNCHANGED <<image, flash, known>>

(* A mismatch only changes the report: the restore follows either way.      *)
Verify == /\ NextCmd("verify")
          /\ qspijob' = Rest
          /\ UNCHANGED <<image, flash, known, requests>>

(* A command fails: the controller gives up before, during or after the     *)
(* chip has done its part.  A write returns the error to its caller; the    *)
(* self-test goes to the restore unless it was erasing.                     *)
Aftermath(k) ==
    CASE k = "erase"   -> {flash, [b \in AllBlocks |->
                             IF b \in SectorOf(Chip(qspijob.at)) THEN Erased ELSE flash[b]]}
      [] k = "program" -> LET s == Head(qspijob.plan)
                              b == Chip(qspijob.at + s.i)
                          IN {flash, [flash EXCEPT ![b] = TornBlock],
                              [flash EXCEPT ![b] = Programmed(@, s.v)]}
      [] OTHER         -> {flash}

(* The blocks whose content nobody can tell after the call breaks off: the  *)
(* erase sector under way, or a block written but not yet reported.         *)
InDoubt == CASE qspijob.plan = <<>>   -> {}
             [] NextCmd("done")   -> IF qspijob.op = "write" THEN {BaseBlock + qspijob.pos}
                                     ELSE {}
             [] OTHER             -> SectorOf(Chip(qspijob.at))
Damaged == [b \in AllBlocks |-> IF b \in InDoubt THEN Unknown ELSE known[b]]

InPattern == Len(qspijob.plan) > SectorBlocks + 2

Fail == \E k \in {"erase", "program", "verify"} :
    /\ NextCmd(k)
    /\ flash' \in Aftermath(k)
    /\ IF qspijob.op = "test" /\ InPattern /\ k # "erase"
       THEN /\ qspijob' = [qspijob EXCEPT !.plan = RewriteCmds(qspijob.backup) \o <<Done>>]
            /\ UNCHANGED known
       ELSE qspijob' = QspiIdle /\ known' = Damaged
    /\ UNCHANGED <<image, requests>>

(* A read fails before anything is erased.                                  *)
ReadFails == /\ qspijob.op = "write" /\ qspijob.plan = <<>>
             /\ qspijob' = QspiIdle
             /\ UNCHANGED <<image, flash, known, requests>>

(* Nothing on the chip changes when the power fails between two commands,   *)
(* but a sector under way stays half written.                               *)
PowerLoss == /\ qspijob # QspiIdle
             /\ qspijob' = QspiIdle
             /\ known' = Damaged
             /\ UNCHANGED <<image, flash, requests>>

QspiInit == /\ image \in Images
            /\ flash = [b \in AllBlocks |-> IF b < BaseBlock THEN Boot ELSE Fat]
            /\ known = flash
            /\ qspijob = QspiIdle
            /\ requests = 0

QspiNext == \/ FsWrite \/ Refuse \/ Load \/ ReadFails \/ Erase \/ Program
            \/ BlockDone \/ SelfTest \/ Verify \/ Fail \/ PowerLoss
QspiSpec == QspiInit /\ [][QspiNext]_qspivars

----------------------------------------------------------------------------
(* Between calls every block holds what was last written to it, whatever    *)
(* was rewritten, failed or lost power around it: a completed block write   *)
(* keeps its neighbours in the erase sector, a request refused at the end   *)
(* of the window touches nothing beyond it, the self-test puts the volume's *)
(* last sector back, and a failure damages one erase sector at most.        *)
FlashKeepsWrites ==
    qspijob = QspiIdle => \A b \in AllBlocks : known[b] # Unknown => flash[b] = known[b]

(* No operation of the file system changes the boot area below the window   *)
(* ("Keep the FatFs window above that reserved area").                      *)
BootUntouched == \A b \in 0 .. BaseBlock - 1 : flash[b] = Boot
=============================================================================
