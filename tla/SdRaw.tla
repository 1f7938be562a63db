------------------------------- MODULE SdRaw -------------------------------
(* The Neutrino resource manager for the SD card of the processor          *)
(* (bvstk_sd_raw.c).  One card is published as two files, the whole card   *)
(* and its FAT partition; requests of both go through one mutex and are    *)
(* split into single-sector commands on the SDHCI host controller.         *)
(*                                                                         *)
(* A sector takes four steps, each of which may run into its time limit:   *)
(* issue the command when the inhibit bits allow it, wait for the command, *)
(* wait for the buffer and copy, wait for the end of the transfer.  A step *)
(* that gives up leaves the controller as it is; what it was waiting for   *)
(* may still arrive.                                                       *)
EXTENDS Integers, Sequences

CONSTANTS
    CardSectors,    \* sector_count
    Tables,         \* partition tables a card may carry
    RawContents,    \* what clients write
    MaxRun,         \* longest request, in sectors
    RawRequests     \* bound on the requests

VARIABLES
    card,       \* content of every sector
    expected,   \* history: what the sector must hold, "unknown" when in doubt
    fat,        \* fat_start_sector and fat_sector_count
    hc,         \* inhibit bits, status bits and command of the controller
    io,         \* the request being served
    rawreqs

rawvars == <<card, expected, fat, hc, io, rawreqs>>

Sectors == 0 .. CardSectors - 1

(* A card has sectors, and a partition table entries with a first sector    *)
(* and a number of sectors.                                                 *)
ASSUME CardAssumption ==
    /\ CardSectors \in Nat /\ MaxRun \in Nat /\ RawRequests \in Nat
    /\ Tables \subseteq Seq([fat : BOOLEAN, start : Nat, count : Nat])

NoIo == [kind |-> "none"]
NoXfer == [kind |-> "none", s |-> 0, v |-> "none", stage |-> "none"]

(* sd_init_card: the first entry with a FAT type that lies on the card.     *)
Fits(e) == e.fat /\ e.count # 0 /\ e.start < CardSectors
           /\ e.count <= CardSectors - e.start
Partition(t) ==
    LET ok == {i \in DOMAIN t : Fits(t[i])}
    IN IF ok = {} THEN [start |-> 0, count |-> 0]
       ELSE t[CHOOSE i \in ok : \A j \in ok : i <= j]

(* sd_view_for_ocb, and the clipping of a request to the view it came in by.*)
View(file) == IF file = "fat" THEN fat ELSE [start |-> 0, count |-> CardSectors]
ClippedCount(view, pos, n) == IF n < view.count - pos THEN n ELSE view.count - pos

Request == \E file \in {"raw", "fat"}, kind \in {"read", "write"},
              pos \in Sectors, n \in 1 .. MaxRun, v \in RawContents :
    /\ io = NoIo /\ rawreqs < RawRequests
    /\ pos < View(file).count
    /\ io' = [kind |-> kind, s |-> View(file).start + pos, v |-> v, pc |-> "issue",
              left |-> ClippedCount(View(file), pos, n), file |-> file]
    /\ rawreqs' = rawreqs + 1
    /\ UNCHANGED <<card, expected, fat, hc>>

(* The request ends in an error: of a sector under way nothing is known.    *)
GiveUp == /\ io' = NoIo
          /\ expected' = IF io.kind = "write" /\ io.pc # "issue"
                         THEN [expected EXCEPT ![io.s] = "unknown"] ELSE expected

sd_clear_status(st) == {}

(* sd_read_blocks and sd_write_blocks check the sector against the card.    *)
Issue == /\ io # NoIo /\ io.pc = "issue" /\ io.s \in Sectors
         /\ hc.inhibit = {}
         /\ hc' = [inhibit |-> {"cmd", "data"}, st |-> sd_clear_status(hc.st),
                     x |-> [kind |-> io.kind, s |-> io.s, v |-> io.v, stage |-> "cmd"]]
         /\ io' = [io EXCEPT !.pc = "cmd"]
         /\ UNCHANGED <<card, expected, fat, rawreqs>>

Wanted == CASE io.pc = "cmd"    -> "cc"
            [] io.pc = "buffer" -> "buf"
            [] io.pc = "end"    -> "tc"

(* The awaited status bit is set and no error with it.  The copy moves the  *)
(* sector between the caller and the controller's buffer.                   *)
Proceed == /\ io # NoIo /\ io.pc \in {"cmd", "buffer", "end"}
           /\ Wanted \in hc.st /\ "err" \notin hc.st
           /\ CASE io.pc = "cmd" ->
                     /\ io' = [io EXCEPT !.pc = "buffer"]
                     /\ hc' = [hc EXCEPT !.st = @ \ {"cc"}]
                     /\ UNCHANGED expected
                [] io.pc = "buffer" ->
                     /\ io' = [io EXCEPT !.pc = "end"]
                     /\ hc' = [hc EXCEPT !.st = @ \ {"buf"}, !.x.stage = "end"]
                     /\ UNCHANGED expected
                [] io.pc = "end" ->
                     /\ io' = IF io.left = 1 THEN NoIo
                              ELSE [io EXCEPT !.pc = "issue", !.s = @ + 1,
                                              !.left = @ - 1]
                     /\ hc' = [hc EXCEPT !.st = @ \ {"tc"}]
                     /\ expected' = IF io.kind = "write"
                                    THEN [expected EXCEPT ![io.s] = io.v]
                                    ELSE expected
           /\ UNCHANGED <<card, fat, rawreqs>>

(* A wait ends with the error bit, or runs out.  Only the command wait's    *)
(* and the buffer wait's time limits leave the status register alone.       *)
Break == /\ io # NoIo
         /\ \/ io.pc = "issue" /\ hc.inhibit # {}
            \/ io.pc # "issue" /\ (Wanted \notin hc.st \/ "err" \in hc.st)
         /\ GiveUp
         /\ hc' = IF io.pc = "end" \/ ("err" \in hc.st /\ io.pc # "issue")
                    THEN [hc EXCEPT !.st = {}] ELSE hc
         /\ UNCHANGED <<card, fat, rawreqs>>

----------------------------------------------------------------------------
(* External: the controller and the card.                                   *)
Set(bit, stage, inh) ==
    hc' = [hc EXCEPT !.st = @ \cup {bit}, !.x.stage = stage, !.inhibit = inh]

CommandEnds == /\ hc.x.stage = "cmd"
               /\ Set("cc", "buffer", {"data"})
               /\ UNCHANGED <<card, expected, fat, io, rawreqs>>
BufferReady == /\ hc.x.stage = "buffer"
               /\ Set("buf", "copy", {"data"})
               /\ UNCHANGED <<card, expected, fat, io, rawreqs>>
TransferEnds == /\ hc.x.stage = "end"
                /\ Set("tc", "none", {})
                /\ card' = IF hc.x.kind = "write"
                           THEN [card EXCEPT ![hc.x.s] = hc.x.v] ELSE card
                /\ UNCHANGED <<expected, fat, io, rawreqs>>

(* An error ends the transfer; a write may or may not have reached the card.*)
TransferFails == /\ hc.x.stage \in {"cmd", "buffer", "end"}
                 /\ \E inh \in {{}, {"data"}} : Set("err", "none", inh)
                 /\ card' \in {card, IF hc.x.kind = "write" /\ hc.x.stage = "end"
                                     THEN [card EXCEPT ![hc.x.s] = hc.x.v]
                                     ELSE card}
                 /\ UNCHANGED <<expected, fat, io, rawreqs>>

CardInit == /\ \E t \in Tables : fat = Partition(t) /\ fat.count # 0
            /\ card = [s \in Sectors |-> "old"]
            /\ expected = card
            /\ hc = [inhibit |-> {}, st |-> {}, x |-> NoXfer]
            /\ io = NoIo
            /\ rawreqs = 0
CardNext == \/ Request \/ Issue \/ Proceed \/ Break
            \/ CommandEnds \/ BufferReady \/ TransferEnds \/ TransferFails
CardSpec == CardInit /\ [][CardNext]_rawvars

----------------------------------------------------------------------------
(* Between requests every sector of the card holds what was last written to *)
(* it through either file, so that success is never reported on the         *)
(* completion of an earlier, abandoned transfer; and a request through the  *)
(* FAT file never commands a sector outside the partition.                  *)
CardKeepsWrites ==
    IF io = NoIo
    THEN \A s \in Sectors : expected[s] # "unknown" => card[s] = expected[s]
    ELSE io.file = "fat" /\ io.pc # "issue" =>
             fat.start <= io.s /\ io.s < fat.start + fat.count
=============================================================================
