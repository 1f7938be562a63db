----------------------------- MODULE SdService -----------------------------
(* The SD card behind the programmable logic: the service that serialises  *)
(* its users (bvstk_sd_service.c), the driver that runs one command on the *)
(* core and its DMA (bvstk_sd_master.c), and the disk port that gives the  *)
(* file system one FAT volume of the card (bvstk_sd_pl.c, bvstk_sd_volume).*)
(*                                                                         *)
(* Users: the console's raw commands and FatFs.  A service call holds the  *)
(* mutex from begin to finish and is a list of driver commands; while one  *)
(* runs, interrupt, reply, DMA completions and errors arrive in any order  *)
(* or not at all, and the wait may run out at any moment.                  *)
EXTENDS Integers, Sequences

CONSTANTS
    Lbas,           \* blocks of the card, 0 .. n
    PartStart,      \* where the partition table puts the partition
    VolSectors,     \* sectors its boot sector declares
    Contents,       \* what users write
    Profiles,       \* values of reinitialize_between_commands
    RawCalls,       \* bound on the console's service calls
    FsCalls,        \* bound on the file system's service calls
    MaxFaults       \* bound on the faults of card, core and scheduler

VARIABLES
    media,      \* [Lbas -> content]
    core,       \* core and card as the driver meets them
    svc,        \* bvstk_sd_service_t
    call,       \* the service call that holds the mutex
    fsport,     \* s_attempted, s_ready, s_volume of bvstk_sd_pl.c
    req,        \* the FatFs request being split into blocks
    shell,      \* what the console has learnt before a raw command
    result,     \* result of the last service call
    broken,     \* history: an I/O error of the file system was reported
    sdcalls, faults

sdvars == <<media, core, svc, call, fsport, req, shell, result, broken,
            sdcalls, faults>>

NoCall == [who |-> "none"]
NoReq  == [kind |-> "none"]
NoCmd  == [c |-> "none", l |-> 0, v |-> "none"]
Mbr    == "mbr"
Bpb    == "bpb"
Junk   == "junk"
AnyContent == "any"

(* The card is a run of blocks that holds the volume; the name for any      *)
(* content is not a content.                                                *)
ASSUME SdAssumption ==
    /\ Lbas \subseteq Nat /\ \A l \in Lbas : 0 .. l \subseteq Lbas
    /\ PartStart \in Nat /\ VolSectors \in Nat \ {0} /\ PartStart + VolSectors - 1 \in Lbas
    /\ AnyContent \notin Contents /\ Profiles \subseteq BOOLEAN
    /\ RawCalls \in Nat /\ FsCalls \in Nat /\ MaxFaults \in Nat

ErrIo == "io"
ErrTimeout == "timeout"

(* One driver command: read (CMD17), write (CMD24), status (CMD13), block   *)
(* length (CMD16) or the initialisation sequence.                           *)
SdCommand(c, l, v) == [c |-> c, l |-> l, v |-> v]
ReadOp(l, want)  == SdCommand("read", l, want)
WriteOp(l, v)    == SdCommand("write", l, v)

----------------------------------------------------------------------------
(* Service.                                                                 *)

\* A mistake: nobody asks who owns the card.
begin_unowned(require_ready, filesystem) ==
    call = NoCall /\ (require_ready => svc.ready)

(* begin: the mutex is free, the caller is on the side that owns the card,  *)
(* and the card is initialised where the call needs that.                   *)
begin(require_ready, filesystem) ==
    /\ call = NoCall
    /\ svc.owned = filesystem
    /\ require_ready => svc.ready

(* finish: an I/O error, a timeout or an internal error has reset the core; *)
(* only an explicit initialisation makes the card ready again.              *)
finish(s, st) == [s EXCEPT !.ready = @ /\ st \notin {ErrIo, ErrTimeout, "internal"}]

\* A mistake: the volume goes on after an error.
report_quietly(p, st) == p

(* report_error: after any failure the volume is off until a restart.       *)
report_error(p, st) == IF st = "ok" THEN p ELSE [p EXCEPT !.ready = FALSE]

(* FAT volume found by bvstk_sd_volume_probe in sector content c read at l. *)
bpb(c, l) == IF c = Bpb THEN <<[first |-> l, sectors |-> VolSectors]>> ELSE <<>>

(* bvstk_sd_volume_map: the request lies inside the volume.                 *)
bvstk_sd_volume_map(v, s, n) == n > 0 /\ s < v.sectors /\ n <= v.sectors - s

(* What the FatFs side does with the end of one of its calls: the next      *)
(* probe read or block, or the end of the request.                          *)
AfterFs(st, got) ==
    /\ broken' = (broken \/ st # "ok")
    /\ LET p == report_error(fsport, st) IN
       CASE st # "ok" -> fsport' = p /\ req' = NoReq
         [] st = "ok" /\ req.kind = "claim" ->
              fsport' = p /\ req' = [kind |-> "probe", l |-> 0]
         [] st = "ok" /\ req.kind = "probe" ->
              IF bpb(got, req.l) # <<>>
              THEN fsport' = [p EXCEPT !.ready = TRUE, !.vol = bpb(got, req.l)[1]]
                   /\ req' = NoReq
              ELSE /\ fsport' = p
                   /\ req' = IF got = Mbr /\ req.l = 0
                             THEN [req EXCEPT !.l = PartStart] ELSE NoReq
         [] OTHER ->
              /\ fsport' = p
              /\ req' = IF req.left = 1 THEN NoReq
                        ELSE [req EXCEPT !.l = @ + 1, !.left = @ - 1]

SdDone(s, st, got) ==
    /\ svc' = finish(s, st)
    /\ call' = NoCall
    /\ result' = [st |-> st, ops |-> call.ops, got |-> got]
    /\ IF call.who = "fs" THEN AfterFs(st, got)
       ELSE UNCHANGED <<fsport, req, broken>>

----------------------------------------------------------------------------
(* Console: sd_pl_handle looks at the ownership first and calls afterwards. *)
ShellLooks == /\ shell = "idle" /\ call = NoCall /\ ~svc.owned
              /\ shell' = "cleared"
              /\ UNCHANGED <<media, core, svc, call, fsport, req, result, broken,
                             sdcalls, faults>>

RawPlans ==
    {<<SdCommand("status", 0, "none")>>, <<SdCommand("blocklen", 0, "none")>>}
    \cup {<<ReadOp(l, AnyContent)>> : l \in Lbas}
    \cup {<<WriteOp(l, v), ReadOp(l, v)>> : l \in Lbas, v \in Contents}
    \cup {[i \in 1 .. 2 |-> WriteOp(l + i - 1, v)] \o [i \in 1 .. 2 |-> ReadOp(l + i - 1, v)] :
            l \in {k \in Lbas : k + 1 \in Lbas}, v \in Contents}

StartCall(who, ops) ==
    /\ sdcalls[who] < (IF who = "fs" THEN FsCalls ELSE RawCalls)
    /\ sdcalls' = [sdcalls EXCEPT ![who] = @ + 1]
    /\ call' = [who |-> who, ops |-> ops, at |-> 1, ph |-> "next"]

RawCall == \E ops \in RawPlans :
    /\ shell = "cleared" /\ shell' = "idle"
    /\ begin(TRUE, FALSE)
    /\ StartCall("raw", ops)
    /\ UNCHANGED <<media, core, svc, fsport, req, result, broken, faults>>

(* initialize_locked forgets the card before it starts.                     *)
Forgotten(s) == [s EXCEPT !.ready = FALSE, !.ocr = "none", !.since = FALSE]
InitPlan == <<SdCommand("init", 0, "none")>>
RawInit == /\ shell = "cleared" /\ shell' = "idle"
           /\ begin(FALSE, FALSE)
           /\ StartCall("raw", InitPlan)
           /\ svc' = Forgotten(svc)
           /\ UNCHANGED <<media, core, fsport, req, result, broken, faults>>

(* A raw command that begin refuses, or that finds the mutex taken for a    *)
(* second.                                                                  *)
RawRefused == /\ shell = "cleared" /\ shell' = "idle"
              /\ ~begin(TRUE, FALSE)
              /\ UNCHANGED <<media, core, svc, call, fsport, req, result, broken,
                             sdcalls, faults>>

----------------------------------------------------------------------------
(* File system: disk_initialize claims the card once per boot ...           *)
FsClaim == /\ ~fsport.attempted /\ req = NoReq
           /\ begin(FALSE, FALSE)
           /\ StartCall("fs", InitPlan)
           /\ svc' = [Forgotten(svc) EXCEPT !.owned = TRUE]
           /\ fsport' = [fsport EXCEPT !.attempted = TRUE]
           /\ req' = [kind |-> "claim"]
           /\ UNCHANGED <<media, core, shell, result, broken, faults>>

(* ... and reads or writes runs of sectors, one service call per sector.    *)
FsRequest == \E kind \in {"read", "write"}, s \in 0 .. VolSectors, n \in 1 .. 2,
                v \in Contents :
    /\ fsport.ready /\ req = NoReq /\ sdcalls["fs"] < FsCalls
    /\ bvstk_sd_volume_map(fsport.vol, s, n)
    /\ req' = [kind |-> kind, l |-> fsport.vol.first + s, left |-> n, v |-> v]
    /\ UNCHANGED <<media, core, svc, call, fsport, shell, result, broken, sdcalls,
                   faults>>

FsOps == CASE req.kind \in {"probe", "read"} -> <<ReadOp(req.l, AnyContent)>>
           [] req.kind = "write" -> <<WriteOp(req.l, req.v), ReadOp(req.l, req.v)>>
FsBlock == /\ req.kind \in {"probe", "read", "write"}
           /\ begin(TRUE, TRUE)
           /\ StartCall("fs", FsOps)
           /\ UNCHANGED <<media, core, svc, fsport, req, shell, result, broken,
                          faults>>

(* The mutex is not obtained within a second: the holder is at work, or a   *)
(* console copying the state was preempted.                                 *)
FsLockTimeout ==
    /\ \/ ~fsport.attempted /\ req = NoReq /\ call # NoCall
       \/ /\ req.kind \in {"probe", "read", "write"} /\ call.who # "fs"
          /\ faults < MaxFaults
    /\ fsport' = [report_error(fsport, ErrTimeout) EXCEPT !.attempted = TRUE]
    /\ req' = NoReq /\ broken' = TRUE
    /\ faults' = IF fsport.attempted THEN faults + 1 ELSE faults
    /\ UNCHANGED <<media, core, svc, call, shell, result, sdcalls>>

----------------------------------------------------------------------------
(* Driver.                                                                  *)
Op == call.ops[call.at]
Abort == [core EXCEPT !.up = FALSE, !.cmd = NoCmd, !.sig = {}]

(* Everything a command waits for is put back before it starts: DMA reset,  *)
(* interrupt count, mailbox and receive area.                               *)
Armed(c) == [core EXCEPT !.cmd = c, !.sig = {}, !.reply = "sentinel",
                         !.buf = Junk, !.crc = FALSE, !.used = TRUE]

(* prepare_command: the isolated profile initialises the card before every  *)
(* command but the first after an initialisation.                           *)
prepare_command == svc.isolated /\ svc.since

StartInit == /\ call # NoCall /\ call.ph = "next"
             /\ \/ Op.c = "init" \/ prepare_command
             /\ core' = [Abort EXCEPT !.used = FALSE,
                           !.cmd = SdCommand("init", 0, "none"), !.reply = "sentinel"]
             /\ call' = [call EXCEPT !.ph = "init"]
             /\ UNCHANGED <<media, svc, fsport, req, shell, result, broken, sdcalls,
                            faults>>

StartCommand == /\ call # NoCall /\ call.ph \in {"next", "prepared"} /\ Op.c # "init"
                /\ call.ph = "next" => ~prepare_command
                /\ core' = Armed(Op)
                /\ svc' = [svc EXCEPT !.since = TRUE]
                /\ call' = [call EXCEPT !.ph = "cmd"]
                /\ UNCHANGED <<media, fsport, req, shell, result, broken, sdcalls,
                               faults>>

Needed == CASE core.cmd.c = "init" -> {"irq", "reply"}
            [] core.cmd.c = "read" -> {"irq", "reply", "tx", "rx"}
            [] OTHER               -> {"irq", "reply", "tx"}
Complete == Needed \subseteq core.sig /\ "err" \notin core.sig

(* The initialisation ends.  Its reply must agree with the card the service *)
(* knows; a byte-addressed card is refused by the isolated profile and      *)
(* needs its block length set otherwise.                                    *)
InitDone == /\ call # NoCall /\ call.ph = "init" /\ Complete
            /\ core' = [core EXCEPT !.cmd = NoCmd, !.up = TRUE]
            /\ IF Op.c = "init"
               THEN LET s == [svc EXCEPT !.ocr = core.reply] IN
                    CASE core.reply = "sdsc" /\ svc.isolated ->
                           SdDone(s, "unsupported", Junk)
                      [] core.reply = "sdsc" /\ ~svc.isolated ->
                           /\ svc' = s
                           /\ call' = [call EXCEPT !.ph = "next",
                                         !.ops = <<SdCommand("blocklen", 0, "init")>>]
                           /\ UNCHANGED <<fsport, req, result, broken>>
                      [] OTHER -> SdDone([s EXCEPT !.ready = TRUE], "ok", Junk)
               ELSE IF core.reply = svc.ocr
                    THEN /\ svc' = [svc EXCEPT !.since = FALSE]
                         /\ call' = [call EXCEPT !.ph = "prepared"]
                         /\ UNCHANGED <<fsport, req, result, broken>>
                    ELSE SdDone(svc, ErrIo, Junk)
            /\ UNCHANGED <<media, shell, sdcalls, faults>>

(* compare: the block read back is the block written.                       *)
compare(op, got) == op.c # "read" \/ op.v \in {AnyContent, got}

CommandDone ==
    /\ call # NoCall /\ call.ph = "cmd" /\ Complete
    /\ LET good == core.reply # "bad" /\ (Op.c = "read" => core.crc)
           st == IF good /\ compare(Op, core.buf) THEN "ok" ELSE ErrIo
       IN /\ core' = IF good THEN [core EXCEPT !.cmd = NoCmd] ELSE Abort
          /\ IF st = "ok" /\ call.at < Len(call.ops)
             THEN /\ call' = [call EXCEPT !.at = @ + 1, !.ph = "next"]
                  /\ UNCHANGED <<svc, fsport, req, result, broken>>
             ELSE SdDone([svc EXCEPT !.ready = @ \/ (Op.v = "init" /\ st = "ok")],
                         st, core.buf)
    /\ UNCHANGED <<media, shell, sdcalls, faults>>

(* The wait ends without the answer, or on a DMA error: abort_transfer, no  *)
(* retry.                                                                   *)
CommandFails ==
    /\ call # NoCall /\ call.ph \in {"init", "cmd"} /\ ~Complete
    /\ core' = Abort
    /\ \E st \in {ErrIo, ErrTimeout} :
         /\ st = ErrIo <=> "err" \in core.sig
         /\ SdDone(svc, st, Junk)
    /\ faults < MaxFaults /\ faults' = faults + 1
    /\ UNCHANGED <<media, shell, sdcalls>>

----------------------------------------------------------------------------
(* External: the core and the card.                                         *)
CardSignals == \E f \in {"irq", "tx", "err"} :
    /\ core.cmd # NoCmd /\ f \notin core.sig
    /\ f = "err" => faults < MaxFaults
    /\ core' = [core EXCEPT !.sig = @ \cup {f}]
    /\ faults' = IF f = "err" THEN faults + 1 ELSE faults
    /\ UNCHANGED <<media, svc, call, fsport, req, shell, result, broken, sdcalls>>

(* The reply; a write takes effect, is lost, or spoils the block.           *)
CardReplies == \E good \in BOOLEAN, ocr \in {"sdhc", "sdsc"} :
    /\ core.cmd # NoCmd /\ "reply" \notin core.sig
    /\ core.cmd.c # "init" => ocr = "sdhc"
    /\ LET w == core.cmd.c = "write"
           r == IF core.cmd.c = "init" THEN ocr ELSE IF good \/ w THEN "ok" ELSE "bad"
       IN /\ core' = [core EXCEPT !.sig = @ \cup {"reply"}, !.reply = r]
          /\ \/ good /\ media' = IF w THEN [media EXCEPT ![core.cmd.l] = core.cmd.v]
                                 ELSE media
             \/ ~good /\ media' \in {media, IF w THEN [media EXCEPT ![core.cmd.l] = Junk]
                                            ELSE media}
    /\ good \/ faults < MaxFaults
    /\ faults' = IF good THEN faults ELSE faults + 1
    /\ UNCHANGED <<svc, call, fsport, req, shell, result, broken, sdcalls>>

(* The data of a read, intact or damaged on the way.                        *)
CardSends == \E good \in BOOLEAN :
    /\ core.cmd.c = "read" /\ "rx" \notin core.sig
    /\ core' = [core EXCEPT !.sig = @ \cup {"rx"}, !.crc = good,
                  !.buf = IF good THEN media[core.cmd.l] ELSE Junk]
    /\ good \/ faults < MaxFaults
    /\ faults' = IF good THEN faults ELSE faults + 1
    /\ UNCHANGED <<media, svc, call, fsport, req, shell, result, broken, sdcalls>>

SdInit ==
    /\ media = [l \in Lbas |-> CASE l = 0 -> Mbr [] l = PartStart -> Bpb
                                 [] OTHER -> "old"]
    /\ core = [up |-> FALSE, used |-> FALSE, cmd |-> NoCmd, sig |-> {},
               reply |-> "sentinel", buf |-> Junk, crc |-> FALSE]
    /\ svc \in [ready : {FALSE}, owned : {FALSE}, since : {FALSE}, ocr : {"none"},
                isolated : Profiles]
    /\ call = NoCall /\ req = NoReq /\ shell = "idle"
    /\ fsport = [attempted |-> FALSE, ready |-> FALSE,
               vol |-> [first |-> 0, sectors |-> 0]]
    /\ result = [st |-> "none", ops |-> <<>>, got |-> Junk]
    /\ broken = FALSE /\ sdcalls = [who \in {"raw", "fs"} |-> 0] /\ faults = 0

SdNext == \/ ShellLooks \/ RawCall \/ RawInit \/ RawRefused
          \/ FsClaim \/ FsRequest \/ FsBlock \/ FsLockTimeout
          \/ StartInit \/ StartCommand \/ InitDone \/ CommandDone \/ CommandFails
          \/ CardSignals \/ CardReplies \/ CardSends
SdSpec == SdInit /\ [][SdNext]_sdvars

----------------------------------------------------------------------------
(* A call that reports success has told the truth: every block it wrote is  *)
(* on the card, and the data of a read are the card's.                      *)
SdHonest ==
    call = NoCall /\ result.st = "ok" =>
        /\ \A i \in DOMAIN result.ops : result.ops[i].c = "write" =>
               media[result.ops[i].l] = result.ops[i].v
        /\ \A i \in DOMAIN result.ops : result.ops[i].c = "read" =>
               result.got = media[result.ops[Len(result.ops)].l]

(* Once the file system has claimed the card, the card changes only through *)
(* the file system and only inside its volume: a console that looked before *)
(* the claim cannot write after it, and sector numbers never reach the      *)
(* partition table or a neighbour.                                          *)
MediaOwnership ==
    [][media' # media /\ svc.owned =>
         /\ call.who = "fs"
         /\ \A l \in Lbas : media'[l] # media[l] =>
                fsport.vol.first <= l /\ l < fsport.vol.first + fsport.vol.sectors]_sdvars

(* "I/O stopped ... restart required": after a reported error no further    *)
(* file system command reaches the card.                                    *)
StopsAfterFailure ==
    [][broken => ~(call = NoCall /\ call'.who = "fs")]_sdvars

(* The isolated profile never gives the core a second command without an    *)
(* initialisation in between, and no profile gives one to a core that has   *)
(* not been initialised since its last reset.                               *)
FreshCore ==
    [][core.cmd # core'.cmd /\ core'.cmd.c \notin {"none", "init"} =>
         core.up /\ (svc.isolated => ~core.used)]_sdvars

(* Who may command the card and when: MediaOwnership and FreshCore.         *)
CoreAccess == MediaOwnership /\ FreshCore
=============================================================================
