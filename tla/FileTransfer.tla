---------------------------- MODULE FileTransfer ----------------------------
(***************************************************************************)
(* The DCP2 file service of one connection: the stream handles of          *)
(* bvstk_dcp2_fs.c, the reader of bvstk_fs_reader.c that turns a file, a   *)
(* directory or an archive into a sequence of blocks, and the FatFs        *)
(* backend of fs_dcp2_backend.c.                                           *)
(*                                                                         *)
(* The volume is locked for one backend call at a time, so a READ of one   *)
(* block is a run of steps between which consoles and browsers change the  *)
(* files.  A file that changes under an open FIL reads as anything: FatFs  *)
(* goes on along the old cluster chain.  Every file has the same time      *)
(* stamp (get_fattime is constant), so only its size tells a change.       *)
(* Any backend call may fail: the mutex wait, the heap, the medium.        *)
(*                                                                         *)
(* Data is counted in units; TarUnits units make one 512-byte TAR block.   *)
(***************************************************************************)
EXTENDS Integers, Sequences, FiniteSets, SequencesExt, FiniteSetsExt

CONSTANTS
    Layout,      \* directory -> its slots in order: names of files and directories
    TopDir,      \* the directory the client asks for
    StoredFiles, \* the names of files
    Handles,     \* BVSTK_DCP2_FS_HANDLES_MAX handles, 1..n
    Kinds,       \* what the client opens: "file", "tree" or "tar"
    BlockUnits,  \* the block size of a stream
    TarUnits,    \* units of a TAR block
    MaxSize,     \* bound: units of a file
    MaxOpens,    \* bound: handles given out
    MaxRewrites, \* bound: changes by other clients
    MaxFaults    \* bound: failed backend calls

AllNames == StoredFiles \cup DOMAIN Layout
TreeNames == AllNames \ {TopDir}

(* The directories form one tree below the one that is asked for.          *)
ASSUME FileTransferBounds ==
    /\ {BlockUnits, TarUnits} \subseteq Nat \ {0}
    /\ {MaxSize, MaxOpens, MaxRewrites, MaxFaults} \subseteq Nat
    /\ Handles \subseteq Nat /\ Kinds \subseteq {"file", "tree", "tar"}
    /\ TopDir \in DOMAIN Layout /\ StoredFiles \cap DOMAIN Layout = {}
    /\ \A d \in DOMAIN Layout : Layout[d] \in Seq(TreeNames)
    /\ \A C \in SUBSET AllNames :
          /\ TopDir \in C
          /\ \A d \in C \cap DOMAIN Layout : \A k \in DOMAIN Layout[d] : Layout[d][k] \in C
          => C = AllNames

VARIABLES
    media,       \* file -> [here, size, ver]
    heap,        \* backend objects allocated: <<handle, 0 for its file, or the depth>>
    handles,     \* slot -> handle and its reader
    next_handle, \* the number of the next handle
    request,     \* the request in service
    replies,     \* handle -> the replies given for its blocks
    opens,       \* handle -> what was opened: [kind, name, size]
    steady,      \* handles whose files nobody has changed since they were opened
    honest,      \* every repeated reply has been the first one again
    rewrites, faults

xfervars == <<media, heap, handles, next_handle, request, replies, opens, steady, honest, rewrites, faults>>

Header(name, size) == <<"head", name, size>>
Zero == <<"zero", "", 0>>
Data(name, ver) == <<"data", name, ver>>
Junk == -1

NoHandle == [id |-> 0]
Quiet == [op |-> "none"]

Padding(size) == (TarUnits - (size % TarUnits)) % TarUnits
(* stage_tar_entry; the end of the archive is two zero blocks.             *)
stage_tar_entry(name, size) == <<Header(name, size)>> \o [i \in 1..TarUnits - 1 |-> Zero]
ArchiveEnd == [i \in 1..2 * TarUnits |-> Zero]

-----------------------------------------------------------------------------
TransferInit ==
    /\ \E size \in [StoredFiles -> 0..MaxSize] :
          media = [f \in StoredFiles |-> [here |-> TRUE, size |-> size[f], ver |-> 0]]
    /\ heap = {}
    /\ handles = [i \in Handles |-> NoHandle]
    /\ next_handle = 1 /\ request = Quiet
    /\ replies = <<>> /\ opens = <<>> /\ steady = {} /\ honest = TRUE
    /\ rewrites = 0 /\ faults = 0

(* Consoles and browsers: rewrite, remove or create a file, each in one    *)
(* locked call.                                                            *)
Rewrite(f) ==
    /\ rewrites < MaxRewrites
    /\ rewrites' = rewrites + 1
    /\ \E size \in 0..MaxSize, here \in BOOLEAN :
          media' = [media EXCEPT ![f] = [here |-> here, size |-> IF here THEN size ELSE 0, ver |-> rewrites + 1]]
    /\ steady' = {h \in steady : opens[h].kind = "file" /\ opens[h].name # f}
    /\ UNCHANGED <<heap, handles, next_handle, request, replies, opens, honest, faults>>

-----------------------------------------------------------------------------
(* Handles.                                                                *)

OpenObjects(r) == {r.id} \X (DOMAIN r.dirs \cup (IF r.file = <<>> THEN {} ELSE {0}))
reader_close_file(r) == [r EXCEPT !.file = <<>>, !.phase = "finished"]  \* A mistake: the directories stay open
(* bvstk_fs_reader_close frees the open file and the directory stack. *)
bvstk_fs_reader_close(r) == [r EXCEPT !.file = <<>>, !.dirs = <<>>, !.phase = "finished"]

Live(i) == handles[i] # NoHandle
(* What a close gives back. *)
Freed(r) == OpenObjects(r) \ OpenObjects(bvstk_fs_reader_close(r))

(* OPEN finds the handle of a repeated open_id, or a free slot. *)
Holding(oid) == {i \in Handles : Live(i) /\ handles[i].open_id = oid}
FreeSlots == {i \in Handles : ~ Live(i)}

Reopen(oid, kind, name) ==
    /\ request = Quiet /\ Holding(oid) # {}
    /\ LET r == handles[Min(Holding(oid))]
       IN  r.kind = kind /\ r.root = name
    /\ UNCHANGED xfervars

(* open_response: stat, then open; a size that differs is a change. *)
OpenStats(oid, kind, name) ==
    /\ request = Quiet /\ Holding(oid) = {} /\ FreeSlots # {} /\ next_handle <= MaxOpens
    /\ kind = "file" => media[name].here
    /\ request' = [op |-> "open", slot |-> Min(FreeSlots), oid |-> oid, kind |-> kind, name |-> name,
                   size |-> IF kind = "file" THEN media[name].size ELSE 0]
    /\ UNCHANGED <<media, heap, handles, next_handle, replies, opens, steady, honest, rewrites, faults>>

OpenDone ==
    /\ request.op = "open"
    /\ request.kind = "file" => media[request.name].here /\ media[request.name].size = request.size
    /\ handles' = [handles EXCEPT ![request.slot] =
          [id |-> next_handle, open_id |-> request.oid, kind |-> request.kind, root |-> request.name,
           phase |-> IF request.kind = "file" THEN "data" ELSE "walk",
           file |-> IF request.kind = "file" THEN <<request.name, media[request.name].ver>> ELSE <<>>,
           info |-> [name |-> request.name, size |-> request.size],
           remaining |-> request.size, padding |-> 0, stage |-> <<>>,
           dirs |-> IF request.kind = "file" THEN <<>> ELSE <<[dir |-> request.name, pos |-> 0]>>,
           has |-> FALSE, last |-> 0, cached |-> <<>>, eof |-> FALSE, term |-> FALSE]]
    /\ heap' = heap \cup {<<next_handle, IF request.kind = "file" THEN 0 ELSE 1>>}
    /\ next_handle' = next_handle + 1
    /\ replies' = Append(replies, <<>>)
    /\ opens' = Append(opens, [kind |-> request.kind, name |-> request.name, size |-> request.size])
    /\ steady' = steady \cup {next_handle}
    /\ request' = Quiet
    /\ UNCHANGED <<media, honest, rewrites, faults>>

(* The open fails: what it allocated is freed. *)
OpenFails ==
    /\ request.op = "open"
    /\ \/ request.kind = "file" /\ (~ media[request.name].here \/ media[request.name].size # request.size) /\ UNCHANGED faults
       \/ faults < MaxFaults /\ faults' = faults + 1
    /\ request' = Quiet
    /\ UNCHANGED <<media, heap, handles, next_handle, replies, opens, steady, honest, rewrites>>

(* close_handle: by CLOSE, by bvstk_dcp2_fs_expire after 30 idle seconds.   *)
close_handle(i) ==
    /\ request = Quiet /\ Live(i)
    /\ heap' = heap \ Freed(handles[i])
    /\ handles' = [handles EXCEPT ![i] = NoHandle]
    /\ UNCHANGED <<media, next_handle, request, replies, opens, steady, honest, rewrites, faults>>

(* bvstk_dcp2_fs_destroy at the end of the connection, then a new session. *)
bvstk_dcp2_fs_destroy ==
    /\ request = Quiet /\ next_handle > 1
    /\ heap' = heap \ UNION {Freed(handles[i]) : i \in {j \in Handles : Live(j)}}
    /\ handles' = [i \in Handles |-> NoHandle]
    /\ next_handle' = 1
    /\ replies' = <<>> /\ opens' = <<>> /\ steady' = {}
    /\ UNCHANGED <<media, request, honest, rewrites, faults>>

-----------------------------------------------------------------------------
(* READ: the block asked for is the last one again, or the next one.       *)

AsksAgain(r, block) == r.has /\ block = r.last
AsksNext(r, block) == IF r.has THEN ~ r.eof /\ block = r.last + 1 ELSE block = 0

Replied(id, block, data, eof) ==
    IF block < Len(replies[id])
    THEN honest' = (honest /\ replies[id][block + 1] = <<data, eof>>) /\ UNCHANGED replies
    ELSE replies' = [replies EXCEPT ![id] = Append(@, <<data, eof>>)] /\ UNCHANGED honest

ReadAgain(i, block) ==
    /\ request = Quiet /\ Live(i) /\ ~ handles[i].term
    /\ AsksAgain(handles[i], block)
    /\ Replied(handles[i].id, block, handles[i].cached, handles[i].eof)
    /\ UNCHANGED <<media, heap, handles, next_handle, request, opens, steady, rewrites, faults>>

ReadStarts(i, block) ==
    /\ request = Quiet /\ Live(i) /\ ~ handles[i].term
    /\ ~ AsksAgain(handles[i], block) /\ AsksNext(handles[i], block)
    /\ request' = [op |-> "read", slot |-> i, block |-> block, fill |-> <<>>]
    /\ UNCHANGED <<media, heap, handles, next_handle, replies, opens, steady, honest, rewrites, faults>>

-----------------------------------------------------------------------------
(* bvstk_fs_reader_read: one backend call, or one copy, a step.            *)

Reading == request.op = "read"
r0 == handles[request.slot]
Space == BlockUnits - Len(request.fill)
Least(a, b) == IF a < b THEN a ELSE b

Goes(r, units) ==
    /\ handles' = [handles EXCEPT ![request.slot] = r]
    /\ request' = [request EXCEPT !.fill = @ \o units]
    /\ heap' = (heap \ OpenObjects(r0)) \cup OpenObjects(r)
    /\ UNCHANGED <<media, next_handle, replies, opens, steady, honest, rewrites>>

TakeStage ==
    /\ Reading /\ Space > 0 /\ r0.stage # <<>>
    /\ LET n == Least(Space, Len(r0.stage))
       IN  Goes([r0 EXCEPT !.stage = SubSeq(@, n + 1, Len(@))], SubSeq(r0.stage, 1, n))
    /\ UNCHANGED faults

(* What f_read gives for a file that has changed since it was opened.      *)
Seen(file) == IF media[file[1]].ver = file[2] THEN {file[2]} ELSE {file[2], media[file[1]].ver, Junk}

TakesData == Space > 0 /\ r0.stage = <<>> /\ r0.phase = "data" /\ r0.remaining > 0
TakeData ==
    /\ Reading /\ TakesData
    /\ LET n == Least(Space, r0.remaining)
       IN  \E ver \in Seen(r0.file) :
               Goes([r0 EXCEPT !.remaining = @ - n], [k \in 1..n |-> Data(r0.file[1], ver)])
    /\ UNCHANGED faults

(* finish_file, in the loop or after it: the file's size is checked again. *)
FileDone == r0.stage = <<>> /\ r0.phase = "data" /\ r0.remaining = 0
Unchanged(r) == media[r.info.name].here /\ media[r.info.name].size = r.info.size
finish_file ==
    /\ Reading /\ FileDone /\ Unchanged(r0)
    /\ Goes(IF r0.kind = "file" THEN [r0 EXCEPT !.file = <<>>, !.phase = "finished"]
            ELSE [r0 EXCEPT !.file = <<>>, !.phase = "padding", !.padding = Padding(r0.info.size)], <<>>)
    /\ UNCHANGED faults

TakePadding ==
    /\ Reading /\ Space > 0 /\ r0.stage = <<>> /\ r0.phase = "padding"
    /\ LET n == Least(Space, r0.padding)
       IN  Goes([r0 EXCEPT !.padding = @ - n, !.phase = IF n = r0.padding THEN "walk" ELSE @],
                [k \in 1..n |-> Zero])
    /\ UNCHANGED faults

Walks == Reading /\ Space > 0 /\ r0.stage = <<>> /\ r0.phase = "walk"
Filled(dir, k) == Layout[dir][k] \in StoredFiles => media[Layout[dir][k]].here
Ahead(top) == {k \in top.pos + 1..Len(Layout[top.dir]) : Filled(top.dir, k)}

(* next_entry: the next entry of the innermost directory. *)
next_entry ==
    /\ Walks /\ r0.dirs # <<>>
    /\ LET top == Last(r0.dirs)
           k == Min(Ahead(top))
           name == Layout[top.dir][k]
           on == [r0 EXCEPT !.dirs[Len(r0.dirs)].pos = k]
       IN  /\ Ahead(top) # {}
           /\ Goes(IF name \in StoredFiles
                   THEN [on EXCEPT !.info = [name |-> name, size |-> media[name].size],
                                   !.phase = IF r0.kind = "tar" THEN "opening" ELSE "walk",
                                   !.stage = IF r0.kind = "tar" THEN <<>> ELSE <<Header(name, media[name].size)>>]
                   ELSE [on EXCEPT !.dirs = Append(@, [dir |-> name, pos |-> 0]),
                                   !.stage = IF r0.kind = "tar" THEN stage_tar_entry(name, 0)
                                             ELSE <<Header(name, 0)>>], <<>>)
    /\ UNCHANGED faults

(* A file of an archive is opened by its path, after the directory named it. *)
open_file ==
    /\ Reading /\ r0.phase = "opening" /\ Unchanged(r0)
    /\ Goes([r0 EXCEPT !.file = <<r0.info.name, media[r0.info.name].ver>>, !.phase = "data",
                       !.remaining = r0.info.size,
                       !.stage = stage_tar_entry(r0.info.name, r0.info.size)], <<>>)
    /\ UNCHANGED faults

DirectoryEnds ==
    /\ Walks /\ r0.dirs # <<>> /\ Ahead(Last(r0.dirs)) = {}
    /\ Goes([r0 EXCEPT !.dirs = Front(@)], <<>>)
    /\ UNCHANGED faults

WalkEnds ==
    /\ Walks /\ r0.dirs = <<>>
    /\ Goes([r0 EXCEPT !.phase = "finished", !.stage = IF r0.kind = "tar" THEN ArchiveEnd ELSE <<>>], <<>>)
    /\ UNCHANGED faults

eof_unstaged(r) == r.phase = "finished"  \* A mistake: bytes still staged do not count
Eof(r) == r.phase = "finished" /\ r.stage = <<>>

(* The block is full, or the stream has ended. *)
BlockDone ==
    /\ Reading /\ ~ FileDone
    /\ Space = 0 \/ (r0.phase = "finished" /\ r0.stage = <<>>)
    /\ LET eof == Eof(r0)
       IN  /\ handles' = [handles EXCEPT ![request.slot] = [r0 EXCEPT !.has = TRUE, !.last = request.block,
                                                            !.cached = request.fill, !.eof = eof]]
           /\ Replied(r0.id, request.block, request.fill, eof)
    /\ request' = Quiet
    /\ UNCHANGED <<media, heap, next_handle, opens, steady, rewrites, faults>>

(* A backend call fails or finds the file changed: the reader is closed    *)
(* and the error stays with the handle.                                    *)
ReadFails ==
    /\ Reading
    /\ \/ (FileDone \/ r0.phase = "opening") /\ ~ Unchanged(r0) /\ UNCHANGED faults
       \/ TakesData /\ media[r0.file[1]].ver # r0.file[2] /\ UNCHANGED faults
       \/ /\ faults < MaxFaults /\ faults' = faults + 1
          /\ r0.stage = <<>> /\ r0.phase \in {"data", "walk", "opening"}
    /\ handles' = [handles EXCEPT ![request.slot] = [bvstk_fs_reader_close(r0) EXCEPT !.term = TRUE, !.stage = <<>>]]
    /\ heap' = heap \ Freed(r0)
    /\ request' = Quiet
    /\ UNCHANGED <<media, next_handle, replies, opens, steady, honest, rewrites>>

OpenIds == 1..MaxOpens
Requests ==
    \/ \E oid \in OpenIds, kind \in Kinds, name \in StoredFiles \cup {TopDir} :
          /\ (kind = "file") = (name \in StoredFiles)
          /\ Reopen(oid, kind, name) \/ OpenStats(oid, kind, name)
    \/ \E i \in Handles, block \in 0..BlockUnits * 10 : ReadAgain(i, block) \/ ReadStarts(i, block)
    \/ \E i \in Handles : close_handle(i)

Reader ==
    \/ TakeStage \/ TakeData \/ finish_file \/ TakePadding \/ next_entry \/ open_file
    \/ DirectoryEnds \/ WalkEnds \/ BlockDone \/ ReadFails

TransferNext ==
    \/ Requests \/ OpenDone \/ OpenFails \/ Reader \/ bvstk_dcp2_fs_destroy
    \/ \E f \in StoredFiles : Rewrite(f)

TransferSpec == TransferInit /\ [][TransferNext]_xfervars

-----------------------------------------------------------------------------
(* Properties.                                                             *)

Got(h) == FlattenSeq([b \in DOMAIN replies[h] |-> replies[h][b][1]])
Ended(h) == replies[h] # <<>> /\ Last(replies[h])[2]

(* A sequence of units is an archive: headers, each with the data it       *)
(* announces and the padding, then two zero blocks and nothing more.       *)
IsArchive(u) ==
    LET good[i \in 1..Len(u) + 1] ==
            IF i > Len(u) THEN FALSE
            ELSE IF u[i] = Zero THEN SubSeq(u, i, Len(u)) = ArchiveEnd
            ELSE /\ u[i][1] = "head"
                 /\ LET size == u[i][3]
                        end == i + TarUnits + size + Padding(size)
                    IN  /\ end <= Len(u)
                        /\ \A j \in i + 1..end - 1 :
                              IF j \in i + TarUnits..i + TarUnits + size - 1
                              THEN u[j][1] = "data" /\ u[j][2] = u[i][2]
                              ELSE u[j] = Zero
                        /\ good[end]
    IN  good[1]

Listed(u) == {u[i][2] : i \in {j \in DOMAIN u : u[j][1] = "head"}}

(* A stream that reached EOF is complete: a file has the announced size,   *)
(* an archive is well formed whatever changed meanwhile; and if nothing    *)
(* changed, it is the present contents and names every object.  No block   *)
(* but the last is empty, and a block asked for again is the block that    *)
(* was given: a handle never comes to mean another stream.                 *)
StreamWhole ==
    /\ honest
    /\ \A h \in DOMAIN replies :
        /\ \A b \in DOMAIN replies[h] : replies[h][b][1] = <<>> => replies[h][b][2]
        /\ Ended(h) =>
              LET u == Got(h)
                  o == opens[h]
                  fresh == \A i \in DOMAIN u : u[i][1] = "data" => u[i][3] = media[u[i][2]].ver
              IN  /\ o.kind = "file" => Len(u) = o.size
                  /\ o.kind = "tar" => IsArchive(u)
                  /\ h \in steady =>
                        /\ fresh
                        /\ o.kind # "file" =>
                              Listed(u) = {n \in TreeNames : n \in StoredFiles => media[n].here}

(* The objects the backend has allocated are the open files and directories *)
(* of the live handles and nothing else, so closing, expiry and the end of  *)
(* the connection free all.                                                 *)
NoLeak == heap = UNION {OpenObjects(handles[i]) : i \in {j \in Handles : Live(j)}}
=============================================================================
