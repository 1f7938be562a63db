------------------------------- MODULE FileOps -------------------------------
(***************************************************************************)
(* The FAT volumes and the commands that change them: the console's cp,    *)
(* mv, rm, touch, write, append and mkdir (fs_shell.c over fs_shared.c),   *)
(* the file routes of the HTTP server (http_fs_routes.c, tar.c) and the    *)
(* file pages of the web interface (http_ui_files.c).                      *)
(*                                                                         *)
(* Every call on a volume holds the volume's mutex from its first FatFs    *)
(* call to its last, so one locked call is one step here; a command made   *)
(* of several locked calls (the looks of cp and mv, the copy and the       *)
(* removal of a move between volumes) is several steps, and the other      *)
(* clients run in between.  Any FatFs call may fail, as may the wait for   *)
(* the mutex: a locked call is the set of its possible outcomes, and a     *)
(* failed one keeps what it had done so far.                               *)
(*                                                                         *)
(* FAT compares names without case; the code compares paths by strcmp.  A  *)
(* path given by a client is therefore a sequence of <<name, spelling>>,   *)
(* and the object it denotes is known by the names alone.                  *)
(***************************************************************************)
EXTENDS Naturals, Sequences, SequencesExt

CONSTANTS
    Consoles,    \* console sessions (serial, telnet, SSH)
    Browsers,    \* HTTP clients
    Volumes,
    Preserved,   \* volumes with preserve_media: never formatted
    Names,       \* names as FAT tells them apart
    Starts,      \* the volumes' contents at start: [volume -> tree]
    Sources,     \* the objects the commands name
    Targets,     \* the places copies and moves go to
    MaxDepth,    \* bound: components of a path
    FileLen,     \* blocks of a file written by a client
    MaxVersion,  \* bound: contents written
    MaxCmds      \* bound: commands given

ASSUME FileOpsBounds == /\ {MaxDepth, FileLen, MaxVersion, MaxCmds} \subseteq Nat
                        /\ Preserved \subseteq Volumes

VARIABLES
    disk,     \* volume -> object -> node
    vol,      \* volume -> "unmounted", "ready" or "stopped"
    cmd,      \* client -> the command it is in
    arch,     \* browser -> the archive it downloaded
    version,  \* contents written so far
    given     \* commands given so far

vars == <<disk, vol, cmd, arch, version, given>>

Clients == Consoles \cup Browsers

-----------------------------------------------------------------------------
(* FatFs as the code uses it (external): trees of nodes, found by name.    *)

Objects == UNION {[1..n -> Names] : n \in 0..MaxDepth}
None == [kind |-> "none", data |-> <<>>]
Dir == [kind |-> "dir", data |-> <<>>]
File(data) == [kind |-> "file", data |-> data]

IsDir(t, v, o) == t[v][o].kind = "dir"
IsFile(t, v, o) == t[v][o].kind = "file"
Exists(t, v, o) == t[v][o] # None
Room(t, v, o) == o \in Objects /\ o # <<>> /\ IsDir(t, v, Front(o))
Below(o) == {x \in Objects : IsPrefix(o, x)}
Rest(o, x) == SubSeq(x, Len(o) + 1, Len(x))

(* The tree below an object: relative path -> node. *)
Tree(t, v, o) ==
    LET found == {x \in Below(o) : Exists(t, v, x)}
    IN  [r \in {Rest(o, x) : x \in found} |-> t[v][o \o r]]

Leaf(o, n) == [x \in {o} |-> n]
With(t, v, nodes) == [t EXCEPT ![v] = [o \in Objects |-> IF o \in DOMAIN nodes THEN nodes[o] ELSE @[o]]]
Without(t, v, gone) == With(t, v, [o \in gone |-> None])

(* A volume is a tree: what exists lies in a directory, the root is one.   *)
Node == {None, Dir} \cup [kind : {"file"}, data : Seq(Nat)]
Rooted(t, v) ==
    /\ t[v][<<>>] = Dir
    /\ \A o \in Objects \ {<<>>} : Exists(t, v, o) => IsDir(t, v, Front(o))

(* The volumes start as trees; a command names objects other than the root *)
(* (f_stat refuses it) and any places to put them, in their spelling.      *)
ASSUME FileOpsStarts ==
    \A t \in Starts : t \in [Volumes -> [Objects -> Node]] /\ \A v \in Volumes : Rooted(t, v)
ASSUME FileOpsPlaces ==
    /\ Sources \cup Targets \subseteq [vol : Volumes, p : Seq(Names \X STRING)]
    /\ \A s \in Sources : Len(s.p) \in 1..MaxDepth

(* Outcomes of a locked call: the volumes after it, whether it answered    *)
(* success, and whether a flush it did not check failed.                   *)
Out(t, ok) == [t |-> t, ok |-> ok, lost |-> FALSE]
Fails(t) == {Out(t, FALSE)}

(* f_rename: the entry moves with all below it to a name that is free or   *)
(* its own.  A directory moved below itself is cut off from the root.      *)
f_rename(t, v, o, to) ==
    LET moved == Tree(t, v, o)
        put == [x \in {to \o r : r \in DOMAIN moved} |-> moved[Rest(to, x)]]
        bare == Without(t, v, Below(o))
    IN  IF \/ ~ Exists(t, v, o) \/ ~ Room(t, v, to)
           \/ Exists(t, v, to) /\ to # o
           \/ ~ DOMAIN put \subseteq Objects
        THEN Fails(t)
        ELSE Fails(t) \cup {Out(IF to # o /\ IsPrefix(o, to) THEN bare ELSE With(bare, v, put), TRUE)}

-----------------------------------------------------------------------------
(* Paths as the clients spell them.                                        *)

Key(p) == [i \in DOMAIN p |-> p[i][1]]
fs_shared_join_path(dir, p) == Append(dir, Last(p))
is_subpath_never(parent, child) == FALSE  \* A mistake: the check of a directory moved below itself is dropped
fs_shared_is_subpath(parent, child) == IsPrefix(parent, child)

-----------------------------------------------------------------------------
(* The locked calls: sets of outcomes.                                     *)

(* Write blocks after `kept' ones: any prefix may be left by a failure.    *)
(* `checked': the result of the final f_close counts.                      *)
WriteFile(t, v, o, kept, data, checked) ==
    LET put(n) == With(t, v, Leaf(o, File(kept \o SubSeq(data, 1, n))))
    IN  IF ~ Room(t, v, o) \/ IsDir(t, v, o) THEN Fails(t)
        ELSE Fails(t) \cup (UNION {Fails(put(n)) : n \in 0..Len(data)})
             \cup {Out(put(Len(data)), TRUE)}
             \cup (IF checked THEN {}
                   ELSE {[Out(put(n), TRUE) EXCEPT !.lost = TRUE] : n \in 0..Len(data) - 1})

copy_file_unflushed(t, v, o, w, to) ==  \* A mistake: the result of closing the target is dropped
    IF ~ IsFile(t, v, o) THEN Fails(t)
    ELSE WriteFile(t, w, to, <<>>, t[v][o].data, FALSE)

(* fs_shared_copy_file_locked: the target is emptied when it is opened,    *)
(* also when it is the source under another spelling.                      *)
fs_shared_copy_file_locked(t, v, o, w, to) ==
    IF ~ IsFile(t, v, o) THEN Fails(t)
    ELSE WriteFile(t, w, to, <<>>, t[v][o].data, TRUE)

(* fs_shared_prepare_file_target: a directory receives the base name.      *)
fs_shared_prepare_file_target(t, v, s, d) ==
    IF Key(d) \in Objects /\ IsDir(t, v, Key(d)) THEN fs_shared_join_path(d, s) ELSE d

(* Copy a tree entry by entry: the entries of S are done, and one more     *)
(* file may be cut short.                                                  *)
Entries(t, v, to, nodes, S) == With(t, v, [x \in {to \o r : r \in S} |-> nodes[Rest(to, x)]])
Clash(t, v, to, nodes, r) ==
    \/ to \o r \notin Objects
    \/ Exists(t, v, to \o r) /\ t[v][to \o r].kind # nodes[r].kind
Grown(nodes, S) == \A r \in S : r = <<>> \/ Front(r) \in S
CopyTree(t, w, to, nodes) ==
    LET sane == {r \in DOMAIN nodes : ~ Clash(t, w, to, nodes, r)}
        some == {S \in SUBSET sane : Grown(nodes, S)}
        cut(S) == UNION {{With(Entries(t, w, to, nodes, S), w,
                               Leaf(to \o r, File(SubSeq(nodes[r].data, 1, n)))) :
                             n \in 0..Len(nodes[r].data)} :
                         r \in {q \in sane \ S : nodes[q].kind = "file" /\ Grown(nodes, S \cup {q})}}
    IN  IF ~ Room(t, w, to) THEN Fails(t)
        ELSE (UNION {Fails(Entries(t, w, to, nodes, S)) : S \in some})
             \cup (UNION {Fails(u) : u \in UNION {cut(S) : S \in some}})
             \cup {Out(Entries(t, w, to, nodes, S), TRUE) : S \in some \cap {DOMAIN nodes}}

(* A directory copied below itself under another spelling never ends well: *)
(* the copy meets its own target until the path is too long.               *)
fs_shared_copy_directory_contents(t, v, o, w, to) ==
    {u \in CopyTree(t, w, to, Tree(t, v, o)) : u.ok => ~ (v = w /\ IsPrefix(o, to))}

fs_shared_fs_cp_locked(t, v, s, w, d, recursive) ==
    LET o == Key(s)
        g == fs_shared_prepare_file_target(t, w, s, d)
    IN  IF d = <<>> \/ Key(d) \notin Objects \/ ~ Exists(t, v, o) THEN Fails(t)
        ELSE IF IsFile(t, v, o) THEN fs_shared_copy_file_locked(t, v, o, w, Key(g))
        ELSE IF \/ ~ recursive
                \/ Exists(t, w, Key(d)) /\ ~ IsDir(t, w, Key(d))
                \/ v = w /\ fs_shared_is_subpath(s, g)
             THEN Fails(t)
        ELSE fs_shared_copy_directory_contents(t, v, o, w, Key(g))

(* Remove children before their parent; what is gone stays gone. *)
fs_shared_remove_entry_recursive(t, v, o) ==
    LET all == {x \in Below(o) : Exists(t, v, x)}
        shut == {S \in SUBSET all : \A x \in S : Below(x) \cap all \subseteq S}
    IN  IF ~ Exists(t, v, o) THEN Fails(t)
        ELSE (UNION {Fails(Without(t, v, S)) : S \in shut}) \cup {Out(Without(t, v, all), TRUE)}

fs_shared_fs_rm(t, v, o) ==
    IF Exists(t, v, o) /\ Tree(t, v, o) = Leaf(<<>>, t[v][o])
    THEN Fails(t) \cup {Out(Without(t, v, {o}), TRUE)} ELSE Fails(t)

fs_shared_fs_rm_recursive(t, v, o) ==
    IF o = <<>> THEN Fails(t) ELSE fs_shared_remove_entry_recursive(t, v, o)

(* The locked part of a move: an existing target file is removed, then the *)
(* source is renamed.                                                      *)
Cleared(t, v, o) == IF IsFile(t, v, o) THEN Without(t, v, {o}) ELSE t
fs_shared_fs_mv_locked(t, v, s, d) ==
    LET g == fs_shared_prepare_file_target(t, v, s, d)
        o == Key(s)
        to == Key(g)
        bare == Cleared(t, v, to)
    IN  IF d = <<>> \/ to \notin Objects THEN Fails(t)   \* f_stat refuses the root
        ELSE IF s = g THEN {Out(t, TRUE)}
        ELSE IF \/ ~ Exists(t, v, o) \/ IsDir(t, v, to)
                \/ IsDir(t, v, o) /\ fs_shared_is_subpath(s, g) THEN Fails(t)
        ELSE Fails(t) \cup Fails(bare) \cup f_rename(bare, v, o, to)

fs_shared_fs_mkdir(t, v, o) ==
    IF Room(t, v, o) /\ ~ Exists(t, v, o)
    THEN Fails(t) \cup {Out(With(t, v, Leaf(o, Dir)), TRUE)} ELSE Fails(t)

(* The console takes FR_EXIST, of a file too, for success. *)
cmd_fs_mkdir(t, v, o) ==
    IF Exists(t, v, o) THEN {Out(t, TRUE)} ELSE fs_shared_fs_mkdir(t, v, o)

(* copy_file of the web interface: a file, to a name that is free. *)
copy_file(t, v, o, w, to) ==
    IF to \in Objects /\ Exists(t, w, to) THEN Fails(t) ELSE fs_shared_copy_file_locked(t, v, o, w, to)

(* transfer: an upload of the web interface, with or without overwrite. *)
transfer(t, v, o, data, replace) ==
    IF Exists(t, v, o) /\ ~ replace THEN Fails(t) ELSE WriteFile(t, v, o, <<>>, data, TRUE)

(* handle_put_file: the answer is sent before the file is closed. *)
handle_put_file(t, v, o, data) == WriteFile(t, v, o, <<>>, data, FALSE)

(* tar_extract_into_dir_fatfs: parents are made first, a file of that name *)
(* counts as made (f_mkdir: FR_EXIST); the files' f_close is not checked.  *)
mkdir_p(t, v, o) ==
    With(t, v, [x \in {y \in Objects : y # <<>> /\ IsPrefix(y, o) /\ ~ Exists(t, v, y)} |-> Dir])
tar_extract_into_dir_fatfs(t, v, o, nodes) ==
    LET based == mkdir_p(t, v, o)
        made == {r \in DOMAIN nodes : o \o r \in Objects /\ nodes[r] = Dir /\ IsFile(based, v, o \o r)}
        todo == [r \in DOMAIN nodes \ made |-> nodes[r]]
        outs == CopyTree(based, v, o, todo)
        spoilt(u) == UNION {{[Out(With(u.t, v, Leaf(o \o r, File(SubSeq(todo[r].data, 1, n)))), TRUE)
                                EXCEPT !.lost = TRUE] : n \in 0..Len(todo[r].data) - 1} :
                            r \in {q \in DOMAIN todo : todo[q].kind = "file"}}
    IN  IF \E y \in Objects : y # o /\ IsPrefix(y, o) /\ IsFile(t, v, y) THEN Fails(t)
        ELSE Fails(t) \cup outs \cup (UNION {spoilt(u) : u \in {x \in outs : x.ok}})

-----------------------------------------------------------------------------
(* The clients' commands.                                                  *)

Idle == [st |-> "idle"]
TwoPlaces == {"cp", "cp -r", "mv", "webcopy", "webrename"}
ConsoleOps == {"cp", "cp -r", "mv", "rm", "rm -r", "touch", "write", "append", "mkdir"}
WebOps == {"put", "webput", "webnew", "webcopy", "webrename", "rm", "webmkdir", "tar put"}
Unsynced == {"put", "tar put"}
Looking == {"cp", "cp -r", "mv"}

(* Where the object may be put: the target, or below it, by the console or *)
(* by the locked call or by both.                                          *)
Spots(k) ==
    LET base == <<Last(k.src.p)>>
    IN  {Key(k.dst.p), Key(k.dst.p \o base), Key(k.dst.p \o base \o base)} \cap Objects

(* Where the console's copies and moves should put it (history): at the    *)
(* target, or if that is a directory at its base name in there; and        *)
(* whether a directory has that name already.                              *)
HoldsDir(t, v, o) == o \in Objects /\ IsDir(t, v, o)
Based(src, dst) == Append(Key(dst.p), Last(Key(src.p)))
Destination(t, op, src, dst) ==
    IF op \in Looking /\ HoldsDir(t, dst.vol, Key(dst.p)) THEN Based(src, dst) ELSE Key(dst.p)
Twice(t, op, src, dst) == op \in Looking /\ HoldsDir(t, dst.vol, Based(src, dst))

Init ==
    /\ disk \in Starts
    /\ vol = [v \in Volumes |-> "unmounted"]
    /\ cmd = [c \in Clients |-> Idle]
    /\ arch = <<>>
    /\ version = 0
    /\ given = 0

(* fs_shared_mount, by the start-up task or by fs_device_prepare before a  *)
(* command.  A preserved volume is tried once and not retried.             *)
fs_shared_mount(v) ==
    /\ vol[v] = "unmounted"
    /\ \/ vol' = [vol EXCEPT ![v] = "ready"]
       \/ v \in Preserved /\ vol' = [vol EXCEPT ![v] = "stopped"]
    /\ UNCHANGED <<disk, cmd, arch, version, given>>

(* media_ready turns false: the adapter latched an I/O failure. *)
MediaStops(v) ==
    /\ v \in Preserved /\ vol[v] = "ready"
    /\ vol' = [vol EXCEPT ![v] = "stopped"]
    /\ UNCHANGED <<disk, cmd, arch, version, given>>

(* A command starts on volumes that are mounted: fs_device_prepare and the *)
(* web interface's resolve answer an error otherwise.                      *)
Give(c, op, src, dst, data, before) ==
    /\ cmd[c] = Idle /\ given < MaxCmds
    /\ vol[src.vol] = "ready" /\ vol[dst.vol] = "ready"
    /\ given' = given + 1
    /\ cmd' = [cmd EXCEPT ![c] =
                  [st |-> IF op = "mv" THEN "source" ELSE IF op \in {"cp", "cp -r"} THEN "target" ELSE "act",
                   op |-> op, src |-> src, dst |-> dst, data |-> data, dir |-> op = "cp -r",
                   final |-> dst.p, before |-> before, touched |-> FALSE, ok |-> FALSE, lost |-> FALSE,
                   goals |-> {Destination(disk, op, src, dst)}, twice |-> Twice(disk, op, src, dst)]]
    /\ UNCHANGED <<disk, vol, arch>>

OpsOf(c) == IF c \in Consoles THEN ConsoleOps ELSE WebOps
Found(place) == Tree(disk, place.vol, Key(place.p))

GiveMove(c) ==
    \E op \in TwoPlaces \cap OpsOf(c), src \in Sources, dst \in Targets :
        /\ op = "webrename" => src.vol = dst.vol
        /\ c \in Browsers => dst.p # <<>>
        /\ Give(c, op, src, dst, <<>>, Found(src))
        /\ UNCHANGED version

GiveChange(c) ==
    \E op \in OpsOf(c) \ (TwoPlaces \cup {"tar put"}), dst \in Sources :
        /\ version < MaxVersion /\ version' = version + 1
        /\ Give(c, op, dst, dst, [i \in 1..FileLen |-> version + 1], Found(dst))

GiveTar(c) ==
    /\ c \in Browsers /\ arch # <<>>
    /\ \E dst \in Sources : Give(c, "tar put", dst, dst, <<>>, arch)
    /\ UNCHANGED version

(* handle_get_tar: the lock is held for the whole archive. *)
handle_get_tar(c) ==
    /\ c \in Browsers /\ cmd[c] = Idle /\ given < MaxCmds
    /\ \E place \in Sources :
          /\ vol[place.vol] = "ready" /\ IsDir(disk, place.vol, Key(place.p))
          /\ arch' = Found(place)
    /\ given' = given + 1
    /\ UNCHANGED <<disk, vol, cmd, version>>

(* fs_shared_fs_is_dir answers no on any failure. *)
fs_shared_fs_is_dir(place) ==
    {yes \in BOOLEAN : yes => vol[place.vol] = "ready" /\ HoldsDir(disk, place.vol, Key(place.p))}

(* cmd_fs_mv looks at the source, then, as cmd_fs_cp, at the target: a     *)
(* directory receives the base name.  Nothing is locked afterwards.        *)
LookSource(c) ==
    /\ cmd[c].st = "source"
    /\ \E yes \in fs_shared_fs_is_dir(cmd[c].src) :
          cmd' = [cmd EXCEPT ![c].st = "target", ![c].dir = yes]
    /\ UNCHANGED <<disk, vol, arch, version, given>>

LookTarget(c) ==
    /\ cmd[c].st = "target"
    /\ \E yes \in fs_shared_fs_is_dir(cmd[c].dst) :
          cmd' = [cmd EXCEPT ![c].st = "act",
                             ![c].final = IF yes THEN Append(@, Last(cmd[c].src.p)) ELSE @]
    /\ UNCHANGED <<disk, vol, arch, version, given>>

Crosses(k) == k.op = "mv" /\ k.src.vol # k.dst.vol

Effect(k) ==
    LET v == k.src.vol
        w == k.dst.vol
        o == Key(k.src.p)
        to == Key(k.dst.p)
    IN  CASE k.op = "mv" /\ v = w -> fs_shared_fs_mv_locked(disk, v, k.src.p, k.final)
          [] k.op \in {"cp", "cp -r"} \/ Crosses(k) ->
                 fs_shared_fs_cp_locked(disk, v, k.src.p, w, k.final, k.dir)
          [] k.op = "rm" -> fs_shared_fs_rm(disk, v, o)
          [] k.op = "rm -r" -> fs_shared_fs_rm_recursive(disk, v, o)
          [] k.op = "mkdir" -> cmd_fs_mkdir(disk, v, o)
          [] k.op = "webmkdir" -> fs_shared_fs_mkdir(disk, v, o)
          [] k.op = "touch" -> WriteFile(disk, v, o, <<>>, <<>>, TRUE)
          [] k.op = "write" -> WriteFile(disk, v, o, <<>>, k.data, TRUE)
          [] k.op = "append" -> WriteFile(disk, v, o, disk[v][o].data, k.data, TRUE)
          [] k.op = "put" -> handle_put_file(disk, v, o, k.data)
          [] k.op = "webput" -> transfer(disk, v, o, k.data, TRUE)
          [] k.op = "webnew" -> transfer(disk, v, o, k.data, FALSE)
          [] k.op = "webcopy" -> copy_file(disk, v, o, w, to)
          [] k.op = "webrename" -> f_rename(disk, v, o, to)
          [] k.op = "tar put" -> tar_extract_into_dir_fatfs(disk, w, to, k.before)

(* Another client's change below a command's source, or, after its call,   *)
(* where the copy was put; before it, what the target has become.          *)
Noticed(k, t) ==
    IF k = Idle THEN k
    ELSE LET after == k.st \in {"remove", "done"}
             there == \E o \in Below(Key(k.src.p)) : t[k.src.vol][o] # disk[k.src.vol][o]
             put == \E s \in Spots(k) : \E o \in Below(s) : t[k.dst.vol][o] # disk[k.dst.vol][o]
         IN  [k EXCEPT !.touched = @ \/ there \/ (after /\ put),
                       !.goals = IF after THEN @ ELSE @ \cup {Destination(t, k.op, k.src, k.dst)},
                       !.twice = @ \/ (~ after /\ Twice(t, k.op, k.src, k.dst))]

Applied(c, u, st) ==
    /\ disk' = u.t
    /\ cmd' = [x \in Clients |-> IF x = c THEN [cmd[c] EXCEPT !.st = st, !.ok = u.ok, !.lost = u.lost]
                                 ELSE Noticed(cmd[x], u.t)]
    /\ UNCHANGED <<vol, arch, version, given>>

(* The locked call of a command; the copy of a move between volumes is     *)
(* followed by the removal of the source, under a lock of its own.         *)
Act(c) ==
    /\ cmd[c].st = "act"
    /\ LET k == cmd[c]
           up == vol[k.src.vol] = "ready" /\ vol[k.dst.vol] = "ready"
       IN  \E u \in Fails(disk) \cup (IF up THEN Effect(k) ELSE {}) :
               Applied(c, u, IF Crosses(k) /\ u.ok THEN "remove" ELSE "done")

RemoveSource(c) ==
    /\ cmd[c].st = "remove"
    /\ LET k == cmd[c]
           o == Key(k.src.p)
           gone == IF k.dir THEN fs_shared_fs_rm_recursive(disk, k.src.vol, o)
                   ELSE fs_shared_fs_rm(disk, k.src.vol, o)
       IN  \E u \in Fails(disk) \cup (IF vol[k.src.vol] = "ready" THEN gone ELSE {}) : Applied(c, u, "done")

Reply(c) ==
    /\ cmd[c].st = "done"
    /\ cmd' = [cmd EXCEPT ![c] = Idle]
    /\ UNCHANGED <<disk, vol, arch, version, given>>

Next ==
    \/ \E v \in Volumes : fs_shared_mount(v) \/ MediaStops(v)
    \/ \E c \in Clients :
          \/ GiveMove(c) \/ GiveChange(c) \/ GiveTar(c) \/ handle_get_tar(c)
          \/ LookSource(c) \/ LookTarget(c) \/ Act(c) \/ RemoveSource(c) \/ Reply(c)

Spec == Init /\ [][Next]_vars

-----------------------------------------------------------------------------
(* Properties.                                                             *)

OnItself(k) ==
    LET o == Key(k.src.p)
        to == Key(k.dst.p)
    IN  /\ k.op \in {"cp", "cp -r"} /\ k.src.vol = k.dst.vol
        /\ \/ o \in Spots(k)
           \/ k.op = "cp -r" /\ IsPrefix(Append(to, Last(o)), o)
BelowItself(k) ==
    LET o == Key(k.src.p)
        to == Key(k.dst.p)
    IN  k.op = "webrename" /\ o # to /\ IsPrefix(o, to)
Files(nodes) == {r \in DOMAIN nodes : nodes[r].kind = "file"}
Holds(v, o, k, r) == o \o r \in Objects /\ disk[v][o \o r] = k.before[r]

(* Whatever fails on the way, when a copy, a move or a rename ends, every  *)
(* file that was below its source is whole, at the source or at the        *)
(* target, unless another client changed it meanwhile.  (A file copied     *)
(* onto itself is emptied first, and a failure then loses it; a directory  *)
(* copied to one above it that has its name may write over its own files;  *)
(* the web interface lets a directory be renamed below itself.)            *)
KeepsSource ==
    \A c \in Clients :
        LET k == cmd[c]
        IN  k.st = "done" /\ k.op \in TwoPlaces /\ ~ k.touched /\ ~ OnItself(k) /\ ~ BelowItself(k)
            => \A r \in Files(k.before) :
                   \/ Holds(k.src.vol, Key(k.src.p), k, r)
                   \/ \E s \in Spots(k) : Holds(k.dst.vol, s, k, r)

HoldsAll(k, o) == \A r \in Files(k.before) : Holds(k.dst.vol, o, k, r)
(* With a directory of that name in the target already, the base name may  *)
(* be added a second time.                                                 *)
Landing(k) == IF k.twice THEN Spots(k) ELSE k.goals
(* mkdir of what is a file. *)
OverFile(k) == k.op = "mkdir" /\ <<>> \in Files(k.before)
Stored(k) ==
    LET now == disk[k.dst.vol][Key(k.dst.p)]
    IN  CASE k.op \in TwoPlaces -> \E o \in Landing(k) : HoldsAll(k, o)
          [] k.op = "tar put" -> HoldsAll(k, Key(k.dst.p))
          [] k.op \in {"rm", "rm -r"} -> Found(k.dst) = <<>>
          [] k.op \in {"mkdir", "webmkdir"} -> now = Dir
          [] k.op = "touch" -> now = File(<<>>)
          [] k.op = "append" -> now = File(IF k.before = <<>> THEN k.data ELSE k.before[<<>>].data \o k.data)
          [] OTHER -> now = File(k.data)
Promises(k) == k.st = "done" /\ k.ok /\ ~ k.touched

(* A command that answers success has done its work when the answer goes   *)
(* out: the copy, the move, the text or the upload is whole exactly where  *)
(* it should be, the directory is a directory.  Excepted are the mkdir of  *)
(* what is a file, the second base name (see the two properties below)     *)
(* and a directory renamed below itself.  The plain HTTP upload and the    *)
(* archive do not check the last flush and are held to it only when that   *)
(* flush succeeds.                                                         *)
OkMeansStored ==
    \A c \in Clients :
        LET k == cmd[c]
        IN  Promises(k) /\ ~ (k.op \in Unsynced /\ k.lost) /\ ~ BelowItself(k) /\ ~ OverFile(k)
            => Stored(k)

(* Not kept by the code: after a mkdir that answers OK the directory is    *)
(* there.                                                                  *)
MkdirMakesDirectory ==
    \A c \in Clients : Promises(cmd[c]) /\ cmd[c].op = "mkdir" => Stored(cmd[c])

(* Not kept by the code: cp and mv add the base name once, when the target *)
(* is a directory.                                                         *)
BaseNameOnce ==
    \A c \in Clients :
        Promises(cmd[c]) /\ cmd[c].op \in Looking => \E o \in cmd[c].goals : HoldsAll(cmd[c], o)
=============================================================================
