---------------------------- MODULE ConfigStore ----------------------------
(***************************************************************************)
(* The configuration store of the FreeRTOS image                           *)
(* (apps/freertos/config/config_store.c): the task that recovers,          *)
(* migrates, completes and loads the files of flash:/config at start, and  *)
(* the saves that other tasks make afterwards, on a file system that       *)
(* cannot replace a file in one step.  Power may fail between any two file *)
(* system calls and any call may fail.                                     *)
(*                                                                         *)
(* A path is <<bus, directory, stem, layout, suffix>>.  A profile lives in *)
(* one of three layouts: "flat" (<stem>.json), "old" (<stem>/profile.json) *)
(* and "canon" (<stem>/<stem>.json); directories are "config", "configs"   *)
(* (the fallback) and "smi" (the former names of the MDIO directory).      *)
(* The network file and the MDIO marker are single files.  Path texts,     *)
(* their length limits and console messages are left out.                  *)
(***************************************************************************)
EXTENDS DeviceProfile, FiniteSets

CONSTANTS
    Stems,          \* profile names
    Network,        \* the network file's contents; network_config_t
    DefaultNetwork, \* DEFAULT_NETWORK_JSON
    DefaultProfiles,\* [bus -> [stem -> document]], the embedded profiles
    Flashes,        \* contents of the flash before the first start
    Saves,          \* configurations that tasks save
    CsMaxFaults,      \* file system calls that fail
    MaxCrashes,     \* power failures
    MaxSaves        \* saves

VARIABLES
    files,      \* path -> contents, for the files that exist
    origin,     \* the flash as it was before the first start
    mounted,    \* qspi_fs_is_ready
    stage,      \* position of config_task in Stages; 0: waiting for the flash
    tried,      \* target files this stage has dealt with
    job,        \* the file being written, or NoJob
    failed,     \* bus -> stored profiles could not be loaded
    first,      \* mdio_first_start
    ram,        \* bus -> stem -> configuration, or Absent
    net,        \* s_net_cfg
    csfaults, crashes, saves,
    may,        \* bus -> stem -> what the flash may be said to hold (history)
    netmay,     \* the same for the network file (history)
    fresh       \* ram is what the last start loaded (history)

csvars == <<files, origin, mounted, stage, tried, job, failed, first, ram, net,
            csfaults, crashes, saves, may, netmay, fresh>>

Buses == {"i2c", "mdio"}
Layouts == {"flat", "old", "canon"}
Dirs == {"config", "configs"}
Absent == <<>>          \* no device; otherwise <<its configuration>>
NoJob == [kind |-> "none"]
NoProfile == [bus |-> "none"]     \* stands in may for "no valid profile"
Path(b, d, s, l) == <<b, d, s, l, "">>
With(p, suffix) == <<p[1], p[2], p[3], p[4], suffix>>
NetPath(d) == <<"net", d, "network", "flat", "">>
Marker == <<"mdio", "config", "initialized", "flat", "">>
file_exists(p) == p \in DOMAIN files

\* f_unlink, f_write and f_rename as they change the directory.
Without(f, p) == [q \in DOMAIN f \ {p} |-> f[q]]
Put(f, p, doc) == [q \in DOMAIN f \cup {p} |-> IF q = p THEN doc ELSE f[q]]
Rename(f, p, q) == Without(Put(f, q, f[p]), p)

\* profile_exists: any layout of the profile in the directory.
profile_exists(b, d, s) == \E l \in Layouts : file_exists(Path(b, d, s, l))
\* A mistake: the oldest layout wins.
profile_candidate_oldest(b, d, s) ==
    IF file_exists(Path(b, d, s, "flat")) THEN "flat"
    ELSE IF file_exists(Path(b, d, s, "old")) THEN "old" ELSE "canon"
\* profile_candidate: the file of a directory that speaks for the profile.
profile_candidate(b, d, s) ==
    IF file_exists(Path(b, d, s, "canon")) THEN "canon"
    ELSE IF file_exists(Path(b, d, s, "old")) THEN "old" ELSE "flat"
----------------------------------------------------------------------------
(* One file being written.  write_file_atomic (kind "atomic") unlinks the  *)
(* old file before the rename; write_device_file (kind "device") keeps it  *)
(* as a backup.  Each step is one call that power failure can follow.      *)

\* after (history): what the flash is to hold when the write succeeds, when not.
Start(kind, path, doc, caller, after) ==
    job' = [kind |-> kind, path |-> path, doc |-> doc, step |-> "tmp",
            had |-> file_exists(path), caller |-> caller, ok |-> TRUE,
            after |-> after]
Step(s) == job' = [job EXCEPT !.step = s]
JobDone(ok) == job' = [job EXCEPT !.step = "done", !.ok = ok]
Writing(s) == job # NoJob /\ job.step = s
Fault == csfaults < CsMaxFaults /\ csfaults' = csfaults + 1
tmp == With(job.path, "tmp")
bak == With(job.path, "bak")

WriteTmp ==
    /\ Writing("tmp")
    /\ \/ /\ files' = Put(files, tmp, job.doc)
          /\ Step(IF job.kind = "atomic" THEN "unlink"
                  ELSE IF job.had THEN "backup" ELSE "commit")
          /\ UNCHANGED csfaults
       \/ /\ Fault /\ JobDone(FALSE)
          /\ files' = IF job.kind = "atomic" THEN Without(files, tmp)
                                             ELSE Put(files, tmp, Torn)
\* write_file_atomic ignores the result of this f_unlink: a file that stays
\* makes the f_rename fail.
UnlinkOld ==
    /\ Writing("unlink") /\ Step("commit")
    /\ \/ files' = Without(files, job.path) /\ UNCHANGED csfaults
       \/ Fault /\ UNCHANGED files
DropBackup ==
    /\ Writing("backup")
    /\ \/ files' = Without(files, bak) /\ Step("retire") /\ UNCHANGED csfaults
       \/ Fault /\ JobDone(FALSE) /\ UNCHANGED files
\* A mistake: the old profile is removed, as in write_file_atomic.
RetireByUnlink ==
    /\ Writing("retire")
    /\ files' = Without(files, job.path) /\ UNCHANGED csfaults
    /\ job' = [job EXCEPT !.step = "commit", !.had = FALSE]
Retire ==
    /\ Writing("retire")
    /\ \/ files' = Rename(files, job.path, bak) /\ Step("commit") /\ UNCHANGED csfaults
       \/ Fault /\ JobDone(FALSE) /\ UNCHANGED files
Commit ==
    /\ Writing("commit")
    /\ \/ /\ ~file_exists(job.path)
          /\ files' = Rename(files, tmp, job.path) /\ JobDone(TRUE) /\ UNCHANGED csfaults
       \/ /\ \/ Fault
             \/ file_exists(job.path) /\ UNCHANGED csfaults
          /\ files' = IF job.kind = "atomic" THEN Without(files, tmp) ELSE files
          /\ IF job.kind = "device" /\ job.had THEN Step("restore") ELSE JobDone(FALSE)
Restore ==
    /\ Writing("restore") /\ JobDone(FALSE)
    /\ \/ files' = Rename(files, bak, job.path) /\ UNCHANGED csfaults
       \/ Fault /\ UNCHANGED files

WriteFile ==
    /\ WriteTmp \/ UnlinkOld \/ DropBackup \/ Retire \/ Commit \/ Restore
    /\ UNCHANGED <<origin, mounted, stage, tried, failed, first, ram, net, crashes, saves,
                   may, netmay, fresh>>
----------------------------------------------------------------------------
(* config_task.  A stage is a loop over directory entries: Work is what it *)
(* still has to copy or write, as <<target, document>> pairs.              *)

Stages == <<<<"net_default", "net">>, <<"recover", "i2c">>, <<"layout", "i2c">>,
            <<"defaults", "i2c">>, <<"recover", "mdio">>, <<"import", "mdio">>,
            <<"layout", "mdio">>, <<"defaults", "mdio">>, <<"marker", "mdio">>,
            <<"net_migrate", "net">>, <<"fallback", "i2c">>, <<"fallback", "mdio">>,
            <<"load", "all">>>>
Kind == Stages[stage][1]
Bus == Stages[stage][2]
Loaded == Len(Stages) + 1

\* recover_device_configs: a profile that is missing beside its backup.
recover_device_configs(b) ==
    {<<Path(b, x[1], x[2], x[3]), files[With(Path(b, x[1], x[2], x[3]), "bak")]>> :
        x \in {y \in Dirs \X Stems \X Layouts :
                  /\ file_exists(With(Path(b, y[1], y[2], y[3]), "bak"))
                  /\ ~file_exists(Path(b, y[1], y[2], y[3]))}}
\* migrate_profile_layout: the canonical name is made from the older ones.
migrate_profile_layout(b) ==
    {<<Path(b, x[1], x[2], "canon"), files[Path(b, x[1], x[2], x[3])]>> :
        x \in {y \in Dirs \X Stems \X {"old", "flat"} :
                  /\ file_exists(Path(b, y[1], y[2], y[3]))
                  /\ ~file_exists(Path(b, y[1], y[2], "canon"))}}
\* migrate_mdio_configs: flat files of the former directories, first start only.
migrate_mdio_configs ==
    {<<Path("mdio", "config", x[2], "flat"), files[Path("mdio", x[1], x[2], "flat")]>> :
        x \in {y \in {"configs", "smi"} \X Stems :
                  /\ first /\ file_exists(Path("mdio", y[1], y[2], "flat"))
                  /\ ~file_exists(Path("mdio", "config", y[2], "flat"))}}
default_profiles(b) ==
    {<<Path(b, "config", s, "canon"), DefaultProfiles[b][s]>> :
        s \in {t \in DOMAIN DefaultProfiles[b] :
                  /\ b = "mdio" => first
                  /\ \A d \in Dirs : ~profile_exists(b, d, t)}}
\* The last copies: flat profiles of the fallback directory, whatever became
\* of the earlier stages.
fallback_profiles(b) ==
    {<<Path(b, "config", s, "flat"), files[Path(b, "configs", s, "flat")]>> :
        s \in {t \in Stems : /\ file_exists(Path(b, "configs", t, "flat"))
                             /\ ~file_exists(Path(b, "config", t, "flat"))}}

Work ==
    CASE Kind = "net_default" ->
             IF \E d \in Dirs : file_exists(NetPath(d)) THEN {}
             ELSE {<<NetPath("config"), DefaultNetwork>>}
      [] Kind = "recover" -> recover_device_configs(Bus)
      [] Kind = "layout" -> IF failed[Bus] THEN {} ELSE migrate_profile_layout(Bus)
      [] Kind = "import" -> IF failed["mdio"] THEN {} ELSE migrate_mdio_configs
      [] Kind = "defaults" -> IF failed[Bus] THEN {} ELSE default_profiles(Bus)
      [] Kind = "marker" -> IF first /\ ~failed["mdio"] THEN {<<Marker, "v1">>} ELSE {}
      [] Kind = "net_migrate" ->
             IF file_exists(NetPath("configs")) /\ ~file_exists(NetPath("config"))
             THEN {<<NetPath("config"), files[NetPath("configs")]>>} ELSE {}
      [] Kind = "fallback" -> fallback_profiles(Bus)
      [] OTHER -> {}
Todo == {w \in Work : w[1] \notin tried}
\* A failed copy disables the bus in these stages and is ignored in the others.
Fatal ==
    \/ Kind \in {"recover", "layout", "import", "marker"}
    \/ Kind = "defaults" /\ Bus = "mdio"
Booting == stage \in 1 .. Len(Stages) /\ job = NoJob

BootWait ==
    /\ stage = 0 /\ stage' = IF mounted THEN 1 ELSE Len(Stages)
    /\ failed' = [b \in Buses |-> b = "mdio" /\ ~mounted]
    /\ first' = ~file_exists(Marker)
    /\ UNCHANGED <<files, origin, mounted, tried, job, ram, net, csfaults, crashes, saves,
                   may, netmay, fresh>>
BootWrite ==
    /\ Booting /\ mounted
    /\ \E w \in Todo : /\ Start("atomic", w[1], w[2], "boot", <<>>)
                       /\ tried' = tried \cup {w[1]}
    /\ UNCHANGED <<files, origin, mounted, stage, failed, first, ram, net, csfaults,
                   crashes, saves, may, netmay, fresh>>
BootWritten ==
    /\ Writing("done") /\ job.caller = "boot" /\ job' = NoJob
    /\ LET fatal == ~job.ok /\ Fatal IN
       /\ failed' = IF fatal THEN [failed EXCEPT ![Bus] = TRUE] ELSE failed
       /\ stage' = IF fatal THEN stage + 1 ELSE stage
       /\ tried' = IF fatal THEN {} ELSE tried
    /\ UNCHANGED <<files, origin, mounted, first, ram, net, csfaults, crashes, saves, may,
                   netmay, fresh>>
\* The stage is over; a directory that cannot be read disables the bus.
BootNext ==
    /\ Booting /\ mounted /\ Kind # "load" /\ Todo = {}
    /\ stage' = stage + 1 /\ tried' = {}
    /\ \/ UNCHANGED <<failed, csfaults>>
       \/ /\ Fault /\ Kind \in {"recover", "layout", "import"}
          /\ failed' = [failed EXCEPT ![Bus] = TRUE]
    /\ UNCHANGED <<files, origin, mounted, job, first, ram, net, crashes, saves, may, netmay,
                   fresh>>

\* The file that a start reads for a profile: the primary directory wins.
DirOf(b, s) == IF profile_exists(b, "config", s) THEN "config" ELSE "configs"
Present(b) == {s \in Stems : \E d \in Dirs : profile_exists(b, d, s)}
Read(b, s) ==
    LET d == DirOf(b, s) IN
    parse_profile(files[Path(b, d, s, profile_candidate(b, d, s))], b)
\* MDIO refuses two profiles with one name or address; I2C keeps one of two
\* with the same name (here a name has one stem).
mdio_duplicate ==
    \E s, t \in Present("mdio") :
        s # t /\ Read("mdio", s).config.addr = Read("mdio", t).config.addr
Unreadable(b) ==
    \/ \E s \in Present(b) : ~Read(b, s).ok
    \/ b = "mdio" /\ mdio_duplicate
Embedded(b) == mounted => b = "i2c" \/ first

LoadProfiles(b, bad) ==
    [s \in Stems |->
        CASE bad -> Absent
          [] ~bad /\ mounted /\ Present(b) # {} ->
                IF s \in Present(b) THEN <<Read(b, s).config>> ELSE Absent
          [] OTHER -> IF Embedded(b) /\ s \in DOMAIN DefaultProfiles[b]
                      THEN <<parse_profile(DefaultProfiles[b][s], b).config>> ELSE Absent]
\* read_file_first_available and parse_network_json.
LoadNetwork ==
    IF mounted /\ \E d \in Dirs : file_exists(NetPath(d))
    THEN files[NetPath(IF file_exists(NetPath("config")) THEN "config" ELSE "configs")]
    ELSE DefaultNetwork

BootLoad ==
    /\ stage = Len(Stages) /\ job = NoJob
    /\ stage' = Loaded
    /\ \/ /\ failed' = [b \in Buses |-> failed[b] \/ (mounted /\ Unreadable(b))]
          /\ net' = LoadNetwork /\ UNCHANGED csfaults
       \/ /\ mounted /\ Fault /\ net' = DefaultNetwork
          /\ failed' = [b \in Buses |-> failed[b] \/ Unreadable(b)]
       \/ /\ mounted /\ Fault /\ net' = LoadNetwork
          /\ \E broken \in Buses :
                failed' = [b \in Buses |-> failed[b] \/ Unreadable(b) \/ b = broken]
    /\ ram' = [b \in Buses |-> LoadProfiles(b, failed'[b])]
    /\ fresh' = mounted
    /\ UNCHANGED <<files, origin, mounted, tried, job, first, crashes, saves, may, netmay>>
----------------------------------------------------------------------------
(* Saves, made by console, web and DCP2 tasks once the store is ready.     *)

Ready == stage = Loaded
Idle == Ready /\ job = NoJob
\* canonical_profile_name, or the name the file already has.
SavePath(b, d, s) == Path(b, d, s, "canon")

\* config_store_set_i2c_device (an MDIO configuration lives in the service),
\* then the locked save.
config_store_set_device(b, s, c) ==
    ram' = [ram EXCEPT ![b][s] = <<c>>]
config_store_save_device(b, s) ==
    \E c \in Saves[b][s] :
        /\ Idle /\ mounted /\ saves < MaxSaves /\ saves' = saves + 1
        /\ ram[b][s] # Absent
        /\ config_store_set_device(b, s, c)
        /\ fresh' = FALSE
        /\ IF saved_document(c).ok
           THEN /\ Start("device", SavePath(b, "config", s), saved_document(c).doc, "save",
                         [ok \in BOOLEAN |-> IF ok THEN {Effective(c)} ELSE may[b][s]])
                /\ may' = [may EXCEPT ![b][s] = @ \cup {Effective(c)}]
           ELSE UNCHANGED <<job, may>>
        /\ UNCHANGED <<files, origin, mounted, stage, tried, failed, first, net, csfaults,
                       crashes, netmay>>
SaveDevice == \E b \in Buses, s \in Stems : config_store_save_device(b, s)

config_store_save_network ==
    \E n \in Network :
        /\ Idle /\ mounted /\ saves < MaxSaves /\ saves' = saves + 1
        /\ net' = n
        /\ Start("atomic", NetPath("config"), n, "save", <<>>)
        /\ netmay' = netmay \cup {n}
        /\ UNCHANGED <<files, origin, mounted, stage, tried, failed, first, ram, csfaults,
                       crashes, may, fresh>>

\* The save returns: an I2C or network save repeats itself in the fallback
\* directory when there is one, and does not look at the result.
Saved ==
    /\ Writing("done") /\ job.caller \in {"save", "copy"}
    /\ LET b == job.path[1]
           s == job.path[3]
           copies == job.ok /\ job.caller = "save" /\ origin.fbdir /\ b # "mdio"
       IN /\ IF copies
             THEN Start(job.kind, <<b, "configs", s, job.path[4], "">>, job.doc, "copy", <<>>)
             ELSE job' = NoJob
          /\ may' = IF b = "net" \/ job.caller = "copy" THEN may
                    ELSE [may EXCEPT ![b][s] = job.after[job.ok]]
    /\ UNCHANGED <<files, origin, mounted, stage, tried, failed, first, ram, net, csfaults,
                   crashes, saves, netmay, fresh>>
----------------------------------------------------------------------------
\* The flash mounts, possibly after the store gave up waiting for it.
Mount ==
    /\ ~mounted /\ mounted' = TRUE /\ stage \in {0, Loaded}
    /\ UNCHANGED <<files, origin, stage, tried, job, failed, first, ram, net, csfaults,
                   crashes, saves, may, netmay, fresh>>
\* Power fails; a file being written is left torn.
Crash ==
    /\ crashes < MaxCrashes /\ crashes' = crashes + 1
    /\ files' = IF Writing("tmp") THEN Put(files, tmp, Torn) ELSE files
    /\ mounted' = FALSE /\ stage' = 0 /\ tried' = {} /\ job' = NoJob
    /\ failed' = [b \in Buses |-> FALSE] /\ first' = FALSE
    /\ ram' = [b \in Buses |-> [s \in Stems |-> Absent]] /\ net' = DefaultNetwork
    /\ fresh' = FALSE
    /\ UNCHANGED <<origin, csfaults, saves, may, netmay>>

CsInit ==
    \E f \in Flashes :
        /\ files = f.files /\ origin = f /\ may = f.may /\ netmay = f.netmay
        /\ mounted = FALSE /\ stage = 0 /\ tried = {} /\ job = NoJob
        /\ failed = [b \in Buses |-> FALSE] /\ first = FALSE
        /\ ram = [b \in Buses |-> [s \in Stems |-> Absent]] /\ net = DefaultNetwork
        /\ csfaults = 0 /\ crashes = 0 /\ saves = 0 /\ fresh = FALSE

CsNext ==
    \/ Mount \/ BootWait \/ BootWrite \/ BootWritten \/ BootNext \/ BootLoad
    \/ WriteFile \/ SaveDevice \/ config_store_save_network \/ Saved \/ Crash

CsSpec == CsInit /\ [][CsNext]_csvars

----------------------------------------------------------------------------
(* Properties. *)

Default == [b \in Buses |-> [s \in Stems |->
              IF s \in DOMAIN DefaultProfiles[b]
              THEN {Effective(parse_profile(DefaultProfiles[b][s], b).config)} ELSE {}]]

\* Every path is of this form.
IsPath(p) ==
    \E b \in Buses \cup {"net"}, d \in Dirs \cup {"smi"},
       s \in Stems \cup {"network", "initialized"}, l \in Layouts, x \in {"", "bak", "tmp"} :
        p = <<b, d, s, l, x>>
\* In the files f, the one at p holds one of the configurations cs of a profile,
\* where recovery finds it: a canonical backup counts while its profile is missing.
Carries(f, p, b, s, cs) ==
    /\ p \in DOMAIN f /\ p[1] = b /\ p[3] = s /\ p[5] \in {"", "bak"}
    /\ p[5] = "bak" /\ p[4] = "canon" => With(p, "") \notin DOMAIN f
    /\ LET r == parse_profile(f[p], b) IN r.ok /\ Effective(r.config) \in cs
Stored(f, b, s, cs) ==
    \/ cs \cap (Default[b][s] \cup {NoProfile}) # {}
    \/ \E p \in DOMAIN f : Carries(f, p, b, s, cs)

\* The first start finds what its flash is said to hold, no profile takes the
\* marker's name, and what a save writes reads back as what was saved.
ASSUME StoreAssumption ==
    /\ "initialized" \notin Stems /\ \A b \in Buses : DOMAIN DefaultProfiles[b] \subseteq Stems
    /\ \A x \in Flashes :
          /\ \A p \in DOMAIN x.files : IsPath(p)
          /\ x.may = [b \in Buses |-> [s \in Stems |-> x.may[b][s]]]
          /\ \A b \in Buses, s \in Stems : Stored(x.files, b, s, x.may[b][s])
    /\ \A b \in Buses : \A s \in Stems : \A c \in Saves[b][s] :
          saved_document(c).ok =>
              LET r == parse_profile(saved_document(c).doc, b) IN
              r.ok /\ Effective(r.config) = Effective(c)

\* What a start loads: of every profile the configuration that was saved last,
\* or the one whose save was cut short (config_task after write_device_file).
\* A profile that has a file is never left out of a bus that is enabled, and
\* the network is one of those that were ever saved, or the built-in one.
LoadedIsSaved ==
    fresh =>
        /\ net \in netmay \cup {DefaultNetwork}
        /\ \A b \in Buses, s \in Stems : failed[b] \/
              IF ram[b][s] = Absent
              THEN /\ may[b][s] \cap (Default[b][s] \cup {NoProfile}) # {}
                   /\ s \notin Present(b)
              ELSE Effective(ram[b][s][1]) \in may[b][s]

\* At every moment, in the middle of a save or a start too, a saved profile is
\* whole in a file that a start reads or recovers (write_device_file keeps a
\* backup; migrations copy before they rely on the copy).
ProfileSurvives ==
    \A b \in DOMAIN may : \A s \in DOMAIN may[b] :
        may[b][s] \cap (Default[b][s] \cup {NoProfile}) # {} \/
        \E p \in DOMAIN files :
            /\ p[1] = b /\ p[3] = s /\ p[5] \in {"", "bak"}
            /\ LET r == parse_profile(files[p], b) IN
               r.ok /\ Effective(r.config) \in may[b][s]

\* Losing power, however often and wherever, never disables a bus: only a file
\* that was invalid to begin with or a failing file system does.
DisabledForCause ==
    stage = Loaded /\ fresh =>
        \A b \in Buses : failed[b] => csfaults > 0 \/ b \in origin.bad
=============================================================================
