-------------------------- MODULE NeutrinoRuntime --------------------------
(***************************************************************************)
(* The QNX Neutrino image's I2C runtime: its configuration store           *)
(* (apps/neutrino/config/bvstk_i2c_config_store.c), the runtime that keeps *)
(* store, master service and slave address in step                         *)
(* (apps/neutrino/runtime/bvstk_i2c_runtime.c), and the two ways in, the   *)
(* /dev resource manager and the DCP2 server of bvstkd.                    *)
(*                                                                         *)
(* Every command and request runs under the state mutex, so one is an      *)
(* action; only the file it saves is written in steps, because the process *)
(* can be killed between them.  rename replaces the file at once.          *)
(***************************************************************************)
EXTENDS DeviceProfile, FiniteSets

CONSTANTS
    NStems,         \* device names, in the order of their directory entries
    NFlashes,       \* what the primary and the legacy directory may hold
    NDefaults,      \* [stem -> document] built into the image
    NAddresses,     \* addresses "addr" is called with
    NRules,         \* rules the policy commands name
    NValues,        \* values of register 0 that commands write
    NMaxOps, NMaxKills, NMaxFaults

\* Device names are file names, and the built-in profiles are well formed
\* (load_embedded_defaults gives up otherwise).
ASSUME NeutrinoAssumption ==
    /\ NStems \in Seq(STRING)
    /\ \A s \in DOMAIN NDefaults : bvstk_i2c_config_parse_json(NDefaults[s]).ok

VARIABLES
    nfiles,     \* <<directory, stem, layout>> -> document, with "tmp" layouts
    nstore,     \* stem -> <<configuration>> or <<>>: config_store.devices
    nsvc,       \* stem -> what the master service works with
    ncache,     \* stem -> the valid bytes of the cache, as register -> value
    nslave,     \* the address the slave core answers to
    nready,     \* "down", "migrating", "ready" or "failed"
    nqueue,     \* devices the migration has still to save
    njob,       \* the file being written
    nops, nkills, nfaults,
    nmay,       \* stem -> configurations the directories may hold (history)
    nfresh      \* nstore is what the start loaded (history)

nvars == <<nfiles, nstore, nsvc, ncache, nslave, nready, nqueue, njob, nops, nkills,
           nfaults, nmay, nfresh>>

NLayouts == {"canon", "old", "flat"}
NIdle == [stem |-> "none"]
NFault == nfaults < NMaxFaults /\ nfaults' = nfaults + 1
NStemSet == Range(NStems)
Position(s) == CHOOSE i \in DOMAIN NStems : NStems[i] = s
First(store) ==
    LET known == {i \in DOMAIN NStems : store[NStems[i]] # <<>>} IN
    NStems[CHOOSE i \in known : \A j \in known : i <= j]
\* What the service keeps of a configuration.
Live(c) == [addr |-> c.addr, policy |-> c.policy, white |-> c.white, black |-> c.black]
Write(f, p, doc) == [q \in DOMAIN f \cup {p} |-> IF q = p THEN doc ELSE f[q]]
Drop(f, p) == [q \in DOMAIN f \ {p} |-> f[q]]
----------------------------------------------------------------------------
(* The configuration store. *)

\* The layout load_directory reads for a device.
nq_candidate(d, s) ==
    IF <<d, s, "canon">> \in DOMAIN nfiles THEN "canon"
    ELSE IF <<d, s, "old">> \in DOMAIN nfiles THEN "old" ELSE "flat"
nq_present(d) == {s \in NStemSet : \E l \in NLayouts : <<d, s, l>> \in DOMAIN nfiles}
nq_read(d, s) == bvstk_i2c_config_parse_json(nfiles[<<d, s, nq_candidate(d, s)>>])
\* load_directory: all profiles of the directory, or none and an error.
load_directory(d) ==
    [ok |-> \A s \in nq_present(d) : nq_read(d, s).ok,
     devices |-> [s \in NStemSet |->
         IF s \in nq_present(d) /\ nq_read(d, s).ok THEN <<nq_read(d, s).config>> ELSE <<>>]]
load_embedded_defaults ==
    [s \in NStemSet |-> IF s \in DOMAIN NDefaults
                        THEN <<bvstk_i2c_config_parse_json(NDefaults[s]).config>> ELSE <<>>]
nq_empty(devices) == \A s \in NStemSet : devices[s] = <<>>

\* bvstk_neutrino_i2c_config_store_save, up to the rename.  after (history) is
\* what the directory may hold if the save succeeds, and if not.
config_store_save(s, c) ==
    IF saved_document(c).ok
    THEN /\ njob' = [stem |-> s, doc |-> saved_document(c).doc, step |-> "tmp",
                     after |-> [ok \in BOOLEAN |-> IF ok THEN {Effective(c)} ELSE nmay[s]]]
         /\ nmay' = [nmay EXCEPT ![s] = @ \cup {Effective(c)}]
    ELSE UNCHANGED <<njob, nmay>>
NqWriteTmp ==
    /\ njob # NIdle /\ njob.step = "tmp"
    /\ \/ /\ nfiles' = Write(nfiles, <<"config", njob.stem, "tmp">>, njob.doc)
          /\ njob' = [njob EXCEPT !.step = "rename"]
          /\ UNCHANGED <<nfaults, nmay>>
       \/ /\ NFault /\ njob' = NIdle
          /\ nfiles' = Drop(nfiles, <<"config", njob.stem, "tmp">>)
          /\ nmay' = [nmay EXCEPT ![njob.stem] = njob.after[FALSE]]
    /\ UNCHANGED <<nstore, nsvc, ncache, nslave, nready, nqueue, nops, nkills, nfresh>>
NqRename ==
    /\ njob # NIdle /\ njob.step = "rename" /\ njob' = NIdle
    /\ LET target == <<"config", njob.stem, "canon">>
           without == Drop(nfiles, <<"config", njob.stem, "tmp">>)
       IN \/ /\ nfiles' = Write(without, target, njob.doc) /\ UNCHANGED nfaults
             /\ nmay' = [nmay EXCEPT ![njob.stem] = njob.after[TRUE]]
          \/ /\ NFault /\ nfiles' = without
             /\ nmay' = [nmay EXCEPT ![njob.stem] = njob.after[FALSE]]
    /\ UNCHANGED <<nstore, nsvc, ncache, nslave, nready, nqueue, nops, nkills, nfresh>>

\* config_store_update: a valid configuration replaces the stored one.
config_store_update(s, c) == nstore' = [nstore EXCEPT ![s] = <<c>>]
----------------------------------------------------------------------------
(* Start, stop and kill. *)

\* bvstk_neutrino_i2c_config_store_init chooses the source of the devices.
Chosen ==
    LET primary == load_directory("config")
        legacy == load_directory("legacy")
    IN IF ~primary.ok THEN [ok |-> FALSE]
       ELSE IF ~nq_empty(primary.devices)
            THEN [ok |-> TRUE, devices |-> primary.devices, migrate |-> FALSE]
       ELSE IF ~legacy.ok THEN [ok |-> FALSE]
       ELSE IF ~nq_empty(legacy.devices)
            THEN [ok |-> TRUE, devices |-> legacy.devices, migrate |-> TRUE]
       ELSE [ok |-> ~nq_empty(load_embedded_defaults),
             devices |-> load_embedded_defaults, migrate |-> TRUE]
\* The rest of bvstk_neutrino_i2c_runtime_init fills services from the store;
\* on a failure everything is shut down again.
RuntimeInit ==
    /\ nready = "down"
    /\ IF Chosen.ok
       THEN /\ nstore' = Chosen.devices
            /\ nsvc' = [s \in NStemSet |-> IF Chosen.devices[s] = <<>> THEN <<>>
                                           ELSE <<Live(Chosen.devices[s][1])>>]
            /\ nslave' = Chosen.devices[First(Chosen.devices)][1].addr
            /\ ncache' = [s \in NStemSet |->
                   IF Chosen.devices[s] = <<>> THEN {}
                   ELSE Effective(Chosen.devices[s][1]).seeds]
            /\ nqueue' = IF Chosen.migrate
                         THEN {s \in NStemSet : Chosen.devices[s] # <<>>} ELSE {}
            /\ nready' = "migrating" /\ nfresh' = TRUE
       ELSE /\ nready' = "failed"
            /\ UNCHANGED <<nstore, nsvc, nslave, ncache, nqueue, nfresh>>
    /\ UNCHANGED <<nfiles, njob, nops, nkills, nfaults, nmay>>
\* Devices that did not come from the primary directory are saved there.
Migrate ==
    /\ nready = "migrating" /\ njob = NIdle
    /\ \/ \E s \in nqueue : /\ \A t \in nqueue : Position(s) <= Position(t)
                            /\ nqueue' = nqueue \ {s}
                            /\ config_store_save(s, nstore[s][1])
                            /\ UNCHANGED nready
       \/ nqueue = {} /\ nready' = "ready" /\ UNCHANGED <<nqueue, njob, nmay>>
    /\ UNCHANGED <<nfiles, nstore, nsvc, ncache, nslave, nops, nkills, nfaults, nfresh>>
Kill ==
    /\ nkills < NMaxKills /\ nkills' = nkills + 1 /\ nready # "down"
    /\ nready' = "down" /\ njob' = NIdle /\ nqueue' = {} /\ nfresh' = FALSE
    /\ nfiles' = IF njob # NIdle /\ njob.step = "tmp"
                 THEN Write(nfiles, <<"config", njob.stem, "tmp">>, Torn) ELSE nfiles
    /\ nstore' = [s \in NStemSet |-> <<>>] /\ nsvc' = [s \in NStemSet |-> <<>>]
    /\ ncache' = [s \in NStemSet |-> {}] /\ nslave' = 0
    /\ UNCHANGED <<nops, nfaults, nmay>>
----------------------------------------------------------------------------
(* Commands and requests; Command holds what they have in common.          *)

NCommand(s) ==
    /\ nready = "ready" /\ njob = NIdle /\ nops < NMaxOps /\ nops' = nops + 1
    /\ nstore[s] # <<>> /\ nfresh' = FALSE
    /\ UNCHANGED <<nfiles, nready, nqueue, nkills>>

\* sync_i2c_config_locked: the live policy and the valid cache bytes become
\* the stored configuration.
update_setting(settings, byte) ==
    LET at == {i \in DOMAIN settings : settings[i].reg = byte.reg} IN
    IF at = {} THEN Append(settings, byte)
    ELSE [settings EXCEPT ![CHOOSE i \in at : \A j \in at : i <= j] = byte]
merge_cache(settings, cache) ==
    FoldLeft(update_setting, settings, SetToSortSeq(cache, LAMBDA a, b : a.reg < b.reg))
\* A mistake: one of the two rule lists is forgotten.
synced_white_only(s, live, cache) ==
    LET c == nstore[s][1] IN
    [c EXCEPT !.policy = live.policy, !.white = live.white,
              !.addr = live.addr, !.settings = merge_cache(@, cache)]
synced(s, live, cache) ==
    LET c == nstore[s][1] IN
    [c EXCEPT !.policy = live.policy, !.white = live.white, !.black = live.black,
              !.addr = live.addr, !.settings = merge_cache(@, cache)]

\* cache_response of the master service: the byte of register 0 becomes the
\* one transferred, or invalid (no byte) when the transfer failed.
Replied(cache, bytes) == {b \in cache : b.reg # 0} \cup bytes
Byte(v) == [reg |-> 0, val |-> v]
\* "r", and a "w" that fails: only the cache changes.
ReadCommand(s) ==
    /\ NCommand(s)
    /\ \E bytes \in {{}} \cup {{Byte(v)} : v \in NValues} :
          ncache' = [ncache EXCEPT ![s] = Replied(@, bytes)]
    /\ UNCHANGED <<nstore, nsvc, nslave, njob, nfaults, nmay>>
\* "w", and WRITE_REG of DCP2: the write reached the chip, so the cache holds
\* the byte; the new configuration is stored and saved.
WriteCommand(s, v) ==
    /\ NCommand(s)
    /\ LET cache == Replied(ncache[s], {Byte(v)})
           next == synced(s, nsvc[s][1], cache)
       IN /\ ncache' = [ncache EXCEPT ![s] = cache]
          /\ config_store_update(s, next) /\ config_store_save(s, next)
    /\ UNCHANGED <<nsvc, nslave, nfaults>>

duplicate_identity(s, c) ==
    \E t \in NStemSet \ {s} : nstore[t] # <<>> /\ nstore[t][1].addr = c.addr
\* apply_config_locked: service, then slave address, then store, then file; a
\* refused slave address takes the service back.  A new address empties the
\* device's cache (bvstk_i2c_master_service_set_config), also when the service
\* is taken back.
apply_config_locked(s, c) ==
    /\ NCommand(s)
    /\ bvstk_i2c_config_validate(c) /\ ~duplicate_identity(s, c)
    /\ LET changed == s = First(nstore) /\ nstore[s][1].addr # c.addr IN
       \/ /\ nsvc' = [nsvc EXCEPT ![s] = <<Live(c)>>]
          /\ nslave' = IF changed THEN c.addr ELSE nslave
          /\ config_store_update(s, c) /\ config_store_save(s, c)
          /\ UNCHANGED nfaults
       \/ /\ changed /\ NFault
          /\ nsvc' = [nsvc EXCEPT ![s] = <<Live(nstore[s][1])>>]
          /\ UNCHANGED <<nslave, nstore, njob, nmay>>
    /\ ncache' = IF nsvc[s][1].addr = c.addr THEN ncache ELSE [ncache EXCEPT ![s] = {}]

NModes == {"whitelist", "blacklist"}
AddRule(rules, r) == IF r \in Range(rules) THEN rules ELSE Append(rules, r)
DelRule(rules, r) == SelectSeq(rules, LAMBDA x : x # r)
\* policy_edit: the stored configuration with one edit.
policy_edits(c) ==
    {[c EXCEPT !.policy = p] : p \in NModes}
      \cup {[c EXCEPT !.white = AddRule(@, r)] : r \in NRules}
      \cup {[c EXCEPT !.black = DelRule(@, r)] : r \in NRules}
      \cup {[c EXCEPT !.white = <<>>]}

\* execute_locked: addr and policy.
ApplyCommand(s) ==
    \E c \in {[nstore[s][1] EXCEPT !.addr = a] : a \in NAddresses}
                \cup policy_edits(nstore[s][1]) : apply_config_locked(s, c)
\* A DCP2 rule edit changes the service; sync_dcp_i2c_mutation mirrors it into
\* the store without saving.
DcpPolicy(s, r) ==
    /\ NCommand(s)
    /\ LET live == [nsvc[s][1] EXCEPT !.black = AddRule(@, r)] IN
       /\ nsvc' = [nsvc EXCEPT ![s] = <<live>>]
       /\ config_store_update(s, synced(s, live, {}))
    /\ UNCHANGED <<ncache, nslave, njob, nfaults, nmay>>
\* A DCP2 change of the mode is mirrored with the cache, and saved.
DcpMode(s, mode) ==
    /\ NCommand(s)
    /\ LET live == [nsvc[s][1] EXCEPT !.policy = mode]
           next == synced(s, live, ncache[s])
       IN /\ nsvc' = [nsvc EXCEPT ![s] = <<live>>]
          /\ config_store_update(s, next) /\ config_store_save(s, next)
    /\ UNCHANGED <<ncache, nslave, nfaults>>

NInit ==
    \E f \in NFlashes :
        /\ nfiles = f.files /\ nmay = f.may
        /\ nstore = [s \in NStemSet |-> <<>>] /\ nsvc = [s \in NStemSet |-> <<>>]
        /\ ncache = [s \in NStemSet |-> {}] /\ nslave = 0
        /\ nready = "down" /\ nqueue = {} /\ njob = NIdle
        /\ nops = 0 /\ nkills = 0 /\ nfaults = 0 /\ nfresh = FALSE
NNext ==
    \/ RuntimeInit \/ Migrate \/ Kill \/ NqWriteTmp \/ NqRename
    \/ \E s \in NStemSet :
          \/ ReadCommand(s) \/ \E v \in NValues : WriteCommand(s, v)
          \/ nready = "ready" /\ nstore[s] # <<>> /\ ApplyCommand(s)
          \/ \E r \in NRules : DcpPolicy(s, r)
          \/ \E mode \in NModes : DcpMode(s, mode)
NSpec == NInit /\ [][NNext]_nvars
----------------------------------------------------------------------------
(* Properties. *)

\* Store, service and slave core agree whenever the state mutex is free: a
\* command that stops half way has taken back what it did (apply_config_locked),
\* and a DCP2 edit is not lost to the next console edit.
RuntimeAgrees ==
    nready = "ready" =>
        /\ \A s \in NStemSet :
              nstore[s] # <<>> => nsvc[s] = <<Live(nstore[s][1])>>
        /\ nslave = nstore[First(nstore)][1].addr

\* A start loads, for every device it loads, the configuration saved last or
\* the one whose save was interrupted; the rename never leaves a torn file.
\* If no migration was cut short, every device is loaded.
NeutrinoLoadedIsSaved ==
    nfresh => \A s \in NStemSet :
        /\ nstore[s] # <<>> => Effective(nstore[s][1]) \in nmay[s]
        /\ nkills = 0 /\ nfaults = 0 /\ nmay[s] # {} => nstore[s] # <<>>
=============================================================================
