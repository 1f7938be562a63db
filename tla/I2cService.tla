----------------------------- MODULE I2cService -----------------------------
(***************************************************************************)
(* The I2C master service of one device: bvstk_i2c_master_service.c with   *)
(* its device table, policy and register cache, and the bridge that shows  *)
(* the cache to the registry (bvstk_cache_bridges.c).                      *)
(*                                                                         *)
(* Tasks of three kinds call it.  Clients (console, web, DCP2, the slave   *)
(* task) read and write registers: a call copies the device record, waits  *)
(* for the bus, then files the reply.  Configurators apply a new device    *)
(* configuration.  Policy edits are one guarded step each.  What the code  *)
(* does between cache_sink_enter and cache_sink_leave (a FreeRTOS critical *)
(* section) is one step; between two such sections any other task may run. *)
(* The driver's mutex makes one bus transfer one step.                     *)
(*                                                                         *)
(* The name and the limits of a device never change after boot: every      *)
(* caller of apply_config starts from the stored record of the device, so  *)
(* a configuration is an address and a policy, and apply_config always     *)
(* finds the device by its name.  Published events, time stamps and the    *)
(* presence flag copied into events are left out.                          *)
(***************************************************************************)
EXTENDS Integers, FiniteSets

CONSTANTS
    Clients,        \* tasks that read and write registers
    Configurators,  \* tasks that apply configurations
    Addresses,      \* bus addresses
    RegCount,       \* reg_count of the device
    MaxValue,       \* max_value_code of the device
    RulesMax,       \* I2C_CFG_RULES_MAX
    Configs,        \* the configurations tasks apply
    EditedRules,    \* (register, value) pairs policy edits name
    EditedModes     \* policy modes edits select

None == "none"
Registers == 0 .. RegCount - 1
Values == 0 .. MaxValue
Rules == Registers \X Values
Modes == {"whitelist", "blacklist"}
Policies == [mode : Modes, whitelist : SUBSET Rules, blacklist : SUBSET Rules]

ASSUME ServiceAssumption ==
    /\ RegCount \in Nat \ {0}
    /\ MaxValue \in Nat
    /\ RulesMax \in Nat
    /\ Clients \cap Configurators = {}
    /\ None \notin Addresses
    /\ Configs \subseteq [addr : Addresses, policy : Policies]
    /\ \A c \in Configs : /\ Cardinality(c.policy.whitelist) <= RulesMax
                          /\ Cardinality(c.policy.blacklist) <= RulesMax
    /\ EditedRules \subseteq Nat \X Nat
    /\ EditedModes \subseteq Modes

VARIABLES
    addr,           \* devices->items[id].addr_7b
    policy,         \* policy->items[id]
    presence,       \* service->presence[id]
    cache,          \* the register cache
    catalog,        \* the device as the registry shows it
    wire,           \* what the chip at each address holds
    task,           \* the call each task is in
    heardFrom,      \* history: the address presence was last set for
    permittedOnce   \* history: clients whose write the policy has allowed
                    \* at some moment since the call began

vars == <<addr, policy, presence, cache, catalog, wire, task, heardFrom, permittedOnce>>

Tasks == Clients \cup Configurators

\* A register of the cache.  from is history: the address the value came from.
Invalid == [valid |-> FALSE, seeded |-> FALSE, value |-> 0, from |-> None]
Seeded(v) == [valid |-> TRUE, seeded |-> TRUE, value |-> v, from |-> None]
Cached(v, a) == [valid |-> TRUE, seeded |-> FALSE, value |-> v, from |-> a]
CacheEntries == {Invalid} \cup {Seeded(v) : v \in Values} \cup
                {Cached(v, a) : v \in Values, a \in Addresses}

\* What the bridge passes to bvstk_cache_put and bvstk_cache_define: validity,
\* the source (settings or device) and, of a valid entry, the value.
Exported(e) == IF e.valid THEN [valid |-> TRUE, seeded |-> e.seeded, value |-> e.value]
                          ELSE [valid |-> FALSE, seeded |-> FALSE, value |-> 0]

Presences == {"unknown", "responding", "unavailable"}
Catalogs == [presence : Presences, entries : [Registers -> {Exported(e) : e \in CacheEntries}]]

\* The statuses a transfer ends with.  "failed" stands for the three that
\* say the chip did not answer (IO, TIMEOUT, NOT_FOUND), "refused" for the
\* others (busy core, core not ready).
Statuses == {"ok", "failed", "refused"}

Idle == [pc |-> "idle"]
Calls ==
    {Idle} \cup
    [pc : {"check", "transfer"}, op : {"read", "write"}, addr : Addresses,
     reg : Registers, value : Values] \cup
    [pc : {"record", "cache"}, op : {"read", "write"}, addr : Addresses,
     reg : Registers, value : Values, status : Statuses] \cup
    [pc : {"commit"}, config : Configs, previous : Addresses]

-----------------------------------------------------------------------------
(* Policy: bvstk_i2c_policy.c                                              *)

rule_valid(r, v) == r < RegCount /\ v <= MaxValue

\* A mistake: the list of the other mode.
PermitsOtherList(r, v) ==
    /\ rule_valid(r, v)
    /\ IF policy.mode = "whitelist" THEN <<r, v>> \notin policy.blacklist
                                    ELSE <<r, v>> \in policy.whitelist

bvstk_i2c_policy_permits(r, v) ==
    /\ rule_valid(r, v)
    /\ IF policy.mode = "whitelist" THEN <<r, v>> \in policy.whitelist
                                    ELSE <<r, v>> \notin policy.blacklist

\* add_rule: a rule already there is accepted, a full list is refused.
Fits(list, rule) == rule \in list \/ Cardinality(list) < RulesMax

\* History: the writes in progress that the new policy allows.
Allows(p, rule) == IF p.mode = "whitelist" THEN rule \in p.whitelist
                                           ELSE rule \notin p.blacklist
Awaiting == {t \in Clients : task[t].pc \in {"check", "transfer"} /\ task[t].op = "write"}
NowPermitted(p) == {t \in Awaiting : Allows(p, <<task[t].reg, task[t].value>>)}

\* Every guarded policy edit replaces the policy and nothing else.
SetPolicy(p) ==
    /\ policy' = p
    /\ permittedOnce' = permittedOnce \cup NowPermitted(p)
    /\ UNCHANGED <<addr, presence, cache, catalog, wire, task, heardFrom>>

set_policy(mode) == SetPolicy([policy EXCEPT !.mode = mode])

rule_allow(rule) ==
    /\ rule_valid(rule[1], rule[2])
    /\ Fits(policy.whitelist, rule)
    /\ SetPolicy([policy EXCEPT !.whitelist = @ \cup {rule}])

rule_deny(rule) ==
    /\ rule_valid(rule[1], rule[2])
    /\ Fits(policy.blacklist, rule)
    /\ SetPolicy([policy EXCEPT !.blacklist = @ \cup {rule}])

rule_clear(rule) ==
    SetPolicy([policy EXCEPT !.whitelist = @ \ {rule}, !.blacklist = @ \ {rule}])

rule_remove(list, rule) ==
    /\ rule_valid(rule[1], rule[2])
    /\ rule \in policy[list]
    /\ SetPolicy([policy EXCEPT ![list] = @ \ {rule}])

rule_clear_list(list) == SetPolicy([policy EXCEPT ![list] = {}])

EditPolicy ==
    \/ \E mode \in EditedModes : set_policy(mode)
    \/ \E rule \in EditedRules : \/ rule_allow(rule)
                                 \/ rule_deny(rule)
                                 \/ rule_clear(rule)
                                 \/ \E list \in Modes : rule_remove(list, rule)
    \/ EditedRules # {} /\ \E list \in Modes : rule_clear_list(list)

-----------------------------------------------------------------------------
(* Register calls                                                          *)

\* read_from: copy the device record, refuse a register out of range.
read_from(t) ==
    \E r \in Registers :
        /\ task[t] = Idle
        /\ task' = [task EXCEPT ![t] = [pc |-> "transfer", op |-> "read", addr |-> addr,
                                        reg |-> r, value |-> 0]]
        /\ UNCHANGED <<addr, policy, presence, cache, catalog, wire, heardFrom, permittedOnce>>

\* write: the same, and refuse a value out of range.
write(t) ==
    \E r \in Registers, v \in Values :
        /\ task[t] = Idle
        /\ task' = [task EXCEPT ![t] = [pc |-> "check", op |-> "write", addr |-> addr,
                                        reg |-> r, value |-> v]]
        /\ permittedOnce' = IF Allows(policy, <<r, v>>) THEN permittedOnce \cup {t}
                                                        ELSE permittedOnce \ {t}
        /\ UNCHANGED <<addr, policy, presence, cache, catalog, wire, heardFrom>>

\* The guarded permission check of a write: denied ends the call.
CheckPolicy(t) ==
    /\ task[t].pc = "check"
    /\ task' = [task EXCEPT ![t] =
                    IF bvstk_i2c_policy_permits(@.reg, @.value)
                    THEN [@ EXCEPT !.pc = "transfer"] ELSE Idle]
    /\ UNCHANGED <<addr, policy, presence, cache, catalog, wire, heardFrom, permittedOnce>>

Ended(c, v, status) ==
    [pc |-> "record", op |-> c.op, addr |-> c.addr, reg |-> c.reg, value |-> v,
     status |-> status]

\* backend_read: the reply is what the chip holds now; an error has no value.
backend_read(t) ==
    \E status \in Statuses :
        /\ task[t].pc = "transfer" /\ task[t].op = "read"
        /\ task' = [task EXCEPT ![t] =
                        Ended(@, IF status = "ok" THEN wire[@.addr][@.reg] ELSE 0, status)]
        /\ UNCHANGED <<addr, policy, presence, cache, catalog, wire, heardFrom, permittedOnce>>

\* backend_write: a failed write may or may not have reached the chip.
backend_write(t) ==
    \E status \in Statuses, stored \in BOOLEAN :
        /\ task[t].pc = "transfer" /\ task[t].op = "write"
        /\ status = "ok" => stored
        /\ status = "refused" => ~stored
        /\ wire' = IF stored THEN [wire EXCEPT ![task[t].addr][task[t].reg] = task[t].value]
                             ELSE wire
        /\ task' = [task EXCEPT ![t] = Ended(@, @.value, status)]
        /\ UNCHANGED <<addr, policy, presence, cache, catalog, heardFrom, permittedOnce>>

\* A mistake: the reply is recorded whoever sent it.
SameAddressAlways(a) == TRUE

\* The guarded test of record_response and cache_response: is the device
\* still at the address the call was made to?
SameAddress(a) == a = addr

\* record_response: only a read that succeeded shows that the chip answers.
PresenceAfter(c) ==
    IF c.status = "ok" /\ c.op = "read" THEN "responding"
    ELSE IF c.status = "failed" THEN "unavailable" ELSE presence

record_response(t) ==
    LET c == task[t]
        new == PresenceAfter(c)
    IN  /\ c.pc = "record"
        /\ task' = [task EXCEPT ![t] = [@ EXCEPT !.pc = "cache"]]
        /\ IF SameAddress(c.addr)
           THEN /\ presence' = new
                /\ catalog' = [catalog EXCEPT !.presence = new]
                /\ heardFrom' = IF c.status = "failed" \/ (c.status = "ok" /\ c.op = "read")
                                THEN c.addr ELSE heardFrom
           ELSE UNCHANGED <<presence, catalog, heardFrom>>
        /\ UNCHANGED <<addr, policy, cache, wire, permittedOnce>>

\* A mistake: the old value stays valid when the transfer failed.
ReplyKeptOnError(c) == IF c.status = "ok" THEN Cached(c.value, c.addr) ELSE cache[c.reg]

\* bvstk_i2c_cache_write or, after an error, bvstk_i2c_cache_invalidate.
Reply(c) == IF c.status = "ok" THEN Cached(c.value, c.addr) ELSE Invalid

\* A mistake: an invalidated register is not forwarded.
ForwardValid(c) ==
    IF Reply(c).valid THEN [catalog EXCEPT !.entries[c.reg] = Exported(Reply(c))] ELSE catalog

\* i2c_entry: the registry gets the register's new state.
Forward(c) == [catalog EXCEPT !.entries[c.reg] = Exported(Reply(c))]

\* cache_response, and the end of the call.
cache_response(t) ==
    LET c == task[t]
    IN  /\ c.pc = "cache"
        /\ task' = [task EXCEPT ![t] = Idle]
        /\ IF SameAddress(c.addr)
           THEN /\ cache' = [cache EXCEPT ![c.reg] = Reply(c)]
                /\ catalog' = Forward(c)
           ELSE UNCHANGED <<cache, catalog>>
        /\ permittedOnce' = permittedOnce \ {t}
        /\ UNCHANGED <<addr, policy, presence, wire, heardFrom>>

-----------------------------------------------------------------------------
(* Configuration                                                           *)

\* set_config up to its guard: the previous record is copied outside it.
ReadPrevious(t) ==
    \E c \in Configs :
        /\ task[t] = Idle
        /\ task' = [task EXCEPT ![t] = [pc |-> "commit", config |-> c, previous |-> addr]]
        /\ UNCHANGED <<addr, policy, presence, cache, catalog, wire, heardFrom, permittedOnce>>

\* The test that drops what is known of the device.
Moved(c) == c.previous # c.config.addr

\* cache_config_changed: configure_i2c defines the catalog from the cache.
CatalogAfter(p, entries) ==
    [presence |-> p, entries |-> [r \in Registers |-> Exported(entries[r])]]

\* The guarded rest of set_config.
set_config(t) ==
    LET c == task[t]
    IN  /\ c.pc = "commit"
        /\ addr' = c.config.addr
        /\ presence' = IF Moved(c) THEN "unknown" ELSE presence
        /\ cache' = IF Moved(c) THEN [r \in Registers |-> Invalid] ELSE cache
        /\ catalog' = CatalogAfter(presence', cache')
        /\ policy' = c.config.policy
        /\ permittedOnce' = permittedOnce \cup NowPermitted(c.config.policy)
        /\ task' = [task EXCEPT ![t] = Idle]
        /\ UNCHANGED <<wire, heardFrom>>

-----------------------------------------------------------------------------
\* Boot: the stored configuration, its settings seeded into the cache, and
\* the catalog defined from them; no call is in progress.
Init ==
    /\ \E c \in Configs : addr = c.addr /\ policy = c.policy
    /\ presence = "unknown"
    /\ cache \in [Registers -> {Invalid, Seeded(0)}]
    /\ catalog = CatalogAfter(presence, cache)
    /\ wire = [a \in Addresses |-> [r \in Registers |-> 0]]
    /\ task = [t \in Tasks |-> Idle]
    /\ heardFrom = None
    /\ permittedOnce = {}

ClientStep(t) ==
    \/ read_from(t)
    \/ write(t)
    \/ CheckPolicy(t)
    \/ backend_read(t)
    \/ backend_write(t)
    \/ record_response(t)
    \/ cache_response(t)

Next ==
    \/ \E t \in Clients : ClientStep(t)
    \/ \E t \in Configurators : ReadPrevious(t) \/ set_config(t)
    \/ EditPolicy

Spec == Init /\ [][Next]_vars

-----------------------------------------------------------------------------
(* Properties                                                              *)

\* Every variable keeps its type, and no rule list outgrows its array
\* whatever sequence of edits and configurations is applied (add_rule).
TypeOK ==
    /\ addr \in Addresses
    /\ policy \in Policies
    /\ Cardinality(policy.whitelist) <= RulesMax
    /\ Cardinality(policy.blacklist) <= RulesMax
    /\ presence \in Presences
    /\ cache \in [Registers -> CacheEntries]
    /\ catalog \in Catalogs
    /\ wire \in [Addresses -> [Registers -> Values]]
    /\ task \in [Tasks -> Calls]
    /\ heardFrom \in Addresses \cup {None}
    /\ permittedOnce \subseteq Clients

\* A reply for an old address never becomes a value of the new device: what
\* the cache holds as read or written came from the address the device has
\* now, though configurations change while transfers wait (cache_response,
\* set_config).
CacheFromDevice ==
    \A r \in Registers : cache[r].from # None => cache[r].from = addr

\* What is said about presence was learned at the device's own address
\* (record_response, set_config).
PresenceFromDevice == presence # "unknown" => heardFrom = addr

\* Outside the guard the registry shows exactly the service's cache and
\* presence, whoever changed them last (the sink calls, configure_i2c).
CatalogMirrors ==
    /\ catalog.presence = presence
    /\ \A r \in Registers : catalog.entries[r] = Exported(cache[r])

\* A write reaches the bus only if the policy allowed it at some moment
\* between the call and the transfer: an edit or a configuration that
\* forbids it beforehand is never overlooked (write, the policy edits).
WritesPermitted ==
    \A t \in Clients :
        task[t].pc = "transfer" /\ task[t].op = "write" => t \in permittedOnce

\* A register no reply is pending for holds what the chip holds: the cache
\* reflects the value sent last, and a transfer that failed leaves no old
\* value behind (bvstk_i2c_master_service_write, cache_response).
Pending(r) == \E t \in Clients : task[t].pc \in {"record", "cache"} /\ task[t].reg = r
CacheCoherent ==
    \A r \in Registers :
        cache[r].from # None /\ ~Pending(r) => cache[r].value = wire[addr][r]
=============================================================================
