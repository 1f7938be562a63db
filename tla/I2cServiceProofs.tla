-------------------------- MODULE I2cServiceProofs --------------------------
(***************************************************************************)
(* What the I2C master service guarantees for any number of registers,     *)
(* values, addresses, clients and rules.                                   *)
(*                                                                         *)
(* Three facts carry the argument and are not asked for by themselves.     *)
(* Roles keeps clients out of the configuration path.  PermissionNoted is  *)
(* WritesPermitted one step earlier: a write the policy allows now has     *)
(* been noted as allowed.  PreviousCurrent says that the record set_config *)
(* compares with is still the current one; it holds when at most one task  *)
(* configures, and it is what makes the invalidation of set_config happen  *)
(* on every change of address.  CacheIsCoherent adds CoherentInv, and the  *)
(* assumption of one client.                                               *)
(***************************************************************************)
EXTENDS I2cService, FiniteSetTheorems, TLAPS

Roles ==
    /\ \A t \in Clients : task[t].pc # "commit"
    /\ \A t \in Configurators : task[t].pc \in {"idle", "commit"}

PermissionNoted ==
    \A t \in Clients :
        /\ task[t].pc \in {"check", "transfer"}
        /\ task[t].op = "write"
        /\ Allows(policy, <<task[t].reg, task[t].value>>)
        => t \in permittedOnce

PreviousCurrent ==
    \A t \in Configurators : task[t].pc = "commit" => task[t].previous = addr

\* At most one task applies configurations.
SingleWriter == \A s, t \in Configurators : s = t

\* What needs no assumption on the writers, and what needs one.
ServiceInv == TypeOK /\ Roles /\ CatalogMirrors /\ PermissionNoted /\ WritesPermitted
OriginInv == PreviousCurrent /\ CacheFromDevice /\ PresenceFromDevice

-----------------------------------------------------------------------------
\* A call's program counter tells its shape.
LEMMA CallShape ==
    ASSUME NEW c \in Calls
    PROVE  /\ c.pc \in {"check", "transfer"} =>
                c \in [pc : {"check", "transfer"}, op : {"read", "write"}, addr : Addresses,
                       reg : Registers, value : Values]
           /\ c.pc \in {"record", "cache"} =>
                c \in [pc : {"record", "cache"}, op : {"read", "write"}, addr : Addresses,
                       reg : Registers, value : Values, status : Statuses]
           /\ c.pc = "commit" =>
                c \in [pc : {"commit"}, config : Configs, previous : Addresses]
  BY DEF Calls, Idle

\* Rule lists are finite, so their lengths are numbers (I2C_CFG_RULES_MAX).
LEMMA RulesFinite ==
    ASSUME NEW S \in SUBSET Rules
    PROVE  IsFiniteSet(S) /\ Cardinality(S) \in Nat
  <1>1. RegCount \in Int /\ MaxValue \in Int
    BY ServiceAssumption
  <1>2. IsFiniteSet(Registers) /\ IsFiniteSet(Values)
    BY <1>1, FS_Interval DEF Registers, Values
  <1>3. IsFiniteSet(Rules)
    BY <1>2, FS_Product DEF Rules
  <1> QED
    BY <1>3, FS_Subset, FS_CardinalityType

\* add_rule keeps a list of at most RulesMax rules that short.
LEMMA AddRuleFits ==
    ASSUME NEW S \in SUBSET Rules, Cardinality(S) <= RulesMax,
           NEW rule \in EditedRules, rule_valid(rule[1], rule[2]), Fits(S, rule)
    PROVE  /\ S \cup {rule} \in SUBSET Rules
           /\ Cardinality(S \cup {rule}) <= RulesMax
  <1>1. rule \in Nat \X Nat
    BY ServiceAssumption
  <1>2. rule \in Rules
    BY <1>1, ServiceAssumption DEF rule_valid, Rules, Registers, Values
  <1>3. S \cup {rule} \in SUBSET Rules
    BY <1>2
  <1>4. CASE rule \in S
    <2>1. S \cup {rule} = S
      BY <1>4
    <2> QED BY <1>3, <2>1
  <1>5. CASE rule \notin S
    <2>1. Cardinality(S \cup {rule}) = Cardinality(S) + 1
      BY <1>5, RulesFinite, FS_AddElement
    <2> QED
      BY <1>3, <1>5, <2>1, RulesFinite, ServiceAssumption DEF Fits
  <1> QED BY <1>4, <1>5

\* Removing rules keeps a list short.
LEMMA SubsetFits ==
    ASSUME NEW S \in SUBSET Rules, Cardinality(S) <= RulesMax, NEW T \in SUBSET S
    PROVE  T \in SUBSET Rules /\ Cardinality(T) <= RulesMax
  <1>1. IsFiniteSet(S) /\ Cardinality(S) \in Nat /\ Cardinality(T) \in Nat
    BY RulesFinite
  <1>2. Cardinality(T) <= Cardinality(S)
    BY <1>1, FS_Subset
  <1> QED BY <1>1, <1>2, ServiceAssumption

-----------------------------------------------------------------------------
\* Boot establishes the invariants (initialize_i2c, bvstk_cache_attach_i2c).
LEMMA InitHolds ==
    Init => ServiceInv /\ OriginInv
  <1> SUFFICES ASSUME Init PROVE ServiceInv /\ OriginInv
    OBVIOUS
  <1>1. PICK c \in Configs : addr = c.addr /\ policy = c.policy
    BY DEF Init
  <1>2. /\ c \in [addr : Addresses, policy : Policies]
        /\ Cardinality(c.policy.whitelist) <= RulesMax
        /\ Cardinality(c.policy.blacklist) <= RulesMax
    BY ServiceAssumption
  <1>3. 0 \in Values
    BY ServiceAssumption DEF Values
  <1>4. \A r \in Registers : cache[r] \in CacheEntries /\ cache[r].from = None
    BY <1>3 DEF Init, CacheEntries, Invalid, Seeded
  <1>5. cache \in [Registers -> CacheEntries]
    BY <1>4 DEF Init
  <1>6. catalog = [presence |-> presence, entries |-> [r \in Registers |-> Exported(cache[r])]]
    BY DEF Init, CatalogAfter
  <1>7. catalog \in Catalogs
    BY <1>5, <1>6 DEF Init, Catalogs, Presences
  <1>8. TypeOK
    BY <1>1, <1>2, <1>3, <1>5, <1>7 DEF Init, TypeOK, Presences, Calls
  <1>9. CatalogMirrors
    BY <1>6 DEF CatalogMirrors
  <1>10. Roles /\ PermissionNoted /\ WritesPermitted /\ PreviousCurrent
    BY DEF Init, Roles, PermissionNoted, WritesPermitted, PreviousCurrent, Idle, Tasks
  <1>11. CacheFromDevice /\ PresenceFromDevice
    BY <1>4 DEF Init, CacheFromDevice, PresenceFromDevice
  <1> QED
    BY <1>8, <1>9, <1>10, <1>11 DEF ServiceInv, OriginInv

\* A policy whose lists fit may replace the policy at any moment.
LEMMA PolicyStep ==
    ASSUME ServiceInv, NEW p \in Policies,
           Cardinality(p.whitelist) <= RulesMax, Cardinality(p.blacklist) <= RulesMax,
           SetPolicy(p)
    PROVE  ServiceInv' /\ (OriginInv => OriginInv')
  <1> USE DEF ServiceInv, SetPolicy
  <1>1. TypeOK'
    BY DEF TypeOK, NowPermitted, Awaiting
  <1>2. Roles' /\ CatalogMirrors'
    BY DEF Roles, CatalogMirrors
  <1>3. PermissionNoted'
    BY DEF PermissionNoted, NowPermitted, Awaiting
  <1>4. WritesPermitted'
    BY DEF WritesPermitted
  <1>5. OriginInv => OriginInv'
    BY DEF OriginInv, PreviousCurrent, CacheFromDevice, PresenceFromDevice
  <1> QED BY <1>1, <1>2, <1>3, <1>4, <1>5

\* Every policy edit keeps both lists within their arrays.
LEMMA EditStep ==
    ASSUME ServiceInv, EditPolicy
    PROVE  ServiceInv' /\ (OriginInv => OriginInv')
  <1>1. /\ policy \in Policies
        /\ Cardinality(policy.whitelist) <= RulesMax
        /\ Cardinality(policy.blacklist) <= RulesMax
    BY DEF ServiceInv, TypeOK
  <1>2. ASSUME NEW mode \in EditedModes, set_policy(mode)
        PROVE  ServiceInv' /\ (OriginInv => OriginInv')
    <2>1. mode \in Modes
      BY ServiceAssumption
    <2> DEFINE p == [policy EXCEPT !.mode = mode]
    <2>2. p \in Policies /\ p.whitelist = policy.whitelist /\ p.blacklist = policy.blacklist
      BY <1>1, <2>1 DEF Policies
    <2>3. SetPolicy(p)
      BY <1>2 DEF set_policy
    <2> QED
      BY <1>1, <2>2, <2>3, PolicyStep
  <1>3. ASSUME NEW rule \in EditedRules, rule_allow(rule)
        PROVE  ServiceInv' /\ (OriginInv => OriginInv')
    <2> DEFINE p == [policy EXCEPT !.whitelist = @ \cup {rule}]
    <2>1. p.whitelist = policy.whitelist \cup {rule} /\ p.blacklist = policy.blacklist
      BY <1>1 DEF Policies
    <2>2. /\ policy.whitelist \cup {rule} \in SUBSET Rules
          /\ Cardinality(policy.whitelist \cup {rule}) <= RulesMax
      BY <1>1, <1>3, AddRuleFits DEF rule_allow, Policies
    <2>3. p \in Policies
      BY <1>1, <2>2 DEF Policies
    <2>4. SetPolicy(p)
      BY <1>3 DEF rule_allow
    <2> QED
      BY <1>1, <2>1, <2>2, <2>3, <2>4, PolicyStep
  <1>4. ASSUME NEW rule \in EditedRules, rule_deny(rule)
        PROVE  ServiceInv' /\ (OriginInv => OriginInv')
    <2> DEFINE p == [policy EXCEPT !.blacklist = @ \cup {rule}]
    <2>1. p.blacklist = policy.blacklist \cup {rule} /\ p.whitelist = policy.whitelist
      BY <1>1 DEF Policies
    <2>2. /\ policy.blacklist \cup {rule} \in SUBSET Rules
          /\ Cardinality(policy.blacklist \cup {rule}) <= RulesMax
      BY <1>1, <1>4, AddRuleFits DEF rule_deny, Policies
    <2>3. p \in Policies
      BY <1>1, <2>2 DEF Policies
    <2>4. SetPolicy(p)
      BY <1>4 DEF rule_deny
    <2> QED
      BY <1>1, <2>1, <2>2, <2>3, <2>4, PolicyStep
  <1>5. ASSUME NEW W \in SUBSET policy.whitelist, NEW B \in SUBSET policy.blacklist,
               SetPolicy([policy EXCEPT !.whitelist = W, !.blacklist = B])
        PROVE  ServiceInv' /\ (OriginInv => OriginInv')
    <2> DEFINE p == [policy EXCEPT !.whitelist = W, !.blacklist = B]
    <2>1. p.whitelist = W /\ p.blacklist = B
      BY <1>1 DEF Policies
    <2>2. /\ W \in SUBSET Rules /\ Cardinality(W) <= RulesMax
          /\ B \in SUBSET Rules /\ Cardinality(B) <= RulesMax
      BY <1>1, SubsetFits DEF Policies
    <2>3. p \in Policies
      BY <1>1, <2>2 DEF Policies
    <2> QED
      BY <1>5, <2>1, <2>2, <2>3, PolicyStep
  <1>6. ASSUME NEW rule \in EditedRules, rule_clear(rule)
        PROVE  ServiceInv' /\ (OriginInv => OriginInv')
    <2> DEFINE W == policy.whitelist \ {rule}
               B == policy.blacklist \ {rule}
    <2>1. SetPolicy([policy EXCEPT !.whitelist = W, !.blacklist = B])
      BY <1>6 DEF rule_clear
    <2>2. W \in SUBSET policy.whitelist /\ B \in SUBSET policy.blacklist
      OBVIOUS
    <2> HIDE DEF W, B
    <2> QED BY <2>1, <2>2, <1>5
  <1>7. ASSUME NEW list \in Modes, NEW T \in SUBSET policy[list],
               SetPolicy([policy EXCEPT ![list] = T])
        PROVE  ServiceInv' /\ (OriginInv => OriginInv')
    <2>1. CASE list = "whitelist"
      <3>1. [policy EXCEPT ![list] = T] =
            [policy EXCEPT !.whitelist = T, !.blacklist = policy.blacklist]
        BY <1>1, <2>1 DEF Policies
      <3>2. T \in SUBSET policy.whitelist
        BY <1>1, <2>1 DEF Policies
      <3> QED BY <1>5, <1>7, <3>1, <3>2
    <2>2. CASE list = "blacklist"
      <3>1. [policy EXCEPT ![list] = T] =
            [policy EXCEPT !.whitelist = policy.whitelist, !.blacklist = T]
        BY <1>1, <2>2 DEF Policies
      <3>2. T \in SUBSET policy.blacklist
        BY <1>1, <2>2 DEF Policies
      <3> QED BY <1>5, <1>7, <3>1, <3>2
    <2> QED BY <2>1, <2>2 DEF Modes
  <1>8. ASSUME NEW list \in Modes, NEW rule \in EditedRules, rule_remove(list, rule)
        PROVE  ServiceInv' /\ (OriginInv => OriginInv')
    <2> DEFINE T == policy[list] \ {rule}
    <2>1. SetPolicy([policy EXCEPT ![list] = T])
      BY <1>8 DEF rule_remove
    <2>2. T \in SUBSET policy[list]
      OBVIOUS
    <2> HIDE DEF T
    <2> QED BY <1>7, <2>1, <2>2
  <1>9. ASSUME NEW list \in Modes, rule_clear_list(list)
        PROVE  ServiceInv' /\ (OriginInv => OriginInv')
    <2>1. SetPolicy([policy EXCEPT ![list] = {}])
      BY <1>9 DEF rule_clear_list
    <2> QED BY <1>7, <2>1
  <1> QED
    BY <1>2, <1>3, <1>4, <1>6, <1>8, <1>9 DEF EditPolicy

-----------------------------------------------------------------------------
\* The steps of a call that touch nothing but the call, and perhaps the chip:
\* the new call has a type, is a client's, and if it is a write on its way to
\* the bus it stands where a noted permission covers it.
LEMMA CallStep ==
    ASSUME ServiceInv, NEW t \in Clients, NEW c \in Calls,
           task' = [task EXCEPT ![t] = c],
           c.pc # "commit",
           c.pc \in {"check", "transfer"} /\ c.op = "write" =>
               /\ Allows(policy, <<c.reg, c.value>>) => t \in permittedOnce'
               /\ c.pc = "transfer" => t \in permittedOnce',
           permittedOnce' \subseteq Clients,
           \A u \in Clients \ {t} : u \in permittedOnce => u \in permittedOnce',
           wire' \in [Addresses -> [Registers -> Values]],
           UNCHANGED <<addr, policy, presence, cache, catalog, heardFrom>>
    PROVE  ServiceInv' /\ (OriginInv => OriginInv')
  <1> USE DEF ServiceInv
  <1>1. /\ task \in [Tasks -> Calls]
        /\ t \in Tasks
        /\ \A u \in Configurators : u # t
    BY ServiceAssumption DEF TypeOK, Tasks
  <1>2. task' \in [Tasks -> Calls]
    BY <1>1
  <1>3. task'[t] = c /\ \A u \in Tasks \ {t} : task'[u] = task[u]
    BY <1>1
  <1>4. TypeOK'
    BY <1>2 DEF TypeOK
  <1>5. Roles'
    BY <1>1, <1>3 DEF Roles, Tasks
  <1>6. CatalogMirrors'
    BY DEF CatalogMirrors
  <1>7. PermissionNoted' /\ WritesPermitted'
    <2> SUFFICES ASSUME NEW u \in Clients
                 PROVE  /\ /\ task'[u].pc \in {"check", "transfer"}
                           /\ task'[u].op = "write"
                           /\ Allows(policy, <<task'[u].reg, task'[u].value>>)
                           => u \in permittedOnce'
                        /\ task'[u].pc = "transfer" /\ task'[u].op = "write"
                           => u \in permittedOnce'
      BY DEF PermissionNoted, WritesPermitted, Allows
    <2>1. CASE u = t
      BY <1>3, <2>1
    <2>2. CASE u # t
      <3>1. task'[u] = task[u]
        BY <1>3, <2>2 DEF Tasks
      <3> QED
        BY <2>2, <3>1 DEF PermissionNoted, WritesPermitted
    <2> QED BY <2>1, <2>2
  <1>8. OriginInv => OriginInv'
    <2>1. \A u \in Configurators : task'[u] = task[u]
      BY <1>1, <1>3 DEF Tasks
    <2> QED
      BY <2>1 DEF OriginInv, PreviousCurrent, CacheFromDevice, PresenceFromDevice
  <1> QED BY <1>4, <1>5, <1>6, <1>7, <1>8

\* The steps of a call up to the end of its transfer.
LEMMA TransferSteps ==
    ASSUME ServiceInv, NEW t \in Clients,
           read_from(t) \/ write(t) \/ CheckPolicy(t) \/ backend_read(t) \/ backend_write(t)
    PROVE  ServiceInv' /\ (OriginInv => OriginInv')
  <1>1. /\ task \in [Tasks -> Calls] /\ task[t] \in Calls
        /\ permittedOnce \subseteq Clients
        /\ wire \in [Addresses -> [Registers -> Values]]
        /\ addr \in Addresses
        /\ 0 \in Values
    BY ServiceAssumption DEF ServiceInv, TypeOK, Tasks, Values
  <1>2. CASE read_from(t)
    <2>1. PICK r \in Registers :
             /\ task' = [task EXCEPT ![t] = [pc |-> "transfer", op |-> "read", addr |-> addr,
                                             reg |-> r, value |-> 0]]
             /\ UNCHANGED <<addr, policy, presence, cache, catalog, wire, heardFrom,
                            permittedOnce>>
      BY <1>2 DEF read_from
    <2> DEFINE c == [pc |-> "transfer", op |-> "read", addr |-> addr, reg |-> r, value |-> 0]
    <2>2. c \in Calls /\ c.pc # "commit" /\ c.op # "write"
      BY <1>1 DEF Calls
    <2> HIDE DEF c
    <2> QED BY <1>1, <2>1, <2>2, CallStep DEF c
  <1>3. CASE write(t)
    <2>1. PICK r \in Registers, v \in Values :
             /\ task' = [task EXCEPT ![t] = [pc |-> "check", op |-> "write", addr |-> addr,
                                             reg |-> r, value |-> v]]
             /\ permittedOnce' = IF Allows(policy, <<r, v>>) THEN permittedOnce \cup {t}
                                                             ELSE permittedOnce \ {t}
             /\ UNCHANGED <<addr, policy, presence, cache, catalog, wire, heardFrom>>
      BY <1>3 DEF write
    <2> DEFINE c == [pc |-> "check", op |-> "write", addr |-> addr, reg |-> r, value |-> v]
    <2>2. c \in Calls /\ c.pc = "check" /\ c.reg = r /\ c.value = v
      BY <1>1 DEF Calls
    <2>3. task' = [task EXCEPT ![t] = c]
      BY <2>1
    <2> HIDE DEF c
    <2>4. Allows(policy, <<c.reg, c.value>>) => t \in permittedOnce'
      BY <2>1, <2>2
    <2>5. permittedOnce' \subseteq Clients /\ \A u \in Clients \ {t} : u \in permittedOnce => u \in permittedOnce'
      BY <1>1, <2>1
    <2> QED BY <1>1, <2>1, <2>2, <2>3, <2>4, <2>5, CallStep
  <1>4. CASE CheckPolicy(t)
    <2>1. /\ task[t].pc = "check"
          /\ UNCHANGED <<addr, policy, presence, cache, catalog, wire, heardFrom, permittedOnce>>
      BY <1>4 DEF CheckPolicy
    <2>2. CASE bvstk_i2c_policy_permits(task[t].reg, task[t].value)
      <3> DEFINE c == [task[t] EXCEPT !.pc = "transfer"]
      <3>1. task' = [task EXCEPT ![t] = c]
        BY <1>4, <2>2 DEF CheckPolicy
      <3>2. /\ c \in Calls /\ c.pc = "transfer" /\ c.op = task[t].op
            /\ c.reg = task[t].reg /\ c.value = task[t].value
        BY <1>1, <2>1, CallShape DEF Calls
      <3> HIDE DEF c
      <3>3. Allows(policy, <<task[t].reg, task[t].value>>)
        BY <2>2 DEF Allows, bvstk_i2c_policy_permits
      <3>4. c.op = "write" => t \in permittedOnce'
        BY <2>1, <3>2, <3>3 DEF ServiceInv, PermissionNoted
      <3> QED BY <1>1, <2>1, <3>1, <3>2, <3>4, CallStep
    <2>3. CASE ~bvstk_i2c_policy_permits(task[t].reg, task[t].value)
      <3>1. task' = [task EXCEPT ![t] = Idle]
        BY <1>4, <2>3 DEF CheckPolicy
      <3>2. Idle \in Calls /\ Idle.pc = "idle"
        BY DEF Calls, Idle
      <3> QED BY <1>1, <2>1, <3>1, <3>2, CallStep
    <2> QED BY <2>2, <2>3
  <1>5. CASE backend_read(t)
    <2>1. PICK status \in Statuses :
             /\ task[t].pc = "transfer" /\ task[t].op = "read"
             /\ task' = [task EXCEPT ![t] =
                   Ended(task[t], IF status = "ok" THEN wire[task[t].addr][task[t].reg] ELSE 0,
                         status)]
             /\ UNCHANGED <<addr, policy, presence, cache, catalog, wire, heardFrom,
                            permittedOnce>>
      BY <1>5 DEF backend_read
    <2> DEFINE v == IF status = "ok" THEN wire[task[t].addr][task[t].reg] ELSE 0
               c == Ended(task[t], v, status)
    <2>2. v \in Values
      BY <1>1, <2>1, CallShape
    <2>3. c \in Calls /\ c.pc = "record"
      BY <1>1, <2>1, <2>2, CallShape DEF Calls, Ended
    <2>4. task' = [task EXCEPT ![t] = c]
      BY <2>1
    <2> HIDE DEF c, v
    <2> QED BY <1>1, <2>1, <2>3, <2>4, CallStep
  <1>6. CASE backend_write(t)
    <2>1. PICK status \in Statuses, stored \in BOOLEAN :
             /\ task[t].pc = "transfer" /\ task[t].op = "write"
             /\ wire' = IF stored
                        THEN [wire EXCEPT ![task[t].addr][task[t].reg] = task[t].value]
                        ELSE wire
             /\ task' = [task EXCEPT ![t] = Ended(task[t], task[t].value, status)]
             /\ UNCHANGED <<addr, policy, presence, cache, catalog, heardFrom, permittedOnce>>
      BY <1>6 DEF backend_write
    <2> DEFINE c == Ended(task[t], task[t].value, status)
    <2>2. /\ task[t].addr \in Addresses /\ task[t].reg \in Registers
          /\ task[t].value \in Values
      BY <1>1, <2>1, CallShape
    <2>3. wire' \in [Addresses -> [Registers -> Values]]
      BY <1>1, <2>1, <2>2
    <2>4. c \in Calls /\ c.pc = "record"
      BY <1>1, <2>1, <2>2, CallShape DEF Calls, Ended
    <2>5. task' = [task EXCEPT ![t] = c]
      BY <2>1
    <2> HIDE DEF c
    <2> QED BY <1>1, <2>1, <2>3, <2>4, <2>5, CallStep
  <1> QED BY <1>2, <1>3, <1>4, <1>5, <1>6

-----------------------------------------------------------------------------
\* Filing a reply: presence and its copy in the registry move together, and
\* only for the address the device has (record_response).
LEMMA RecordStep ==
    ASSUME ServiceInv, NEW t \in Clients, record_response(t)
    PROVE  ServiceInv' /\ (OriginInv => OriginInv')
  <1> DEFINE c == task[t]
             d == [task[t] EXCEPT !.pc = "cache"]
             new == PresenceAfter(task[t])
  <1>1. /\ task \in [Tasks -> Calls] /\ t \in Tasks /\ task[t] \in Calls
        /\ presence \in Presences /\ catalog \in Catalogs
        /\ addr \in Addresses /\ heardFrom \in Addresses \cup {None}
    BY DEF ServiceInv, TypeOK, Tasks
  <1>2. /\ c.pc = "record"
        /\ task' = [task EXCEPT ![t] = d]
        /\ UNCHANGED <<addr, policy, cache, wire, permittedOnce>>
    BY DEF record_response
  <1>3. c.addr \in Addresses /\ d \in Calls /\ d.pc = "cache"
    BY <1>1, <1>2, CallShape DEF Calls
  <1>4. new \in Presences
    BY <1>1 DEF PresenceAfter, Presences
  <1>5. \A u \in Tasks : u # t => task'[u] = task[u]
    BY <1>1, <1>2
  <1>6. task'[t] = d /\ task' \in [Tasks -> Calls]
    BY <1>1, <1>2, <1>3
  <1>7. TypeOK' /\ CatalogMirrors' /\ (PresenceFromDevice => PresenceFromDevice')
    <2>1. CASE c.addr = addr
      <3>1. /\ presence' = new
            /\ catalog' = [catalog EXCEPT !.presence = new]
            /\ heardFrom' = IF c.status = "failed" \/ (c.status = "ok" /\ c.op = "read")
                            THEN c.addr ELSE heardFrom
        BY <2>1 DEF record_response, SameAddress
      <3>2. catalog' \in Catalogs /\ catalog'.presence = new /\ catalog'.entries = catalog.entries
        BY <1>1, <1>4, <3>1 DEF Catalogs
      <3>3. TypeOK'
        BY <1>1, <1>2, <1>3, <1>4, <1>6, <3>1, <3>2 DEF ServiceInv, TypeOK
      <3>4. CatalogMirrors'
        BY <1>2, <3>1, <3>2 DEF ServiceInv, CatalogMirrors
      <3>5. PresenceFromDevice => PresenceFromDevice'
        BY <1>2, <2>1, <3>1 DEF PresenceFromDevice, PresenceAfter
      <3> QED BY <3>3, <3>4, <3>5
    <2>2. CASE c.addr # addr
      <3>1. UNCHANGED <<presence, catalog, heardFrom>>
        BY <2>2 DEF record_response, SameAddress
      <3> QED BY <1>2, <1>6, <3>1 DEF ServiceInv, TypeOK, CatalogMirrors, PresenceFromDevice
    <2> QED BY <2>1, <2>2
  <1>8. Roles' /\ PermissionNoted' /\ WritesPermitted'
    BY <1>2, <1>3, <1>5, <1>6, ServiceAssumption
    DEF ServiceInv, Roles, PermissionNoted, WritesPermitted, Tasks, Allows
  <1>9. (PreviousCurrent => PreviousCurrent') /\ (CacheFromDevice => CacheFromDevice')
    BY <1>2, <1>5, ServiceAssumption DEF PreviousCurrent, CacheFromDevice, Tasks
  <1> QED
    BY <1>7, <1>8, <1>9 DEF ServiceInv, OriginInv

\* A reply enters the cache and the registry together, and only for the
\* address the device has (cache_response).
LEMMA CacheStep ==
    ASSUME ServiceInv, NEW t \in Clients, cache_response(t)
    PROVE  ServiceInv' /\ (OriginInv => OriginInv')
  <1> DEFINE c == task[t]
             e == Reply(task[t])
  <1>1. /\ task \in [Tasks -> Calls] /\ t \in Tasks /\ task[t] \in Calls
        /\ cache \in [Registers -> CacheEntries] /\ catalog \in Catalogs
        /\ addr \in Addresses /\ permittedOnce \subseteq Clients
    BY DEF ServiceInv, TypeOK, Tasks
  <1>2. /\ c.pc = "cache"
        /\ task' = [task EXCEPT ![t] = Idle]
        /\ permittedOnce' = permittedOnce \ {t}
        /\ UNCHANGED <<addr, policy, presence, wire, heardFrom>>
    BY DEF cache_response
  <1>3. c.addr \in Addresses /\ c.reg \in Registers /\ c.value \in Values
    BY <1>1, <1>2, CallShape
  <1>4. e \in CacheEntries /\ e.from \in {None, c.addr}
    <2>1. CASE c.status = "ok"
      <3>1. e = Cached(c.value, c.addr)
        BY <2>1 DEF Reply
      <3>2. e \in CacheEntries
        BY <1>3, <3>1 DEF CacheEntries
      <3>3. e.from = c.addr
        BY <3>1 DEF Cached
      <3> QED BY <3>2, <3>3
    <2>2. CASE c.status # "ok"
      <3>1. e = Invalid
        BY <2>2 DEF Reply
      <3> QED BY <3>1 DEF CacheEntries, Invalid
    <2> QED BY <2>1, <2>2
  <1>5. Idle \in Calls /\ Idle.pc = "idle"
    BY DEF Calls, Idle
  <1>6. /\ task' \in [Tasks -> Calls] /\ task'[t] = Idle
        /\ \A u \in Tasks : u # t => task'[u] = task[u]
    BY <1>1, <1>2, <1>5
  <1>7. TypeOK' /\ CatalogMirrors' /\ (CacheFromDevice => CacheFromDevice')
    <2>1. CASE c.addr = addr
      <3>1. /\ cache' = [cache EXCEPT ![c.reg] = e]
            /\ catalog' = [catalog EXCEPT !.entries[c.reg] = Exported(e)]
        BY <2>1 DEF cache_response, SameAddress, Forward
      <3>2. cache' \in [Registers -> CacheEntries]
        BY <1>1, <1>4, <3>1
      <3>3. /\ catalog'.presence = catalog.presence
            /\ catalog'.entries = [catalog.entries EXCEPT ![c.reg] = Exported(e)]
            /\ catalog' \in Catalogs
        BY <1>1, <1>3, <1>4, <3>1 DEF Catalogs
      <3>4. TypeOK'
        BY <1>1, <1>2, <1>6, <3>2, <3>3 DEF ServiceInv, TypeOK
      <3>5. \A r \in Registers : catalog'.entries[r] = Exported(cache'[r])
        <4> SUFFICES ASSUME NEW r \in Registers
                     PROVE  catalog'.entries[r] = Exported(cache'[r])
          OBVIOUS
        <4>1. CASE r = c.reg
          BY <1>1, <3>1, <3>3, <4>1 DEF Catalogs
        <4>2. CASE r # c.reg
          <5>1. cache'[r] = cache[r] /\ catalog'.entries[r] = catalog.entries[r]
            BY <1>1, <3>1, <3>3, <4>2 DEF Catalogs
          <5> QED BY <5>1 DEF ServiceInv, CatalogMirrors
        <4> QED BY <4>1, <4>2
      <3>6. CatalogMirrors'
        BY <1>2, <3>3, <3>5 DEF ServiceInv, CatalogMirrors
      <3>7. CacheFromDevice => CacheFromDevice'
        BY <1>1, <1>2, <1>4, <2>1, <3>1 DEF CacheFromDevice
      <3> QED BY <3>4, <3>6, <3>7
    <2>2. CASE c.addr # addr
      <3>1. UNCHANGED <<cache, catalog>>
        BY <2>2 DEF cache_response, SameAddress
      <3> QED BY <1>1, <1>2, <1>6, <3>1 DEF ServiceInv, TypeOK, CatalogMirrors, CacheFromDevice
    <2> QED BY <2>1, <2>2
  <1>8. Roles' /\ PermissionNoted' /\ WritesPermitted'
    BY <1>2, <1>5, <1>6, ServiceAssumption
    DEF ServiceInv, Roles, PermissionNoted, WritesPermitted, Tasks, Allows
  <1>9. (PreviousCurrent => PreviousCurrent') /\ (PresenceFromDevice => PresenceFromDevice')
    BY <1>2, <1>6, ServiceAssumption DEF PreviousCurrent, PresenceFromDevice, Tasks
  <1> QED
    BY <1>7, <1>8, <1>9 DEF ServiceInv, OriginInv

-----------------------------------------------------------------------------
\* Copying the previous record changes no more than the task's own call; the
\* copy is the current record (set_config before its guard).
LEMMA PreviousStep ==
    ASSUME ServiceInv, NEW t \in Configurators, ReadPrevious(t)
    PROVE  ServiceInv' /\ (OriginInv => OriginInv')
  <1>1. /\ task \in [Tasks -> Calls] /\ t \in Tasks /\ addr \in Addresses
        /\ \A u \in Clients : u # t
    BY ServiceAssumption DEF ServiceInv, TypeOK, Tasks
  <1>2. PICK g \in Configs :
           /\ task' = [task EXCEPT ![t] = [pc |-> "commit", config |-> g, previous |-> addr]]
           /\ UNCHANGED <<addr, policy, presence, cache, catalog, wire, heardFrom, permittedOnce>>
    BY DEF ReadPrevious
  <1> DEFINE c == [pc |-> "commit", config |-> g, previous |-> addr]
  <1>3. c \in Calls /\ c.pc = "commit" /\ c.previous = addr
    BY <1>1 DEF Calls
  <1>4. /\ task' \in [Tasks -> Calls] /\ task'[t] = c
        /\ \A u \in Tasks : u # t => task'[u] = task[u]
    BY <1>1, <1>2, <1>3
  <1> HIDE DEF c
  <1>5. TypeOK'
    BY <1>2, <1>4 DEF ServiceInv, TypeOK
  <1>6. Roles'
    BY <1>1, <1>3, <1>4 DEF ServiceInv, Roles, Tasks
  <1>7. CatalogMirrors'
    BY <1>2 DEF ServiceInv, CatalogMirrors
  <1>8. PermissionNoted' /\ WritesPermitted'
    BY <1>1, <1>2, <1>4 DEF ServiceInv, PermissionNoted, WritesPermitted, Tasks, Allows
  <1>9. OriginInv => OriginInv'
    BY <1>2, <1>3, <1>4
    DEF OriginInv, PreviousCurrent, CacheFromDevice, PresenceFromDevice, Tasks
  <1> QED
    BY <1>5, <1>6, <1>7, <1>8, <1>9 DEF ServiceInv

\* The guarded half of set_config keeps the invariants; that it keeps the
\* cache free of foreign values needs the single writer.
LEMMA ConfigStep ==
    ASSUME ServiceInv, NEW t \in Configurators, set_config(t)
    PROVE  ServiceInv' /\ (SingleWriter /\ OriginInv => OriginInv')
  <1> DEFINE c == task[t]
             p == task[t].config.policy
  <1>1. /\ task \in [Tasks -> Calls] /\ t \in Tasks /\ task[t] \in Calls
        /\ cache \in [Registers -> CacheEntries] /\ presence \in Presences
        /\ permittedOnce \subseteq Clients
        /\ \A u \in Clients : u # t
    BY ServiceAssumption DEF ServiceInv, TypeOK, Tasks
  <1>2. /\ c.pc = "commit"
        /\ addr' = c.config.addr
        /\ presence' = IF Moved(c) THEN "unknown" ELSE presence
        /\ cache' = IF Moved(c) THEN [r \in Registers |-> Invalid] ELSE cache
        /\ catalog' = CatalogAfter(presence', cache')
        /\ policy' = p
        /\ permittedOnce' = permittedOnce \cup NowPermitted(p)
        /\ task' = [task EXCEPT ![t] = Idle]
        /\ UNCHANGED <<wire, heardFrom>>
    BY DEF set_config
  <1>3. /\ c.config \in Configs /\ c.previous \in Addresses
    BY <1>1, <1>2, CallShape
  <1>4. /\ c.config \in [addr : Addresses, policy : Policies]
        /\ Cardinality(p.whitelist) <= RulesMax /\ Cardinality(p.blacklist) <= RulesMax
    BY <1>3, ServiceAssumption
  <1>5. Idle \in Calls /\ Idle.pc = "idle"
    BY DEF Calls, Idle
  <1>6. /\ task' \in [Tasks -> Calls] /\ task'[t] = Idle
        /\ \A u \in Tasks : u # t => task'[u] = task[u]
    BY <1>1, <1>2, <1>5
  <1>7. Invalid \in CacheEntries /\ Invalid.from = None
    BY DEF CacheEntries, Invalid
  <1>8. cache' \in [Registers -> CacheEntries] /\ presence' \in Presences
    BY <1>1, <1>2, <1>7 DEF Presences
  <1>9. /\ catalog'.presence = presence'
        /\ \A r \in Registers : catalog'.entries[r] = Exported(cache'[r])
        /\ catalog' \in Catalogs
    BY <1>2, <1>8 DEF CatalogAfter, Catalogs
  <1>10. TypeOK'
    BY <1>1, <1>2, <1>4, <1>6, <1>8, <1>9 DEF ServiceInv, TypeOK, NowPermitted, Awaiting
  <1>11. Roles'
    BY <1>1, <1>5, <1>6 DEF ServiceInv, Roles, Tasks
  <1>12. CatalogMirrors'
    BY <1>9 DEF CatalogMirrors
  <1>13. PermissionNoted' /\ WritesPermitted'
    BY <1>1, <1>2, <1>6
    DEF ServiceInv, PermissionNoted, WritesPermitted, NowPermitted, Awaiting, Tasks
  <1>14. ASSUME SingleWriter, OriginInv PROVE OriginInv'
    <2>1. c.previous = addr
      BY <1>2, <1>14 DEF OriginInv, PreviousCurrent
    <2>2. PreviousCurrent'
      BY <1>5, <1>6, <1>14 DEF SingleWriter, PreviousCurrent
    <2>3. CASE Moved(c)
      BY <1>2, <1>7, <2>2, <2>3 DEF OriginInv, CacheFromDevice, PresenceFromDevice
    <2>4. CASE ~Moved(c)
      <3>1. addr' = addr
        BY <1>2, <2>1, <2>4 DEF Moved
      <3> QED
        BY <1>2, <1>14, <2>2, <2>4, <3>1 DEF OriginInv, CacheFromDevice, PresenceFromDevice
    <2> QED BY <2>3, <2>4
  <1> QED
    BY <1>10, <1>11, <1>12, <1>13, <1>14 DEF ServiceInv

\* Every step keeps the invariants.
LEMMA NextHolds ==
    ServiceInv /\ [Next]_vars => ServiceInv' /\ (SingleWriter /\ OriginInv => OriginInv')
  <1> SUFFICES ASSUME ServiceInv, [Next]_vars
               PROVE  ServiceInv' /\ (SingleWriter /\ OriginInv => OriginInv')
    OBVIOUS
  <1>1. CASE \E t \in Clients : ClientStep(t)
    BY <1>1, TransferSteps, RecordStep, CacheStep DEF ClientStep
  <1>2. CASE \E t \in Configurators : ReadPrevious(t) \/ set_config(t)
    BY <1>2, PreviousStep, ConfigStep
  <1>3. CASE EditPolicy
    BY <1>3, EditStep
  <1>4. CASE UNCHANGED vars
    <2>1. ServiceInv'
      BY <1>4 DEF vars, ServiceInv, TypeOK, Roles, CatalogMirrors, PermissionNoted,
                  WritesPermitted, Allows
    <2>2. OriginInv => OriginInv'
      BY <1>4 DEF vars, OriginInv, PreviousCurrent, CacheFromDevice, PresenceFromDevice
    <2> QED BY <2>1, <2>2
  <1> QED BY <1>1, <1>2, <1>3, <1>4 DEF Next

\* The types, the role of each task, the agreement of cache and registry and
\* the permission of every write hold whoever calls and configures.
THEOREM ServiceInvariance == Spec => []ServiceInv
  <1>1. Init => ServiceInv
    BY InitHolds
  <1>2. ServiceInv /\ [Next]_vars => ServiceInv'
    BY NextHolds
  <1> QED BY <1>1, <1>2, PTL DEF Spec

\* No policy edit or configuration overruns a rule array, and every call
\* stays well formed (bvstk_i2c_policy.c, bvstk_i2c_master_service.c).
THEOREM ServiceTypeCorrect == Spec => []TypeOK
  <1>1. ServiceInv => TypeOK
    BY DEF ServiceInv
  <1> QED BY <1>1, ServiceInvariance, PTL

\* The registry shows what the service caches, after every guarded section
\* (the sink calls and configure_i2c).
THEOREM RegistryShowsCache == Spec => []CatalogMirrors
  <1>1. ServiceInv => CatalogMirrors
    BY DEF ServiceInv
  <1> QED BY <1>1, ServiceInvariance, PTL

\* No write reaches the bus that the policy forbade from the call on
\* (bvstk_i2c_master_service_write).
THEOREM EveryWritePermitted == Spec => []WritesPermitted
  <1>1. ServiceInv => WritesPermitted
    BY DEF ServiceInv
  <1> QED BY <1>1, ServiceInvariance, PTL

\* With a single configuring task no value and no presence of an old address
\* is attributed to the device at its new one (cache_response, set_config).
THEOREM RepliesStayHome ==
    SingleWriter => (Spec => [](CacheFromDevice /\ PresenceFromDevice))
  <1> SUFFICES ASSUME SingleWriter
               PROVE  Spec => [](CacheFromDevice /\ PresenceFromDevice)
    OBVIOUS
  <1>1. Init => ServiceInv /\ OriginInv
    BY InitHolds
  <1>2. (ServiceInv /\ OriginInv) /\ [Next]_vars => (ServiceInv /\ OriginInv)'
    BY NextHolds
  <1>3. ServiceInv /\ OriginInv => CacheFromDevice /\ PresenceFromDevice
    BY DEF OriginInv
  <1> QED BY <1>1, <1>2, <1>3, PTL DEF Spec

-----------------------------------------------------------------------------
(* The cache and the chip.  With one client the bus has one user, so a      *)
(* reply still on its way is what the chip holds (RepliesTrue), and only the *)
(* register it is for may differ from the chip until it is filed            *)
(* (Reflected).  A reply for an address the device has left excuses nothing: *)
(* it will be dropped, and the move has emptied the cache.                  *)

\* One task at a time reads and writes registers.
SingleClient == \A s, t \in Clients : s = t

Filing(t) == task[t].pc \in {"record", "cache"}
RepliesTrue ==
    \A t \in Clients :
        Filing(t) /\ task[t].status = "ok" => task[t].value = wire[task[t].addr][task[t].reg]
Reflected ==
    \A r \in Registers :
        \/ cache[r].from = None
        \/ cache[r].value = wire[addr][r]
        \/ \E t \in Clients : Filing(t) /\ task[t].reg = r /\ task[t].addr = addr
CoherentInv == RepliesTrue /\ Reflected

\* Steps that file nothing and transfer nothing.
LEMMA AsideStep ==
    ASSUME CoherentInv, addr' = addr, cache' = cache, wire' = wire,
           \A t \in Clients :
               \/ task'[t] = task[t]
               \/ /\ task[t].pc \notin {"record", "cache"}
                  /\ task'[t].pc \notin {"record", "cache"}
    PROVE  CoherentInv'
  BY DEF CoherentInv, RepliesTrue, Reflected, Filing

\* A read brings what the chip holds; the register of a write is owed a reply.
LEMMA BackendStep ==
    ASSUME ServiceInv, CoherentInv, SingleClient, NEW t \in Clients,
           backend_read(t) \/ backend_write(t)
    PROVE  CoherentInv'
  <1>1. /\ task \in [Tasks -> Calls] /\ t \in Tasks /\ task[t] \in Calls
        /\ wire \in [Addresses -> [Registers -> Values]] /\ addr \in Addresses
        /\ \A u \in Clients : u = t
    BY DEF ServiceInv, TypeOK, Tasks, SingleClient
  <1>2. /\ task[t].pc = "transfer" /\ UNCHANGED <<addr, cache>>
    BY DEF backend_read, backend_write
  <1>3. task[t].addr \in Addresses /\ task[t].reg \in Registers /\ task[t].value \in Values
    BY <1>1, <1>2, CallShape
  <1>4. \A r \in Registers : cache[r].from = None \/ cache[r].value = wire[addr][r]
    BY <1>1, <1>2 DEF CoherentInv, Reflected, Filing
  <1>5. CASE backend_read(t)
    <2>1. PICK status \in Statuses :
             /\ task' = [task EXCEPT ![t] =
                   Ended(task[t], IF status = "ok" THEN wire[task[t].addr][task[t].reg] ELSE 0,
                         status)]
             /\ wire' = wire
      BY <1>5 DEF backend_read
    <2>2. /\ task'[t].status = status /\ task'[t].addr = task[t].addr
          /\ task'[t].reg = task[t].reg
          /\ status = "ok" => task'[t].value = wire[task[t].addr][task[t].reg]
      BY <1>1, <2>1 DEF Ended
    <2>3. RepliesTrue'
      BY <1>1, <2>1, <2>2 DEF RepliesTrue
    <2>4. Reflected'
      BY <1>2, <1>4, <2>1 DEF Reflected
    <2> QED BY <2>3, <2>4 DEF CoherentInv
  <1>6. CASE backend_write(t)
    <2>1. PICK status \in Statuses, stored \in BOOLEAN :
             /\ status = "ok" => stored
             /\ wire' = IF stored
                        THEN [wire EXCEPT ![task[t].addr][task[t].reg] = task[t].value]
                        ELSE wire
             /\ task' = [task EXCEPT ![t] = Ended(task[t], task[t].value, status)]
      BY <1>6 DEF backend_write
    <2>2. /\ task'[t].status = status /\ task'[t].addr = task[t].addr
          /\ task'[t].reg = task[t].reg /\ task'[t].value = task[t].value
          /\ task'[t].pc = "record"
      BY <1>1, <2>1 DEF Ended
    <2>3. /\ stored => wire'[task[t].addr][task[t].reg] = task[t].value
          /\ \A a \in Addresses, r \in Registers :
                a # task[t].addr \/ r # task[t].reg => wire'[a][r] = wire[a][r]
      BY <1>1, <1>3, <2>1
    <2>4. RepliesTrue'
      BY <1>1, <2>1, <2>2, <2>3 DEF RepliesTrue
    <2>5. ASSUME NEW r \in Registers
          PROVE  \/ cache[r].from = None
                 \/ cache[r].value = wire'[addr][r]
                 \/ Filing(t)' /\ task'[t].reg = r /\ task'[t].addr = addr
      <3>1. CASE r = task[t].reg /\ addr = task[t].addr
        BY <3>1, <2>2 DEF Filing
      <3>2. CASE r # task[t].reg \/ addr # task[t].addr
        BY <3>2, <2>3, <1>1, <1>4
      <3> QED BY <3>1, <3>2
    <2>6. Reflected'
      BY <2>5, <1>2 DEF Reflected
    <2> QED BY <2>4, <2>6 DEF CoherentInv
  <1> QED BY <1>5, <1>6

\* Recording the presence leaves the reply as it is.
LEMMA RecordCoherent ==
    ASSUME ServiceInv, CoherentInv, NEW t \in Clients, record_response(t)
    PROVE  CoherentInv'
  <1>1. /\ task \in [Tasks -> Calls] /\ t \in Tasks /\ task[t] \in Calls
        /\ task[t].pc = "record"
        /\ task' = [task EXCEPT ![t] = [task[t] EXCEPT !.pc = "cache"]]
        /\ UNCHANGED <<addr, cache, wire>>
    BY DEF ServiceInv, TypeOK, Tasks, record_response
  <1>2. task[t] \in [pc : {"record", "cache"}, op : {"read", "write"}, addr : Addresses,
                     reg : Registers, value : Values, status : Statuses]
    BY <1>1, CallShape
  <1>3. /\ task'[t].pc = "cache" /\ task'[t].status = task[t].status
        /\ task'[t].reg = task[t].reg /\ task'[t].addr = task[t].addr
        /\ task'[t].value = task[t].value
    BY <1>1, <1>2
  <1>4. \A u \in Clients : /\ Filing(u)' <=> Filing(u)
                           /\ Filing(u) => /\ task'[u].status = task[u].status
                                           /\ task'[u].reg = task[u].reg
                                           /\ task'[u].addr = task[u].addr
                                           /\ task'[u].value = task[u].value
    BY <1>1, <1>3 DEF Filing, Tasks
  <1> QED BY <1>1, <1>4 DEF CoherentInv, RepliesTrue, Reflected

\* A filed reply is what the chip holds, or leaves no value.
LEMMA FileCoherent ==
    ASSUME ServiceInv, CoherentInv, SingleClient, NEW t \in Clients, cache_response(t)
    PROVE  CoherentInv'
  <1> DEFINE c == task[t]
  <1>1. /\ task \in [Tasks -> Calls] /\ t \in Tasks /\ task[t] \in Calls
        /\ cache \in [Registers -> CacheEntries]
        /\ c.pc = "cache" /\ task' = [task EXCEPT ![t] = Idle]
        /\ UNCHANGED <<addr, wire>>
        /\ \A u \in Clients : u = t
    BY DEF ServiceInv, TypeOK, Tasks, cache_response, SingleClient
  <1>2. c.reg \in Registers
    BY <1>1, CallShape
  <1>3. RepliesTrue'
    BY <1>1 DEF RepliesTrue, Filing, Idle
  <1>4. ASSUME NEW r \in Registers
        PROVE  cache'[r].from = None \/ cache'[r].value = wire[addr][r]
    <2>1. CASE c.addr = addr /\ r = c.reg
      <3>1. cache'[r] = Reply(c)
        BY <1>1, <2>1 DEF cache_response, SameAddress
      <3>2. CASE c.status = "ok"
        <4>1. c.value = wire[addr][r]
          BY <1>1, <2>1, <3>2 DEF CoherentInv, RepliesTrue, Filing
        <4> QED BY <3>1, <3>2, <4>1 DEF Reply, Cached
      <3>3. CASE c.status # "ok"
        BY <3>1, <3>3 DEF Reply, Invalid
      <3> QED BY <3>2, <3>3
    <2>2. CASE c.addr # addr \/ r # c.reg
      <3>1. cache'[r] = cache[r]
        BY <1>1, <2>2 DEF cache_response, SameAddress
      <3> QED BY <1>1, <2>2, <3>1 DEF CoherentInv, Reflected
    <2> QED BY <2>1, <2>2
  <1>5. Reflected'
    BY <1>1, <1>4 DEF Reflected
  <1> QED BY <1>3, <1>5 DEF CoherentInv

\* A configuration that moves the device empties the cache.
LEMMA ConfigCoherent ==
    ASSUME ServiceInv, OriginInv, CoherentInv, NEW t \in Configurators, set_config(t)
    PROVE  CoherentInv'
  <1>1. /\ task \in [Tasks -> Calls] /\ t \in Tasks
        /\ task[t].pc = "commit" /\ task[t].previous = addr
        /\ addr' = task[t].config.addr /\ wire' = wire
        /\ cache' = IF Moved(task[t]) THEN [r \in Registers |-> Invalid] ELSE cache
        /\ task' = [task EXCEPT ![t] = Idle]
    BY DEF ServiceInv, TypeOK, Tasks, OriginInv, PreviousCurrent, set_config
  <1>2. \A u \in Clients : task'[u] = task[u]
    BY <1>1, ServiceAssumption DEF Tasks
  <1>3. CASE Moved(task[t])
    BY <1>1, <1>2, <1>3 DEF CoherentInv, RepliesTrue, Reflected, Filing, Invalid
  <1>4. CASE ~Moved(task[t])
    <2>1. UNCHANGED <<addr, cache, wire>>
      BY <1>1, <1>4 DEF Moved
    <2> QED BY <1>2, <2>1, AsideStep
  <1> QED BY <1>3, <1>4

\* Every step keeps cache and chip together.
LEMMA CoherentStep ==
    ASSUME ServiceInv, OriginInv, SingleClient, CoherentInv, [Next]_vars
    PROVE  CoherentInv'
  <1>0. addr \in Addresses /\ 0 \in Values
    BY ServiceAssumption DEF ServiceInv, TypeOK, Values
  <1>1. task \in [Tasks -> Calls]
    BY DEF ServiceInv, TypeOK
  <1>2. ASSUME NEW t \in Clients, ClientStep(t) PROVE CoherentInv'
    <2>1. ASSUME NEW c \in Calls, c.pc \in {"idle", "check", "transfer"}, task' = [task EXCEPT ![t] = c],
                 task[t].pc \in {"idle", "check"}, addr' = addr, cache' = cache, wire' = wire
          PROVE  CoherentInv'
      <3>1. task'[t] = c /\ \A u \in Clients : u # t => task'[u] = task[u]
        BY <1>1, <2>1 DEF Tasks
      <3> QED BY <2>1, <3>1, AsideStep
    <2>2. CASE read_from(t)
      <3>1. PICK r \in Registers :
               task' = [task EXCEPT ![t] = [pc |-> "transfer", op |-> "read", addr |-> addr,
                                            reg |-> r, value |-> 0]]
        BY <2>2 DEF read_from
      <3> DEFINE c == [pc |-> "transfer", op |-> "read", addr |-> addr, reg |-> r, value |-> 0]
      <3>2. task[t].pc = "idle" /\ UNCHANGED <<addr, cache, wire>>
        BY <2>2 DEF read_from, Idle
      <3>3. c \in Calls /\ c.pc = "transfer" /\ task' = [task EXCEPT ![t] = c]
        BY <1>0, <3>1 DEF Calls
      <3> HIDE DEF c
      <3> QED BY <2>1, <3>2, <3>3
    <2>3. CASE write(t)
      <3>1. PICK r \in Registers, v \in Values :
               task' = [task EXCEPT ![t] = [pc |-> "check", op |-> "write", addr |-> addr,
                                            reg |-> r, value |-> v]]
        BY <2>3 DEF write
      <3> DEFINE c == [pc |-> "check", op |-> "write", addr |-> addr, reg |-> r, value |-> v]
      <3>2. task[t].pc = "idle" /\ UNCHANGED <<addr, cache, wire>>
        BY <2>3 DEF write, Idle
      <3>3. c \in Calls /\ c.pc = "check" /\ task' = [task EXCEPT ![t] = c]
        BY <1>0, <3>1 DEF Calls
      <3> HIDE DEF c
      <3> QED BY <2>1, <3>2, <3>3
    <2>4. CASE CheckPolicy(t)
      <3> DEFINE c == IF bvstk_i2c_policy_permits(task[t].reg, task[t].value)
                      THEN [task[t] EXCEPT !.pc = "transfer"] ELSE Idle
      <3>1. /\ task[t].pc = "check" /\ UNCHANGED <<addr, cache, wire>>
            /\ task' = [task EXCEPT ![t] = c]
        BY <2>4 DEF CheckPolicy
      <3>2. task[t] \in [pc : {"check", "transfer"}, op : {"read", "write"},
                         addr : Addresses, reg : Registers, value : Values]
        BY <1>1, <3>1, CallShape DEF Tasks
      <3>3. c \in Calls /\ c.pc \in {"idle", "transfer"}
        BY <3>2 DEF Idle, Calls
      <3> HIDE DEF c
      <3> QED BY <2>1, <3>1, <3>3
    <2> QED
      BY <1>2, <2>2, <2>3, <2>4, BackendStep, RecordCoherent, FileCoherent DEF ClientStep
  <1>3. ASSUME NEW t \in Configurators, ReadPrevious(t) PROVE CoherentInv'
    <2>1. UNCHANGED <<addr, cache, wire>> /\ \A u \in Clients : task'[u] = task[u]
      BY <1>1, <1>3, ServiceAssumption DEF ReadPrevious, Tasks
    <2> QED BY <2>1, AsideStep
  <1>4. ASSUME NEW t \in Configurators, set_config(t) PROVE CoherentInv'
    BY <1>4, ConfigCoherent
  <1>5. CASE EditPolicy
    <2>1. UNCHANGED <<addr, cache, wire, task>>
      BY <1>5 DEF EditPolicy, set_policy, rule_allow, rule_deny, rule_clear, rule_remove,
                  rule_clear_list, SetPolicy
    <2> QED BY <2>1, AsideStep
  <1>6. CASE UNCHANGED vars
    BY <1>6, AsideStep DEF vars
  <1> QED BY <1>2, <1>3, <1>4, <1>5, <1>6 DEF Next

\* With one client and one configuring task the cache holds what the chip
\* holds, through failed transfers and moves of the device; with two clients
\* it does not (bvstk_i2c_master_service_write, cache_response).
THEOREM CacheIsCoherent ==
    ASSUME SingleClient, SingleWriter
    PROVE  Spec => []CacheCoherent
  <1> DEFINE All == ServiceInv /\ OriginInv /\ CoherentInv
  <1>1. Init => All
    <2> SUFFICES ASSUME Init PROVE All
      OBVIOUS
    <2>1. \A t \in Clients : task[t].pc = "idle"
      BY DEF Init, Idle, Tasks
    <2>2. \A r \in Registers : cache[r].from = None
      BY DEF Init, Invalid, Seeded
    <2> QED
      BY <2>1, <2>2, InitHolds DEF CoherentInv, RepliesTrue, Reflected, Filing
  <1>2. All /\ [Next]_vars => All'
    BY NextHolds, CoherentStep
  <1>3. All => CacheCoherent
    BY DEF CoherentInv, Reflected, Filing, CacheCoherent, Pending
  <1> QED BY <1>1, <1>2, <1>3, PTL DEF Spec
=============================================================================
