--------------------------- MODULE DeviceProfile ---------------------------
(***************************************************************************)
(* The device profiles of the two buses as files and in memory: the        *)
(* version 2 adapter (shared/config/bvstk_device_profile.c) and the        *)
(* unversioned formats it supersedes (bvstk_i2c_config_codec.c and         *)
(* bvstk_mdio_config_codec.c).                                             *)
(*                                                                         *)
(* A document is a JSON object as the sequence of its <<key, value>>       *)
(* pairs, so that a key given twice can be told from one given once; what  *)
(* is not a JSON object at all is Torn.  Characters, escapes and number    *)
(* syntax are left out; ranges, references and the choice of the format    *)
(* are not.                                                                *)
(***************************************************************************)
EXTENDS Integers, Sequences, SequencesExt

CONSTANTS
    IdNames,        \* device names with the syntax of a profile id
    CountMax,       \* largest reg_count of a bus (256 and 32)
    AddrMax,        \* largest address of a bus (127 and 31)
    Full,           \* all bits of a register of the bus (255 and 65535)
    CodeMax,        \* largest max_value_code (64)
    RulesMax,       \* rules of a list
    DocMax          \* entries that fit in BVSTK_PROFILE_JSON_MAX bytes

Torn == << <<"torn", 0>> >>
Distinct(s) == \A i, j \in DOMAIN s : s[i] = s[j] => i = j
Has(o, k) == \E i \in DOMAIN o : o[i][1] = k
\* The value of the first pair with the key.
Get(o, k) ==
    o[CHOOSE i \in DOMAIN o : o[i][1] = k /\ \A j \in 1 .. i - 1 : o[j][1] # k][2]
GetOr(o, k, default) == IF Has(o, k) THEN Get(o, k) ELSE default
find_key(o, k) == GetOr(o, k, <<>>)
document(d) == ~Has(d, "torn")
\* Every key is known and none is given twice.
fields(o, keys) ==
    /\ \A i \in DOMAIN o : o[i][1] \in keys
    /\ Distinct([i \in DOMAIN o |-> o[i][1]])

id_valid(name) == name \in IdNames
Malformed == [ok |-> FALSE]
Parsed(c) == [ok |-> TRUE, config |-> c]

\* bvstk_device_profile_metadata_validate: one name for each register.
metadata_validate(c) ==
    \/ c.version = 0
    \/ c.version = 2 /\ Len(c.ids) = c.count /\ Distinct(c.ids)

rules_in_range(c, rules) == \A i \in DOMAIN rules : rules[i].reg < c.count

bvstk_i2c_config_validate(c) ==
    /\ c.addr <= AddrMax["i2c"] /\ c.count \in 1 .. CountMax["i2c"]
    /\ c.max <= CodeMax
    /\ \A list \in {c.white, c.black} :
          /\ Len(list) <= RulesMax
          /\ rules_in_range(c, list)
          /\ \A i \in DOMAIN list : list[i].val <= c.max
    /\ Len(c.settings) <= RulesMax /\ rules_in_range(c, c.settings)
    /\ metadata_validate(c)

bvstk_mdio_config_validate(c) ==
    /\ c.addr <= AddrMax["mdio"] /\ c.count \in 1 .. CountMax["mdio"]
    /\ \A list \in {c.white, c.black, c.settings} :
          Len(list) <= RulesMax /\ rules_in_range(c, list)
    /\ Distinct(c.poll) /\ \A i \in DOMAIN c.poll : c.poll[i] < c.count
    /\ Distinct([i \in DOMAIN c.settings |-> c.settings[i].reg])
    /\ metadata_validate(c)

validate(c) ==
    IF c.bus = "i2c" THEN bvstk_i2c_config_validate(c)
                     ELSE bvstk_mdio_config_validate(c)
----------------------------------------------------------------------------
(* Writing a profile. *)

\* resource_id: the name a rule gives a register, invented for old profiles.
resource_id(c, reg) == IF c.version = 2 THEN c.ids[reg + 1] ELSE <<"reg", reg>>
\* The I2C seeds keep the last value of a register only.
effective_seeds(c) ==
    LET last == {i \in DOMAIN c.settings :
                    c.bus = "i2c" => \A j \in i + 1 .. Len(c.settings) :
                                        c.settings[j].reg # c.settings[i].reg}
        order == SetToSortSeq(last, LAMBDA a, b : a < b)
    IN [n \in DOMAIN order |-> c.settings[order[n]]]
references(c, rules) ==
    [i \in DOMAIN rules |->
        [resource |-> resource_id(c, rules[i].reg), value |-> rules[i].val,
         mask |-> IF c.bus = "i2c" THEN Full["i2c"] ELSE rules[i].mask]]

doc_size(c) == c.count + Len(c.white) + Len(c.black) + Len(c.settings)

format(c) ==
    LET active == IF c.policy = "blacklist" THEN c.black ELSE c.white
        inactive == IF c.policy = "blacklist" THEN c.white ELSE c.black
        seeds == effective_seeds(c)
    IN <<<<"schema_version", 2>>, <<"id", c.name>>,
         <<"transport", <<<<"bus", c.bus>>, <<"address", c.addr>>>>>>,
         <<"protocol", IF c.bus = "i2c"
                       THEN <<<<"max_write_value", c.max>>>>
                       ELSE <<<<"autopoll_order",
                                [i \in DOMAIN c.poll |-> resource_id(c, c.poll[i])]>>>>>>,
         <<"resources", [i \in 1 .. c.count |-> <<resource_id(c, i - 1), i - 1>>]>>,
         <<"policy", <<<<"mode", c.policy>>, <<"rules", references(c, active)>>,
                       <<"inactive_rules", references(c, inactive)>>>>>>,
         <<"settings", [i \in DOMAIN seeds |->
             [resource |-> resource_id(c, seeds[i].reg), value |-> seeds[i].val]]>>>>

\* bvstk_i2c_config_serialize_json and bvstk_mdio_config_format.
bvstk_i2c_config_serialize_json(c) ==
    <<<<"name", c.name>>, <<"addr_7b", c.addr>>, <<"reg_count", c.count>>,
      <<"max_value_code", c.max>>, <<"policy", c.policy>>, <<"whitelist", c.white>>,
      <<"blacklist", c.black>>, <<"settings", c.settings>>>>
bvstk_mdio_config_format(c) ==
    <<<<"name", c.name>>, <<"phy_addr", c.addr>>, <<"reg_count", c.count>>,
      <<"policy", c.policy>>, <<"autopoll_regs", c.poll>>, <<"whitelist", c.white>>,
      <<"blacklist", c.black>>, <<"settings", c.settings>>>>

\* What a save writes: version 2 where the name allows it, else the old form,
\* which only a profile that came from one may still use.
saved_document(c) ==
    IF \/ ~validate(c) \/ doc_size(c) > DocMax
       \/ ~id_valid(c.name) /\ c.version # 0 THEN Malformed
    ELSE [ok |-> TRUE, doc |-> IF id_valid(c.name) THEN format(c)
                               ELSE IF c.bus = "i2c" THEN bvstk_i2c_config_serialize_json(c)
                               ELSE bvstk_mdio_config_format(c)]
----------------------------------------------------------------------------
(* Reading a profile. *)

RootKeys == {"schema_version", "id", "transport", "protocol", "resources",
             "policy", "settings"}
lookup(ids, id) == {r \in 0 .. Len(ids) - 1 : ids[r + 1] = id}
resolve(ids, rules) ==
    [i \in DOMAIN rules |->
        [reg |-> CHOOSE r \in lookup(ids, rules[i].resource) : TRUE,
         val |-> rules[i].value, mask |-> rules[i].mask]]

\* The register table: addresses 0 .. n-1, each once, each with its own name.
register_ids(resources) ==
    [a \in 1 .. Len(resources) |->
        (CHOOSE r \in Range(resources) : r[2] = a - 1)[1]]
resources_valid(resources, bus) ==
    /\ Len(resources) \in 1 .. CountMax[bus]
    /\ Distinct([i \in DOMAIN resources |-> resources[i][1]])
    /\ {resources[i][2] : i \in DOMAIN resources} = 0 .. Len(resources) - 1

\* The write policy and the seeds name registers of the table.
references_valid(doc, ids, bus, max) ==
    LET policy == Get(doc, "policy") IN
    /\ fields(policy, {"mode", "rules", "inactive_rules"})
    /\ Get(policy, "mode") \in {"whitelist", "blacklist"}
    /\ \A key \in {"rules", "inactive_rules"} :
          LET rules == find_key(policy, key) IN
          /\ Len(rules) <= RulesMax
          /\ \A i \in DOMAIN rules :
                /\ lookup(ids, rules[i].resource) # {}
                /\ bus = "i2c" => rules[i].mask = Full["i2c"] /\ rules[i].value <= max
    /\ LET seeds == find_key(doc, "settings") IN
          /\ Len(seeds) <= RulesMax
          /\ Distinct([i \in DOMAIN seeds |-> seeds[i].resource])
          /\ \A i \in DOMAIN seeds : lookup(ids, seeds[i].resource) # {}

parse(doc, bus) ==
    LET transport == Get(doc, "transport")
        resources == Get(doc, "resources")
        ids == register_ids(resources)
        options == Get(doc, "protocol")
        max == GetOr(options, "max_write_value", Full[bus])
        poll == find_key(options, "autopoll_order")
        policy == Get(doc, "policy")
        mode == Get(policy, "mode")
        active == resolve(ids, find_key(policy, "rules"))
        inactive == resolve(ids, find_key(policy, "inactive_rules"))
        seeds == find_key(doc, "settings")
        config ==
          [bus |-> bus, name |-> Get(doc, "id"), addr |-> Get(transport, "address"),
           count |-> Len(resources), max |-> max, policy |-> mode,
           white |-> IF mode = "whitelist" THEN active ELSE inactive,
           black |-> IF mode = "whitelist" THEN inactive ELSE active,
           settings |-> [i \in DOMAIN seeds |->
               [reg |-> CHOOSE r \in lookup(ids, seeds[i].resource) : TRUE,
                val |-> seeds[i].value]],
           poll |-> [i \in DOMAIN poll |-> CHOOSE r \in lookup(ids, poll[i]) : TRUE],
           version |-> 2, ids |-> ids]
    IN IF /\ fields(doc, RootKeys) /\ RootKeys \ {"settings"} \subseteq
                {doc[i][1] : i \in DOMAIN doc}
          /\ id_valid(Get(doc, "id"))
          /\ Get(transport, "bus") = bus /\ Get(transport, "address") <= AddrMax[bus]
          /\ fields(options, IF bus = "i2c" THEN {"max_write_value"} ELSE {"autopoll_order"})
          /\ bus = "i2c" => Has(options, "max_write_value") /\ max <= CodeMax
          /\ resources_valid(resources, bus)
          /\ Distinct(poll) /\ \A i \in DOMAIN poll : lookup(ids, poll[i]) # {}
          /\ references_valid(doc, ids, bus, max)
          /\ validate(config)
       THEN Parsed(config) ELSE Malformed

\* bvstk_device_profile_version: 2, 0 for an old document, -1 for neither.
bvstk_device_profile_version(doc) ==
    LET versions == {i \in DOMAIN doc : doc[i][1] = "schema_version"} IN
    CASE ~document(doc) \/ (\E i, j \in versions : i # j) -> -1
      [] document(doc) /\ versions = {} -> IF \E k \in {"resources", "transport", "protocol", "id"} :
                               Has(doc, k) THEN -1 ELSE 0
      [] OTHER -> IF \A i \in versions : doc[i][2] = 2 THEN 2 ELSE -1

\* The old I2C form: keys are searched for, unknown ones are ignored.
legacy_i2c(doc) ==
    [bus |-> "i2c", name |-> Get(doc, "name"), addr |-> Get(doc, "addr_7b"),
     count |-> Get(doc, "reg_count"), max |-> Get(doc, "max_value_code"),
     policy |-> Get(doc, "policy"), white |-> find_key(doc, "whitelist"),
     black |-> find_key(doc, "blacklist"), settings |-> find_key(doc, "settings"),
     poll |-> <<>>, version |-> 0, ids |-> <<>>]
bvstk_i2c_config_parse_json(doc) ==
    CASE bvstk_device_profile_version(doc) = -1 -> Malformed
      [] bvstk_device_profile_version(doc) = 2 -> parse(doc, "i2c")
      [] OTHER -> IF /\ \A k \in {"name", "addr_7b", "reg_count", "max_value_code",
                                  "policy"} : Has(doc, k)
                     /\ Get(doc, "policy") \in {"whitelist", "blacklist"}
                     /\ bvstk_i2c_config_validate(legacy_i2c(doc))
                  THEN Parsed(legacy_i2c(doc)) ELSE Malformed

\* The old MDIO form: keys are known, given once; a list of bare registers
\* stands for rules that match any value.
mdio_rules(doc, key, old_key) ==
    IF Has(doc, old_key)
    THEN LET regs == Get(doc, old_key) IN
         [i \in DOMAIN regs |-> [reg |-> regs[i], val |-> 0, mask |-> 0]]
    ELSE find_key(doc, key)
legacy_mdio(doc) ==
    [bus |-> "mdio", name |-> Get(doc, "name"), addr |-> Get(doc, "phy_addr"),
     count |-> Get(doc, "reg_count"), max |-> Full["mdio"], policy |-> Get(doc, "policy"),
     white |-> mdio_rules(doc, "whitelist", "write_allow_regs"),
     black |-> mdio_rules(doc, "blacklist", "write_deny_regs"),
     settings |-> find_key(doc, "settings"), poll |-> find_key(doc, "autopoll_regs"),
     version |-> 0, ids |-> <<>>]
bvstk_mdio_config_parse(doc) ==
    CASE bvstk_device_profile_version(doc) = -1 -> Malformed
      [] bvstk_device_profile_version(doc) = 2 -> parse(doc, "mdio")
      [] OTHER ->
           IF /\ fields(doc, {"name", "phy_addr", "reg_count", "policy", "autopoll_regs",
                              "whitelist", "blacklist", "settings", "write_allow_regs",
                              "write_deny_regs"})
              /\ \A k \in {"name", "phy_addr", "reg_count", "policy"} : Has(doc, k)
              /\ ~(Has(doc, "whitelist") /\ Has(doc, "write_allow_regs"))
              /\ ~(Has(doc, "blacklist") /\ Has(doc, "write_deny_regs"))
              /\ Get(doc, "policy") \in {"whitelist", "blacklist"}
              /\ bvstk_mdio_config_validate(legacy_mdio(doc))
           THEN Parsed(legacy_mdio(doc)) ELSE Malformed

parse_profile(doc, bus) ==
    IF bus = "i2c" THEN bvstk_i2c_config_parse_json(doc) ELSE bvstk_mdio_config_parse(doc)

\* What a configuration means to the bus: the seeds as the values that take
\* effect, without the names that only the file has.
Effective(c) ==
    [bus |-> c.bus, name |-> c.name, addr |-> c.addr, count |-> c.count, max |-> c.max,
     policy |-> c.policy, white |-> c.white, black |-> c.black, poll |-> c.poll,
     seeds |-> {[reg |-> effective_seeds(c)[i].reg, val |-> effective_seeds(c)[i].val] :
                  i \in DOMAIN effective_seeds(c)}]
=============================================================================
