----------------------------- MODULE MCPlatform -----------------------------
(* The parts below the services: the drivers of the cores in the fabric,    *)
(* the block devices, and the configuration on them.  They share no state   *)
(* here, so part says which of them a behaviour is about, and the state     *)
(* spaces add up instead of multiplying.                                    *)
EXTENDS I2cSlave, I2cMasterHw, MdioCore, SdService, SdRaw, QspiFlash,
        ConfigStore, NeutrinoRuntime

CONSTANTS
    Parts,
    NeutrinoSpan,   \* half of the chip: three address bytes of a 32 MiB part
    NeutrinoReach   \* the positions Neutrino's clients use

VARIABLE part

-----------------------------------------------------------------------------
(* Drivers and block devices.                                               *)

MCFrames == {<<0>>, <<1>>, <<3>>, <<2, 1, 1>>, <<1, 1, 1, 1>>}
MCCells == {<<1, 2>>, <<1, 3>>}
MCSpan == [i \in {"freertos", "neutrino"} |->
             IF i = "freertos" THEN FlashBlocks ELSE NeutrinoSpan]
MCReach == [i \in {"freertos", "neutrino"} |->
             IF i = "freertos" THEN WindowBlocks + MaxRequest ELSE NeutrinoReach]
Entry(f, s, c) == [fat |-> f, start |-> s, count |-> c]
MCTables == {<<Entry(FALSE, 0, 2), Entry(TRUE, 1, 2)>>,
             <<Entry(TRUE, 3, 4), Entry(TRUE, 2, 1)>>}

(* The initial choices of a device that is not looked at.                   *)
Settled == /\ part # "i2c-slave" => adapter = "freertos" /\ valid = {}
           /\ part # "mdio" => cell = <<1, 2>>
           /\ part # "sd-pl" => svc.isolated
           /\ part # "sd-raw" => fat.start = 1
           /\ part # "qspi" => image = "freertos"
DevicesInit == /\ SlaveInit /\ HwInit /\ Init /\ SdInit /\ CardInit /\ QspiInit
               /\ Settled
devicevars == <<slavevars, hwvars, vars, sdvars, rawvars, qspivars>>

-----------------------------------------------------------------------------
(* The configuration.  FreeRTOS: two profiles per bus on flashes in every   *)
(* layout ever used.  Neutrino: two I2C devices.                            *)

Rule(r, v, m) == [reg |-> r, val |-> v, mask |-> m]
Seed(r, v) == [reg |-> r, val |-> v]
Config(b, s, a, policy, settings, version) ==
    [bus |-> b, name |-> s, addr |-> a, count |-> 2, max |-> IF b = "i2c" THEN 1 ELSE 3,
     policy |-> policy,
     white |-> <<Rule(1, 1, IF b = "i2c" THEN 1 ELSE 2)>>,
     black |-> <<Rule(0, 1, IF b = "i2c" THEN 1 ELSE 0), Rule(1, 0, IF b = "i2c" THEN 1 ELSE 3)>>,
     settings |-> settings, poll |-> IF b = "i2c" THEN <<>> ELSE <<1, 0>>,
     version |-> version,
     ids |-> IF version = 2 THEN <<<<"id", 7>>, <<"id", 5>>>> ELSE <<>>]

MCCountMax == [b \in {"i2c", "mdio"} |-> 2]
MCAddrMax == [b \in {"i2c", "mdio"} |-> 3]
MCFull == [b \in {"i2c", "mdio"} |-> IF b = "i2c" THEN 1 ELSE 3]
FactoryOf(b) == Config(b, "a", 1, "whitelist", <<Seed(0, 1)>>, 2)
MCDefaultProfiles == [b \in {"i2c", "mdio"} |-> [s \in {"a"} |-> format(FactoryOf(b))]]

\* Configurations of the user: an old one, a newer one, one with a name that
\* version 2 cannot express, one too large to be written.
OldOf(b) == Config(b, "a", 2, "blacklist", <<Seed(1, 1)>>, 0)
NewOf(b) == Config(b, "a", 2, "blacklist",
                   IF b = "i2c" THEN <<Seed(1, 0), Seed(0, 1), Seed(1, 1)>>
                   ELSE <<Seed(1, 0)>>, 0)
UpperOf(b, v) == Config(b, "B", 3, "whitelist", <<Seed(0, v)>>, 0)
HugeOf(b) == Config(b, "a", 2, "blacklist", <<Seed(0, 1), Seed(0, 1), Seed(0, 1), Seed(1, 1)>>, 2)
MCSaves == [b \in {"i2c", "mdio"} |->
               [s \in {"a", "B"} |-> IF s = "a" THEN {NewOf(b), HugeOf(b)} ELSE {UpperOf(b, 1)}]]

Legacy(c) == IF c.bus = "i2c" THEN bvstk_i2c_config_serialize_json(c)
                              ELSE bvstk_mdio_config_format(c)
Factory == [b \in {"i2c", "mdio"} |-> [s \in {"a", "B"} |->
              IF s = "a" THEN {Effective(FactoryOf(b))} ELSE {NoProfile}]]
Holding(b, s, c) == [Factory EXCEPT ![b][s] = {Effective(c)}]
F(path, doc) == [p \in {path} |-> doc]
G(f, g) == [p \in DOMAIN f \cup DOMAIN g |-> IF p \in DOMAIN f THEN f[p] ELSE g[p]]
NoFiles == [p \in {} |-> Torn]

\* Old bare register lists of MDIO.
BareLists == <<<<"name", "a">>, <<"phy_addr", 2>>, <<"reg_count", 2>>,
               <<"policy", "whitelist">>, <<"write_allow_regs", <<0>>>>>>
MCFlashes ==
    {[files |-> NoFiles, fbdir |-> FALSE, bad |-> {}, may |-> Factory, netmay |-> {}],
     \* everything in the fallback directory
     [files |-> G(G(F(Path("i2c", "configs", "a", "flat"), Legacy(OldOf("i2c"))),
                    F(Path("mdio", "smi", "a", "flat"), BareLists)),
                  F(NetPath("configs"), "n1")),
      fbdir |-> TRUE, bad |-> {}, netmay |-> {"n1"},
      may |-> [Holding("i2c", "a", OldOf("i2c")) EXCEPT
                 !["mdio"]["a"] = {Effective(legacy_mdio(BareLists))}]],
     \* the middle layout; two PHY profiles with one address
     [files |-> G(G(F(Path("i2c", "config", "a", "old"), Legacy(OldOf("i2c"))),
                    F(Path("mdio", "config", "a", "canon"), format(OldOf("mdio")))),
                  G(F(Path("mdio", "config", "B", "flat"),
                      Legacy([UpperOf("mdio", 0) EXCEPT !.addr = 2])), F(Marker, "v1"))),
      fbdir |-> FALSE, bad |-> {"mdio"}, netmay |-> {},
      may |-> [Holding("i2c", "a", OldOf("i2c")) EXCEPT
                 !["mdio"]["a"] = {Effective(OldOf("mdio"))}, !["mdio"]["B"] = {NoProfile}]],
     \* an invalid I2C profile; an MDIO profile of which only the backup is left
     [files |-> G(F(Path("i2c", "config", "a", "canon"), <<<<"schema_version", 3>>>>),
                  F(With(Path("mdio", "config", "a", "canon"), "bak"), format(NewOf("mdio")))),
      fbdir |-> TRUE, bad |-> {"i2c"}, netmay |-> {},
      may |-> [Holding("mdio", "a", NewOf("mdio")) EXCEPT !["i2c"]["a"] = {NoProfile}]],
     \* a name that only the old form can express; no factory PHY after the marker
     [files |-> G(F(Path("i2c", "config", "B", "flat"), Legacy(UpperOf("i2c", 0))), F(Marker, "v1")),
      fbdir |-> TRUE, bad |-> {}, netmay |-> {},
      may |-> [Holding("i2c", "B", UpperOf("i2c", 0)) EXCEPT !["mdio"]["a"] = {NoProfile}]]}

----------------------------------------------------------------------------
MCNStems == <<"a", "B">>
NLow == OldOf("i2c")
NUpper == UpperOf("i2c", 0)
MCNDefaults == [s \in {"a", "B"} |-> IF s = "a" THEN format(FactoryOf("i2c")) ELSE Legacy(NUpper)]
NOf(d, s, l, c) == F(<<d, s, l>>, Legacy(c))
Only(a, b) == [s \in {"a", "B"} |-> IF s = "a" THEN a ELSE b]
MCNFlashes ==
    {[files |-> NoFiles,
      may |-> Only({Effective(FactoryOf("i2c"))}, {Effective(NUpper)})],
     [files |-> G(NOf("legacy", "a", "flat", NLow), NOf("legacy", "B", "old", NUpper)),
      may |-> Only({Effective(NLow)}, {Effective(NUpper)})],
     [files |-> G(NOf("config", "a", "old", NLow), NOf("config", "a", "flat", NewOf("i2c"))),
      may |-> Only({Effective(NLow)}, {})],
     [files |-> G(F(<<"config", "a", "flat">>, Torn), NOf("legacy", "B", "flat", NUpper)),
      may |-> Only({}, {})]}
MCNRules == {Rule(1, 0, 1)}

\* The variables of a part that a behaviour is not about.
CsUnused ==
    /\ files = <<>> /\ origin = <<>> /\ mounted = FALSE /\ stage = 0 /\ tried = {}
    /\ job = <<>> /\ failed = <<>> /\ first = FALSE /\ ram = <<>> /\ net = <<>>
    /\ csfaults = 0 /\ crashes = 0 /\ saves = 0 /\ fresh = FALSE
    /\ may = <<>> /\ netmay = {}
NUnused ==
    /\ nfiles = <<>> /\ nmay = <<>> /\ nstore = <<>> /\ nsvc = <<>> /\ ncache = <<>>
    /\ nslave = 0 /\ nready = "down" /\ nqueue = {} /\ njob = <<>>
    /\ nops = 0 /\ nkills = 0 /\ nfaults = 0 /\ nfresh = FALSE

ConfigsInit ==
    CASE part = "config"   -> CsInit /\ NUnused
      [] part = "neutrino" -> NInit /\ CsUnused
      [] OTHER             -> CsUnused /\ NUnused
configvars == <<csvars, nvars>>

-----------------------------------------------------------------------------
PlatformInit == part \in Parts /\ DevicesInit /\ ConfigsInit

Device ==
    \/ /\ part = "i2c-slave" /\ SlaveNext
       /\ UNCHANGED <<hwvars, vars, sdvars, rawvars, qspivars>>
    \/ /\ part = "i2c-master" /\ HwNext
       /\ UNCHANGED <<slavevars, vars, sdvars, rawvars, qspivars>>
    \/ /\ part = "mdio" /\ Next
       /\ UNCHANGED <<slavevars, hwvars, sdvars, rawvars, qspivars>>
    \/ /\ part = "sd-pl" /\ SdNext
       /\ UNCHANGED <<slavevars, hwvars, vars, rawvars, qspivars>>
    \/ /\ part = "sd-raw" /\ CardNext
       /\ UNCHANGED <<slavevars, hwvars, vars, sdvars, qspivars>>
    \/ /\ part = "qspi" /\ QspiNext
       /\ UNCHANGED <<slavevars, hwvars, vars, sdvars, rawvars>>
Configuration ==
    \/ part = "config" /\ CsNext /\ UNCHANGED nvars
    \/ part = "neutrino" /\ NNext /\ UNCHANGED csvars

PlatformNext == /\ UNCHANGED part
                /\ \/ Device /\ UNCHANGED configvars
                   \/ Configuration /\ UNCHANGED devicevars
PlatformSpec == PlatformInit /\ [][PlatformNext]_<<part, devicevars, configvars>>

-----------------------------------------------------------------------------
(* What a call reported as read or written is what the medium holds: the    *)
(* card behind the core in the fabric (SdHonest), the card behind           *)
(* Neutrino's controller (CardKeepsWrites) and the serial flash             *)
(* (FlashKeepsWrites), in the blocks no failure or power loss has damaged.  *)
MediaKeepWrites == SdHonest /\ CardKeepsWrites /\ FlashKeepsWrites

(* A start loads what was saved last, whatever failures and power losses    *)
(* the saves met, and leaves a bus out only for a cause: LoadedIsSaved and  *)
(* DisabledForCause on FreeRTOS, NeutrinoLoadedIsSaved on Neutrino.         *)
ConfigLoadedIsSaved == LoadedIsSaved /\ DisabledForCause /\ NeutrinoLoadedIsSaved
=============================================================================
