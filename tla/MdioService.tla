---------------------------- MODULE MdioService ----------------------------
(***************************************************************************)
(* The MDIO service: services/mdio/bvstk_mdio_service.c with its device    *)
(* table, policy, register cache and worker, the mailbox and read areas of *)
(* the slave BRAM it reaches through bvstk_mdio_core.c, and the bridge     *)
(* that shows the cache to the registry (bvstk_cache_bridges.c).           *)
(*                                                                         *)
(* The external host writes registers into a mailbox (one word per         *)
(* register, no queue) and reads them from the read area.  A worker task   *)
(* empties the mailbox, probes the identity registers of every device and  *)
(* polls; other tasks read, write and configure.  Every call holds the     *)
(* service mutex from end to end, so a call excludes other calls but not   *)
(* the host: it is split into steps where the host can see the difference. *)
(*                                                                         *)
(* svc is the service's structure with the BRAM and the registry beside    *)
(* it; operators named after the code's functions take it and return it.   *)
(* A 16-bit word is the set of its one bits.  A deadline is the Boolean    *)
(* "due now": Tick makes it true.  Statistics, events, time stamps and the *)
(* name and file of a device, which never change, are left out.            *)
(***************************************************************************)
EXTENDS Integers, Sequences, FiniteSets

CONSTANTS
    DeviceCount,    \* device_count
    PhyCount,       \* PHY addresses (32)
    RegMax,         \* registers of an address (32)
    Bits,           \* the bits of a word
    ResetBit,       \* 0x8000, which resets a PHY when written to register 0
    IdReg1, IdReg2, \* the identity registers (2 and 3)
    ProbeMin,       \* the least reg_count that has them (4)
    TakeMax,        \* mailbox words one step takes (4)
    RulesMax,       \* MDIO_CFG_RULES_MAX
    Boot,           \* the configuration of each device at boot
    Configs,        \* the configurations set_config is called with
    Replies,        \* words a bus read may bring
    HostWrites,     \* <<cell, word>> pairs the host writes
    ClientReads,    \* registers tasks read
    ClientWrites,   \* <<register, word>> pairs tasks write
    EditedRules,    \* rules that policy edits name
    FailureSets     \* registers whose BRAM accesses may fail together

Dev == 0 .. DeviceCount - 1
Regs == 0 .. RegMax - 1
Phys == 0 .. PhyCount - 1
Cells == Phys \X Regs
Words == SUBSET Bits
Undriven == Bits                \* FFFF: nobody drives the line
Modes == {"whitelist", "blacklist"}
Rules == [reg : Regs, val : Words, mask : Words]
ConfigRecords ==
    [phy : Phys, count : 1 .. RegMax, policy : Modes,
     whitelist : Seq(Rules), blacklist : Seq(Rules),
     settings : Seq([reg : Regs, val : Words]),
     autopoll : BOOLEAN, regs : Seq(Regs)]

\* bvstk_mdio_config_validate: lengths, ranges, no register twice.
bvstk_mdio_config_validate(c) ==
    /\ Len(c.whitelist) <= RulesMax /\ Len(c.blacklist) <= RulesMax
    /\ Len(c.settings) <= RegMax /\ Len(c.regs) <= RegMax
    /\ \A i \in DOMAIN c.whitelist : c.whitelist[i].reg < c.count
    /\ \A i \in DOMAIN c.blacklist : c.blacklist[i].reg < c.count
    /\ \A i \in DOMAIN c.regs :
          /\ c.regs[i] < c.count
          /\ \A j \in 1 .. i - 1 : c.regs[j] # c.regs[i]
    /\ \A i \in DOMAIN c.settings :
          /\ c.settings[i].reg < c.count
          /\ \A j \in 1 .. i - 1 : c.settings[j].reg # c.settings[i].reg

ASSUME MdioAssumption ==
    /\ DeviceCount \in Nat \ {0} /\ PhyCount \in Nat \ {0}
    /\ RegMax \in Nat \ {0} /\ ProbeMin \in 1 .. RegMax
    /\ IdReg1 \in 1 .. ProbeMin - 1 /\ IdReg2 \in 1 .. ProbeMin - 1
    /\ IdReg1 # IdReg2
    /\ TakeMax \in Nat \ {0} /\ RulesMax \in Nat
    /\ ResetBit \in Bits
    /\ Boot \in [Dev -> ConfigRecords]
    /\ \A d \in Dev : bvstk_mdio_config_validate(Boot[d])
    /\ \A d, e \in Dev : d # e => Boot[d].phy # Boot[e].phy
    /\ Configs \subseteq ConfigRecords
    /\ Replies \subseteq Words
    /\ HostWrites \subseteq Cells \X Words
    /\ ClientReads \subseteq Regs
    /\ ClientWrites \subseteq Regs \X Words
    /\ EditedRules \subseteq Rules
    /\ FailureSets \subseteq SUBSET Regs /\ {} \in FailureSets

VARIABLES
    svc,            \* the service, the read area and the registry's view
    mailbox,        \* the write area: the word waiting in each cell, if any
    job             \* what the holder of the service mutex is doing

vars == <<svc, mailbox, job>>

Invalid == [valid |-> FALSE, seeded |-> FALSE, value |-> {}]
Seeded(v) == [valid |-> TRUE, seeded |-> TRUE, value |-> v]
Sampled(v) == [valid |-> TRUE, seeded |-> FALSE, value |-> v]
Entries == {Invalid} \cup {Seeded(v) : v \in Words} \cup {Sampled(v) : v \in Words}

NoPhy == -1
Idle == [pc |-> "idle"]
Scan(left, taken) == [pc |-> "scan", left |-> left, taken |-> taken]
Poll(left) == [pc |-> "poll", left |-> left]

-----------------------------------------------------------------------------
(* Policy: bvstk_mdio_policy_allows and the rules it reads                 *)

Matches(rule, r, v) == rule.reg = r /\ v \cap rule.mask = rule.val \cap rule.mask

bvstk_mdio_policy_allows(c, r, v) ==
    /\ r < c.count
    /\ IF c.policy = "whitelist"
       THEN \E i \in DOMAIN c.whitelist : Matches(c.whitelist[i], r, v)
       ELSE \A i \in DOMAIN c.blacklist : ~Matches(c.blacklist[i], r, v)

\* Two rules are the same when register, mask and masked value agree.
policy_rule_equal(a, b) ==
    a.reg = b.reg /\ a.mask = b.mask /\ a.val \cap b.mask = b.val \cap b.mask

-----------------------------------------------------------------------------
(* The cache, the read area and the registry                               *)

\* bvstk_mdio_core_publish: one word of the read area.  missed is history:
\* the cells whose last publication failed.
publish(s, phy, r, v, ok) ==
    IF ok THEN [s EXCEPT !.bram[<<phy, r>>] = v, !.missed = @ \ {<<phy, r>>}]
          ELSE [s EXCEPT !.missed = @ \cup {<<phy, r>>}]

\* A mistake: a register that became invalid is not reported.
ReportValidOnly(s, d, r) ==
    IF r < s.devices[d].count /\ s.cache[d][r].valid
    THEN [s EXCEPT !.mirror[d].entries[r] = s.cache[d][r]]
    ELSE s

\* The bridge drops registers beyond the device's count.
cache_changed(s, d, r) ==
    IF r < s.devices[d].count
    THEN [s EXCEPT !.mirror[d].entries[r] = s.cache[d][r]]
    ELSE s

\* configure_mdio: bvstk_cache_define replaces the catalog by the cache.
configure_mdio(s, d) ==
    [s EXCEPT !.mirror[d] =
        [presence |-> IF s.online[d] THEN "ready" ELSE "unknown",
         entries  |-> [r \in 0 .. s.devices[d].count - 1 |-> s.cache[d][r]]]]

\* Forget a device: every register of its address, declared or not, reads
\* FFFF.  It succeeds when no publication failed (fails = {}).
invalidate(s, d, fails) ==
    LET phy == s.devices[d].phy
        mine == {phy} \X Regs
        lost == {phy} \X fails
    IN  [s EXCEPT !.cache[d] = [r \in Regs |-> Invalid],
                  !.online[d] = FALSE, !.probeDue[d] = TRUE,
                  !.mirror[d] = [presence |-> "unavailable",
                                 entries  |-> [r \in DOMAIN @.entries |-> Invalid]],
                  !.bram = [c \in Cells |-> IF c \in mine \ lost THEN Undriven ELSE @[c]],
                  !.missed = (@ \ mine) \cup lost, !.current = @ \ mine]

\* Preset the first n registers of the settings; n falls short of their
\* number when the publication of the next one fails.
seed(s, d, n) ==
    LET c == s.devices[d]
        Preset(r) == {i \in 1 .. n : c.settings[i].reg = r}
        Value(r) == c.settings[CHOOSE i \in Preset(r) : TRUE].val
        cache == [r \in Regs |-> IF Preset(r) # {} THEN Seeded(Value(r)) ELSE s.cache[d][r]]
        cells == {<<c.phy, r>> : r \in {q \in Regs : Preset(q) # {}}}
        lost == IF n < Len(c.settings) THEN {<<c.phy, c.settings[n + 1].reg>>} ELSE {}
    IN  [s EXCEPT !.cache[d] = cache,
                  !.mirror[d].entries = [r \in DOMAIN @ |-> IF Preset(r) # {} THEN cache[r] ELSE @[r]],
                  !.bram = [x \in Cells |-> IF x \in cells THEN Value(x[2]) ELSE @[x]],
                  !.missed = (@ \ cells) \cup lost,
                  !.current = @ \cup cells]

\* A register without an answer is invalid and reads FFFF, if that can be
\* written.
unread(s, d, r, ok) ==
    publish([s EXCEPT !.cache[d][r] = Invalid], s.devices[d].phy, r, Undriven, ok)

\* An answer, which makes the cell current, is filed only once the read area
\* shows it.
\* current is history: the cells read, or preset, since the last frame that
\* may have changed them and since the device was last forgotten.
answered(s, d, r, word, ok, okFF) ==
    LET phy == s.devices[d].phy
        served == publish([s EXCEPT !.current = @ \cup {<<phy, r>>}], phy, r, word, ok)
    IN  IF ok THEN [served EXCEPT !.cache[d][r] = Sampled(word)]
              ELSE unread(served, d, r, okFF)

\* One bus read.  The registry learns of a probe from its caller.
read_phy(s, d, r, reply, ok, okFF, probe) ==
    LET filed == IF reply.ok THEN answered(s, d, r, reply.word, ok, okFF)
                             ELSE unread(s, d, r, okFF)
    IN  IF probe THEN filed ELSE cache_changed(filed, d, r)

\* bvstk_mdio_core_read, as the service sees it: a word or an error.
BusReplies == {[ok |-> TRUE, word |-> w] : w \in Replies} \cup {[ok |-> FALSE, word |-> {}]}

-----------------------------------------------------------------------------
(* write_phy, in three steps: prepare, dispatch, read back                 *)

IsReset(r, v) == r = 0 /\ ResetBit \in v

\* A mistake: a RESET command invalidates register 0 alone.
ForgetOne(s, d, r, v, fails) ==
    publish(cache_changed([s EXCEPT !.cache[d][r] = Invalid], d, r),
            s.devices[d].phy, r, Undriven, r \notin fails)

\* What the written register held is forgotten before the frame leaves; a
\* RESET command forgets the whole device.
Forget(s, d, r, v, fails) ==
    IF IsReset(r, v)
    THEN invalidate(s, d, fails)
    ELSE publish(cache_changed([s EXCEPT !.cache[d][r] = Invalid], d, r),
                 s.devices[d].phy, r, Undriven, r \notin fails)

\* A denied write changes nothing; next is what the holder does afterwards.
BeginWrite(d, r, v, next) ==
    IF bvstk_mdio_policy_allows(svc.devices[d], r, v)
    THEN /\ \E fails \in FailureSets : svc' = Forget(svc, d, r, v, fails)
         /\ job' = [pc |-> "dispatch", dev |-> d, reg |-> r, word |-> v, next |-> next]
    ELSE /\ UNCHANGED svc
         /\ job' = next

\* bvstk_mdio_core_write: the frame leaves.  MDIO has no acknowledgement, and
\* a transfer that fails may still have reached the PHY, so it counts as a
\* change of the register (of the device, for RESET) either way.
Dispatch ==
    LET d == job.dev
        phy == svc.devices[d].phy
        hit == IF IsReset(job.reg, job.word) THEN {phy} \X Regs ELSE {<<phy, job.reg>>}
    IN  /\ job.pc = "dispatch"
        /\ svc' = [svc EXCEPT !.current = @ \ hit,
                              !.confirmed = [e \in Dev |->
                                  IF IsReset(job.reg, job.word) /\ @[e] = phy
                                  THEN NoPhy ELSE @[e]]]
        /\ \/ job' = [job EXCEPT !.pc = "verify"]
           \/ job' = job.next
        /\ UNCHANGED mailbox

\* The register is read back and its device's polling round restarts.
Verify ==
    /\ job.pc = "verify"
    /\ \E reply \in BusReplies, f1, f2 \in FailureSets :
          svc' = [read_phy(svc, job.dev, job.reg, reply,
                           job.reg \notin f1, job.reg \notin f2, FALSE)
                     EXCEPT !.pollDue[job.dev] = TRUE, !.pollIndex[job.dev] = 0]
    /\ job' = job.next
    /\ UNCHANGED mailbox

-----------------------------------------------------------------------------
(* The worker: bvstk_mdio_service_step                                     *)

CellCount == PhyCount * RegMax
CellAt(i) == <<i \div RegMax, i % RegMax>>
Owners(s, phy) == {d \in Dev : s.devices[d].phy = phy}

\* A mistake: every step starts over from the first cell.
StartOver ==
    /\ job = Idle
    /\ job' = Scan(CellCount, 0)
    /\ svc' = [svc EXCEPT !.scan = 0]
    /\ UNCHANGED mailbox

StepBegin ==
    /\ job = Idle
    /\ job' = Scan(CellCount, 0)
    /\ UNCHANGED <<svc, mailbox>>

\* bvstk_mdio_core_take_write, first half: the worker passes k empty cells and
\* reads the next one, unless all the cells left were empty.  An access error
\* ends the scan.  Passing an empty cell only moves the cursor, so whatever
\* the host writes meanwhile it could as well have written before or after.
TakeRead ==
    /\ job.pc = "scan" /\ job.left > 0 /\ job.taken < TakeMax
    /\ \E k \in 0 .. job.left :
          /\ \A i \in 0 .. k - 1 : mailbox[CellAt((svc.scan + i) % CellCount)] = {}
          /\ LET cell == CellAt((svc.scan + k) % CellCount)
             IN  \/ /\ k = job.left
                    /\ svc' = [svc EXCEPT !.scan = (@ + k) % CellCount]
                    /\ job' = Scan(0, job.taken)
                 \/ /\ k < job.left
                    /\ svc' = [svc EXCEPT !.scan = (@ + k + 1) % CellCount]
                    /\ \/ \E v \in mailbox[cell] :
                             job' = [pc |-> "clear", cell |-> cell, word |-> v,
                                     left |-> job.left - k - 1, taken |-> job.taken]
                       \/ /\ \E fails \in FailureSets : cell[2] \in fails
                          /\ job' = Poll(DeviceCount)
    /\ UNCHANGED mailbox

\* Second half: the cell is cleared, with whatever the host has put there
\* meanwhile, and the word read before is executed.  A cell of no device is
\* only counted.  An access error leaves the cell and ends the scan.
TakeClear ==
    LET phy == job.cell[1]
        next == Scan(job.left, job.taken + 1)
    IN  /\ job.pc = "clear"
        /\ \/ /\ mailbox' = [mailbox EXCEPT ![job.cell] = {}]
              /\ IF Owners(svc, phy) = {}
                 THEN job' = next /\ UNCHANGED svc
                 ELSE \E d \in Owners(svc, phy) : BeginWrite(d, job.cell[2], job.word, next)
           \/ /\ \E fails \in FailureSets : job.cell[2] \in fails
              /\ job' = Poll(DeviceCount)
              /\ UNCHANGED <<svc, mailbox>>

\* All cells seen, or enough words taken: the slave core is acknowledged.
ScanEnd ==
    /\ job.pc = "scan"
    /\ job.left = 0 \/ job.taken >= TakeMax
    /\ job' = Poll(DeviceCount)
    /\ UNCHANGED <<svc, mailbox>>

\* A mistake: the first device is always looked at first.
FirstDevice == DeviceCount - job.left

\* poll_device++ % device_count: the device under consideration.
PollDevice == svc.pollDevice

Advanced(s) == [s EXCEPT !.pollDevice = (@ + 1) % DeviceCount]

ProbeTurn(d) == svc.probeDue[d] /\ svc.devices[d].count >= ProbeMin
PollTurn(d) ==
    /\ ~ProbeTurn(d)
    /\ svc.devices[d].autopoll /\ svc.devices[d].regs # <<>> /\ svc.pollDue[d]
    /\ svc.devices[d].count >= ProbeMin => svc.online[d]

Skip ==
    /\ job.pc = "poll"
    /\ \/ /\ job.left > 0
          /\ ~ProbeTurn(PollDevice) /\ ~PollTurn(PollDevice)
          /\ svc' = Advanced(svc)
          /\ job' = Poll(job.left - 1)
       \/ /\ job.left = 0
          /\ job' = Idle
          /\ UNCHANGED svc
    /\ UNCHANGED mailbox

\* A PHY is there when both words drive the line and one is not zero.
IdentityPair(a, b) == a # Undriven /\ b # Undriven /\ (a # {} \/ b # {})

\* Both identity registers are read; the second only after the first.  An
\* accepted pair is shown to the registry, anything else forgets the device.
\* confirmed is history: the address whose identity was last accepted.
Probe ==
    LET d == PollDevice
    IN  /\ job.pc = "poll" /\ job.left > 0 /\ ProbeTurn(d)
        /\ \E a, b \in BusReplies, f1, f2, f3 \in FailureSets :
              LET ok1 == a.ok /\ IdReg1 \notin f1
                  ok2 == b.ok /\ IdReg2 \notin f1
                  s1 == read_phy(Advanced(svc), d, IdReg1, a,
                                 IdReg1 \notin f1, IdReg1 \notin f2, TRUE)
                  s2 == IF ok1 THEN read_phy(s1, d, IdReg2, b,
                                             IdReg2 \notin f1, IdReg2 \notin f2, TRUE)
                               ELSE s1
                  shown == cache_changed(cache_changed(s2, d, IdReg1), d, IdReg2)
                  s3 == IF ok1 /\ ok2 /\ IdentityPair(a.word, b.word)
                        THEN [shown EXCEPT !.pollDue[d] = @ \/ ~svc.online[d],
                                           !.online[d] = TRUE,
                                           !.mirror[d].presence = "ready",
                                           !.confirmed[d] = svc.devices[d].phy]
                        ELSE [invalidate(s2, d, f3) EXCEPT !.confirmed[d] = NoPhy]
              IN  svc' = [s3 EXCEPT !.probeDue[d] = FALSE]
        /\ job' = Idle
        /\ UNCHANGED mailbox

\* The next register of the polling round.  A failed read forgets the device
\* and leaves it to the next probe.
AutoPoll ==
    LET d == PollDevice
        c == svc.devices[d]
        r == c.regs[svc.pollIndex[d] + 1]
        last == svc.pollIndex[d] + 1 >= Len(c.regs)
    IN  /\ job.pc = "poll" /\ job.left > 0 /\ PollTurn(d)
        /\ \E reply \in BusReplies, f1, f2, f3 \in FailureSets :
              LET s1 == read_phy(Advanced(svc), d, r, reply, r \notin f1, r \notin f2, FALSE)
                  s2 == IF reply.ok /\ r \notin f1 THEN s1
                        ELSE [invalidate(s1, d, f3) EXCEPT !.probeDue[d] = FALSE]
              IN  svc' = [s2 EXCEPT !.pollDue[d] = FALSE,
                                    !.pollIndex[d] = IF last THEN 0 ELSE @ + 1]
        /\ job' = Idle
        /\ UNCHANGED mailbox

-----------------------------------------------------------------------------
(* Calls of other tasks                                                    *)

\* bvstk_mdio_service_read_from
ClientRead(d, r) ==
    /\ job = Idle
    /\ r < svc.devices[d].count
    /\ \E reply \in BusReplies, f1, f2 \in FailureSets :
          svc' = read_phy(svc, d, r, reply, r \notin f1, r \notin f2, FALSE)
    /\ UNCHANGED <<mailbox, job>>

\* bvstk_mdio_service_write
ClientWrite(d, r, v) ==
    /\ job = Idle
    /\ r < svc.devices[d].count
    /\ BeginWrite(d, r, v, Idle)
    /\ UNCHANGED mailbox

\* bvstk_mdio_service_invalidate
ClientInvalidate(d) ==
    /\ job = Idle
    /\ \E fails \in FailureSets : svc' = invalidate(svc, d, fails)
    /\ UNCHANGED <<mailbox, job>>

\* What makes the cache of a device useless.
changed(old, c) ==
    c.phy # old.phy \/ c.count # old.count \/ c.settings # old.settings

\* A mistake: the polling round of the old configuration goes on.
KeepRound(s, d, c) == [s EXCEPT !.devices[d] = c, !.pollDue[d] = TRUE]

\* The record is replaced and its polling round restarts.
Adopt(s, d, c) == [s EXCEPT !.devices[d] = c, !.pollDue[d] = TRUE, !.pollIndex[d] = 0]

\* A changed device is forgotten at its old address first: when that fails
\* nothing else happens.  Then it is forgotten at the new address, and preset
\* if that succeeds.
Move(s, d, c, f1, f2, n) ==
    LET old == invalidate(s, d, f1)
        new == invalidate(configure_mdio(Adopt(old, d, c), d), d, f2)
    IN  IF f1 # {} THEN old ELSE IF f2 # {} THEN new ELSE seed(new, d, n)

\* bvstk_mdio_service_set_config
SetConfig(d, c) ==
    /\ job = Idle
    /\ bvstk_mdio_config_validate(c)
    /\ \A e \in Dev \ {d} : svc.devices[e].phy # c.phy
    /\ IF changed(svc.devices[d], c)
       THEN \E f1, f2 \in FailureSets, n \in 0 .. Len(c.settings) :
               /\ n < Len(c.settings) =>
                      \E fails \in FailureSets : c.settings[n + 1].reg \in fails
               /\ svc' = Move(svc, d, c, f1, f2, n)
       ELSE svc' = configure_mdio(Adopt(svc, d, c), d)
    /\ UNCHANGED <<mailbox, job>>

\* A mistake: the mode is changed without the mutex.
SetPolicyUnlocked(d, mode) ==
    /\ svc' = [svc EXCEPT !.devices[d].policy = mode]
    /\ UNCHANGED <<mailbox, job>>

\* bvstk_mdio_service_set_policy
SetPolicy(d, mode) ==
    /\ job = Idle
    /\ svc' = [svc EXCEPT !.devices[d].policy = mode]
    /\ UNCHANGED <<mailbox, job>>

HasRoom(list) == Len(list) < RulesMax

With(list, rule) ==
    IF \E i \in DOMAIN list : policy_rule_equal(list[i], rule)
    THEN list
    ELSE Append(list, [rule EXCEPT !.val = @ \cap rule.mask])

\* The places of the rules other than this one, in order: the k-th of them is
\* moved up to place k.
Without(list, rule) ==
    LET keep == {i \in DOMAIN list : ~policy_rule_equal(list[i], rule)}
    IN  {at \in [1 .. Cardinality(keep) -> keep] :
            \A i, j \in DOMAIN at : i < j => at[i] < at[j]}

\* A list by the mode that reads it.
List(c, mode) == IF mode = "whitelist" THEN c.whitelist ELSE c.blacklist
PutList(d, mode, list) ==
    svc' = IF mode = "whitelist" THEN [svc EXCEPT !.devices[d].whitelist = list]
                                 ELSE [svc EXCEPT !.devices[d].blacklist = list]

\* bvstk_mdio_service_rule_add: a rule already there is accepted.
RuleAdd(d, mode, rule) ==
    LET list == List(svc.devices[d], mode)
    IN  /\ job = Idle
        /\ rule.reg < svc.devices[d].count
        /\ With(list, rule) # list => HasRoom(list)
        /\ PutList(d, mode, With(list, rule))
        /\ UNCHANGED <<mailbox, job>>

\* bvstk_mdio_service_rule_remove and bvstk_mdio_service_rule_clear_list.
RuleRemove(d, mode, rule) ==
    /\ job = Idle
    /\ rule.reg < svc.devices[d].count
    /\ LET list == List(svc.devices[d], mode)
       IN  \E at \in Without(list, rule) :
              PutList(d, mode, [k \in DOMAIN at |-> list[at[k]]])
    /\ UNCHANGED <<mailbox, job>>

RuleClear(d, mode) ==
    /\ job = Idle
    /\ PutList(d, mode, <<>>)
    /\ UNCHANGED <<mailbox, job>>

-----------------------------------------------------------------------------
(* The host and the clock                                                  *)

\* The PL writes the host's word into its mailbox cell at any moment.
HostWrite(cell, v) ==
    /\ mailbox' = [mailbox EXCEPT ![cell] = {v}]
    /\ UNCHANGED <<svc, job>>

\* A deadline passes.
Tick(d) ==
    /\ \/ ~svc.probeDue[d] /\ svc' = [svc EXCEPT !.probeDue[d] = TRUE]
       \/ ~svc.pollDue[d] /\ svc' = [svc EXCEPT !.pollDue[d] = TRUE]
    /\ UNCHANGED <<mailbox, job>>

\* bvstk_mdio_service_init and bvstk_cache_attach_mdio: an empty read area
\* and mailbox, the settings preset, the registry a copy of the cache.
Init ==
    /\ LET Presets(d) == {i \in DOMAIN Boot[d].settings : TRUE}
           Entry(d, r) == IF \E i \in Presets(d) : Boot[d].settings[i].reg = r
                          THEN Seeded(Boot[d].settings[
                                  CHOOSE i \in Presets(d) : Boot[d].settings[i].reg = r].val)
                          ELSE Invalid
           Shown(c) == IF \E d \in Dev : Boot[d].phy = c[1] /\ Entry(d, c[2]).valid
                       THEN Entry(CHOOSE d \in Dev : Boot[d].phy = c[1], c[2]).value
                       ELSE Undriven
       IN svc = [devices |-> Boot,
                 cache |-> [d \in Dev |-> [r \in Regs |-> Entry(d, r)]],
                 online |-> [d \in Dev |-> FALSE],
                 probeDue |-> [d \in Dev |-> TRUE],
                 pollDue |-> [d \in Dev |-> TRUE],
                 pollIndex |-> [d \in Dev |-> 0],
                 scan |-> 0,
                 pollDevice |-> 0,
                 bram |-> [c \in Cells |-> Shown(c)],
                 mirror |-> [d \in Dev |->
                     [presence |-> "unknown",
                      entries |-> [r \in 0 .. Boot[d].count - 1 |-> Entry(d, r)]]],
                 missed |-> {},
                 current |-> {c \in Cells : \E d \in Dev :
                                 Boot[d].phy = c[1] /\ Entry(d, c[2]).valid},
                 confirmed |-> [d \in Dev |-> NoPhy]]
    /\ mailbox = [c \in Cells |-> {}]
    /\ job = Idle

Worker == StepBegin \/ TakeRead \/ TakeClear \/ ScanEnd \/ Skip \/ Probe \/ AutoPoll
Holder == Dispatch \/ Verify

Next ==
    \/ Worker
    \/ Holder
    \/ \E d \in Dev :
          \/ \E r \in ClientReads : ClientRead(d, r)
          \/ \E w \in ClientWrites : ClientWrite(d, w[1], w[2])
          \/ ClientInvalidate(d)
          \/ \E c \in Configs : SetConfig(d, c)
          \/ \E mode \in Modes :
                \/ EditedRules # {} /\ SetPolicy(d, mode)
                \/ \E rule \in EditedRules : RuleAdd(d, mode, rule) \/ RuleRemove(d, mode, rule)
                \/ EditedRules # {} /\ RuleClear(d, mode)
          \/ Tick(d)
    \/ \E w \in HostWrites : HostWrite(w[1], w[2])

Spec == Init /\ [][Next]_vars

\* The worker is a task that runs again one tick after each step; it waits
\* for the mutex, which every holder releases, and gets it in the end.
FairSpec ==
    /\ Spec
    /\ SF_vars(StepBegin)
    /\ WF_vars(TakeRead \/ TakeClear \/ ScanEnd \/ Skip \/ Probe \/ AutoPoll)
    /\ WF_vars(Holder)

-----------------------------------------------------------------------------
(* Properties                                                              *)

Jobs ==
    {Idle} \cup
    [pc : {"scan"}, left : 0 .. CellCount, taken : 0 .. TakeMax] \cup
    [pc : {"poll"}, left : 0 .. DeviceCount] \cup
    [pc : {"clear"}, cell : Cells, word : Words, left : 0 .. CellCount, taken : 0 .. TakeMax]
Writes ==
    [pc : {"dispatch", "verify"}, dev : Dev, reg : Regs, word : Words, next : Jobs]

\* Every field of the service has its type; a device's catalog has one entry
\* per declared register.
TypeOK ==
    /\ DOMAIN svc = {"devices", "cache", "online", "probeDue", "pollDue", "pollIndex",
                     "scan", "pollDevice", "bram", "mirror", "missed", "current", "confirmed"}
    /\ svc.devices \in [Dev -> ConfigRecords]
    /\ svc.cache \in [Dev -> [Regs -> Entries]]
    /\ svc.online \in [Dev -> BOOLEAN]
    /\ svc.probeDue \in [Dev -> BOOLEAN]
    /\ svc.pollDue \in [Dev -> BOOLEAN]
    /\ svc.pollIndex \in [Dev -> 0 .. RegMax - 1]
    /\ svc.scan \in 0 .. CellCount - 1
    /\ svc.pollDevice \in Dev
    /\ svc.bram \in [Cells -> Words]
    /\ \A d \in Dev :
          svc.mirror[d] \in [presence : {"unknown", "ready", "unavailable"},
                             entries : [0 .. svc.devices[d].count - 1 -> Entries]]
    /\ svc.missed \subseteq Cells
    /\ svc.current \subseteq Cells
    /\ svc.confirmed \in [Dev -> Phys \cup {NoPhy}]
    /\ mailbox \in [Cells -> SUBSET Words]
    /\ job \in Jobs \cup Writes

\* The host reads what the cache holds: whenever a register is valid in the
\* cache, the read area of the device's address shows that very word, however
\* many publications have failed before.
ValidServed ==
    \A d \in Dev, r \in Regs :
        svc.cache[d][r].valid => svc.bram[<<svc.devices[d].phy, r>>] = svc.cache[d][r].value

\* A register no device declares reads FFFF: nothing of a device that moved
\* to another address, or lost registers, is left behind, even when
\* publications fail on the way.
Declared(phy, r) == \E d \in Dev : svc.devices[d].phy = phy /\ r < svc.devices[d].count
UndeclaredSilent == \A c \in Cells : ~Declared(c[1], c[2]) => svc.bram[c] = Undriven

\* A command is never taken for the PHY's answer: a valid entry was read, or
\* preset, after the last frame that wrote its register or reset its device.
ValidCurrent ==
    \A d \in Dev, r \in Regs :
        svc.cache[d][r].valid => <<svc.devices[d].phy, r>> \in svc.current

\* The host sees no word from before a write, even while the frame is on its
\* way, unless the read area could not be written.
ServedCurrent == \A c \in Cells : svc.bram[c] # Undriven => c \in svc.current \cup svc.missed

\* A device is online only if the last probe at its present address accepted
\* an identity, no RESET was sent since, and it declares those registers.
OnlineConfirmed ==
    \A d \in Dev : svc.online[d] =>
        /\ svc.confirmed[d] = svc.devices[d].phy
        /\ svc.devices[d].count >= ProbeMin

\* autopoll_regs[poll_index] is an entry of the list in use, through every
\* change of configuration.
PollIndexInRange ==
    \A d \in Dev : svc.pollIndex[d] = 0 \/ svc.pollIndex[d] < Len(svc.devices[d].regs)

\* The registry shows the cache: every entry is the cache's, and a device is
\* ready exactly when it is online.
MirrorExact ==
    \A d \in Dev :
        /\ \A r \in 0 .. svc.devices[d].count - 1 : svc.mirror[d].entries[r] = svc.cache[d][r]
        /\ (svc.mirror[d].presence = "ready") <=> svc.online[d]

\* The frame about to leave is one the policy in force allows, whoever asked
\* for it and whatever was configured since.
FrameAllowed ==
    job.pc = "dispatch" =>
        bvstk_mdio_policy_allows(svc.devices[job.dev], job.reg, job.word)

\* No list outgrows its array, which would make the policy deny everything.
RulesBounded ==
    \A d \in Dev : /\ Len(svc.devices[d].whitelist) <= RulesMax
                   /\ Len(svc.devices[d].blacklist) <= RulesMax

\* What the host reads is true: ValidServed, UndeclaredSilent, ValidCurrent
\* and ServedCurrent, through moves, resets, writes and failed publications.
ReadAreaExact == ValidServed /\ UndeclaredSilent /\ ValidCurrent /\ ServedCurrent

\* What the worker keeps of a device fits the configuration in force, though
\* set_config may replace it between any two steps: OnlineConfirmed and
\* PollIndexInRange.
WorkerFitsConfig == OnlineConfirmed /\ PollIndexInRange

\* Only what the policy allows leaves, and the policy never becomes one that
\* denies everything: FrameAllowed and RulesBounded.
PolicyEnforced == FrameAllowed /\ RulesBounded

\* Every word the host leaves in the mailbox is taken out in the end, however
\* busy the other cells are.
MailboxDrained == \A c \in Cells : mailbox[c] # {} ~> mailbox[c] = {}

\* Every device whose probe is due gets its turn, however often the others
\* are probed or polled.
DevicesProbed ==
    \A d \in Dev : svc.probeDue[d] /\ svc.devices[d].count >= ProbeMin ~>
                       ~svc.probeDue[d] \/ svc.devices[d].count < ProbeMin
=============================================================================
