--------------------------- MODULE MCMdioService ---------------------------
(***************************************************************************)
(* Small instances of MdioService: words of two bits, one of them RESET,   *)
(* and identity registers 1 and 2 of a device with three registers.        *)
(***************************************************************************)
EXTENDS MdioService

Low == {0}                  \* an ordinary word
High == {15}                \* the RESET command
All == {0, 15}              \* FFFF

Plain(phy, count) ==
    [phy |-> phy, count |-> count, policy |-> "blacklist", whitelist |-> <<>>,
     blacklist |-> <<>>, settings |-> <<>>, autopoll |-> FALSE, regs |-> <<>>]
Preset(phy, count) == [Plain(phy, count) EXCEPT !.settings = <<[reg |-> 1, val |-> Low]>>]
Polled(phy, count, regs) == [Plain(phy, count) EXCEPT !.autopoll = TRUE, !.regs = regs]

\* A device that moves between two addresses, with its settings, another list
\* of polled registers and another policy there, while the host resets it,
\* tasks read and write it, and publications fail.
Home == [Preset(0, 3) EXCEPT !.autopoll = TRUE, !.regs = <<0, 2>>]
MovingBoot == [d \in Dev |-> Home]
MovingConfigs == {Home, Polled(1, 3, <<1>>)}
MovingReplies == {Low, All}
MovingHost == {<< <<0, 0>>, High >>}
MovingWrites == {<<1, Low>>}
MovingRules == {[reg |-> 1, val |-> {}, mask |-> {}]}
AllFail == {{}, Regs}
NoneFails == {{}}
NoConfigs == {}
NoRules == {}
NoWrites == {}

\* Two devices, polled and probed.
TwoBoot == [d \in Dev |-> IF d = 0 THEN Polled(0, 3, <<0>>) ELSE Plain(1, 3)]
TwoHost == {<< <<0, 0>>, Low >>, << <<1, 1>>, Low >>}
TwoReplies == {Low}
=============================================================================
