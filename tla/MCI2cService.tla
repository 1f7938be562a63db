--------------------------- MODULE MCI2cService ---------------------------
(* Small instances of I2cService for TLC.                                  *)
EXTENDS I2cService

Open == [mode |-> "blacklist", whitelist |-> {}, blacklist |-> {}]
Closed == [mode |-> "whitelist", whitelist |-> {}, blacklist |-> {}]
OneRule == [mode |-> "whitelist", whitelist |-> {<<0, 1>>}, blacklist |-> {}]

\* The device moves between the addresses under an open policy.
Moves == [addr : Addresses, policy : {Open}]

\* The device stays and its policy is replaced.
PolicyChanges == [addr : Addresses, policy : {Open, Closed, OneRule}]

\* Rules the edits name: two of the device's, one beyond its registers.
SomeRules == {<<0, 0>>, <<0, 1>>, <<RegCount, 0>>}

=============================================================================
