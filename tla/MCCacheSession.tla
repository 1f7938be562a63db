--------------------------- MODULE MCCacheSession ---------------------------
(* Small instances of CacheSession for TLC.                                *)
EXTENDS CacheSession

CONSTANTS temp, phy

Catalog(name, count, entry) ==
    [name |-> name, count |-> count, presence |-> "unknown",
     entries |-> [i \in Resources |-> entry]]

\* One device whose catalog may shrink and be seeded from its settings.
OneDevice == {Catalog(temp, 2, Empty), Catalog(temp, 1, Entry(TRUE, 1))}

\* Two devices that share the journal; temp takes two pages, phy one.
TwoDevices == {Catalog(temp, 2, Empty), Catalog(phy, 1, Empty)}
=============================================================================
