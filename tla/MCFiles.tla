------------------------------- MODULE MCFiles -------------------------------
(* The users' side of the board: the commands that change files, the DCP2   *)
(* file service and the consoles, none of which shares state with another   *)
(* here: part says which of them a behaviour is about.                      *)
EXTENDS FileOps, FileTransfer, Console

CONSTANT Parts
VARIABLE part

Tidy(f) == [o \in Objects |-> IF o \in DOMAIN f THEN f[o] ELSE None]
Root == <<>> :> Dir
Some == Root @@ (<<"a">> :> Dir) @@ (<<"a", "b">> :> File(<<0, 0>>)) @@ (<<"b">> :> File(<<0, 0>>))
Other == Root @@ (<<"b">> :> Dir)
MCStarts == {[v \in Volumes |-> Tidy(IF v = "flash" THEN Some ELSE x)] : x \in {Other}}
At(v, p) == [vol |-> v, p |-> [i \in DOMAIN p |-> <<p[i], "lower">>]]
MCSources == {At("flash", <<"a">>), At("flash", <<"b">>), At("flash", <<"a", "b">>), At("card", <<"b">>)}
MCUpper == {[vol |-> "flash", p |-> <<<<"b", "upper">>>>]}
MCTargets == {At("flash", <<>>), At("flash", <<"a">>), At("flash", <<"b">>), At("flash", <<"a", "a">>), At("card", <<>>), At("card", <<"b">>)}

MCLayout == [d \in {"/", "s"} |-> IF d = "/" THEN <<"f", "s">> ELSE <<"g">>]

MCCommands == {<<"a", "b">>, <<"a", "c">>}
MCListing == (<<>> :> {<<"b", "/">>}) @@ (<<"b", "/">> :> {<<"a">>})

(* The initial choices of a part that is not looked at.                     *)
Settled == /\ part # "commands" => disk = CHOOSE t \in Starts : TRUE
           /\ part # "transfer" => \A f \in StoredFiles : media[f].size = 0
           /\ part # "console" => port = CHOOSE p \in Ports : TRUE

FilesInit == /\ part \in Parts
             /\ Init /\ TransferInit /\ ConsoleInit /\ Settled
FilesNext ==
    /\ UNCHANGED part
    /\ \/ part = "commands" /\ Next         /\ UNCHANGED <<xfervars, convars>>
       \/ part = "transfer" /\ TransferNext /\ UNCHANGED <<vars, convars>>
       \/ part = "console"  /\ ConsoleNext  /\ UNCHANGED <<vars, xfervars>>
FilesSpec == FilesInit /\ [][FilesNext]_<<part, vars, xfervars, convars>>
=============================================================================
