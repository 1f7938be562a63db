--------------------------- MODULE PlatformProofs ---------------------------
(***************************************************************************)
(* Proofs about the platform below the services.                           *)
(*                                                                         *)
(* First the cores in the programmable logic and their drivers: the driver *)
(* of the I2C master core (I2cMasterHw), the board as an I2C slave         *)
(* (I2cSlave), the driver of the MDIO core (MdioCore) and the SD core with *)
(* its service (SdService).                                                *)
(*                                                                         *)
(* The slave's three properties rest on one invariant, SlaveInv.  Two of   *)
(* its parts hold of any host: WindowFits, that a frame which was not put  *)
(* into a window in use is what the window and the task hold, and          *)
(* Disarming, that with no pointer left the last event on the way takes    *)
(* the permission.  Ordered holds of a calm one, and there the difficult   *)
(* part is Pipeline: at most one frame, one read request and one end are   *)
(* on the way, in this order, so a queue of three events never overflows.  *)
(* SdInv says of the SD service that the plan of commands in progress      *)
(* reads back what it wrote, and that everything compared so far still     *)
(* holds.                                                                  *)
(*                                                                         *)
(* Then what the images store: the SD card of the processor (SdRaw) and    *)
(* the serial flash (QspiFlash), what follows for the media of the         *)
(* platform together with the SD core, and the configurations of the       *)
(* Neutrino image (NeutrinoRuntime) and of the FreeRTOS image              *)
(* (ConfigStore).                                                          *)
(*                                                                         *)
(* CardInv: status bits belong to the transfer the request waits for,      *)
(* because an abandoned one keeps the inhibit bits set; what it may still  *)
(* write is not relied on.  FlashInv: in the middle of a sector rewrite    *)
(* what is known of the sector is in the copy, everywhere else it is on    *)
(* the chip.  RuntimeInv: a runtime that is migrating or ready has the     *)
(* service and the slave in step with its store.  CsInv: a configuration   *)
(* file is written over nothing that a profile still needs, because until  *)
(* a save is done the old profile is in its file or its backup, and a      *)
(* start that goes on has first put every backup back.                     *)
(***************************************************************************)
EXTENDS MCPlatform, RingArithmetic, SequenceTheorems, TLAPS

----------------------------------------------------------------------------
(* The master.  HwInv says at every step of transfer_locked what the core  *)
(* still holds.  A read is honest whatever is left of an earlier write:    *)
(* its command is the last of the FIFO, and only it announces bytes after  *)
(* the flags were cleared (ReadOwn).  That a write is taken, and that      *)
(* nothing stays behind, holds as long as no write was taken for done on a *)
(* CSR that was idle because the core had not yet acted (CoreOwed).        *)

HwWaits == hwat \in {"csr", "irq", "late"}
Entries == [cmd : {"pointer", "read", "write"}, call : Nat]
HwTypeOK ==
    /\ hwcall \in {"none", "read", "write"}
    /\ hwat \in {"idle", "ready", "clear", "push", "start", "csr", "irq", "late", "copy"}
    /\ hwcall = "none" <=> hwat = "idle"
    /\ attempt \in 0 .. HwAttempts - 1
    /\ free \in BOOLEAN /\ asked \in BOOLEAN /\ early \in BOOLEAN
    /\ core_state \in {"idle", "runs", "ends"}
    /\ publishing \in Nat /\ bram \in Nat /\ calls \in Nat /\ effects \in Nat
FifoOK == fifo \in Seq(Entries) /\ \A i \in 1 .. Len(fifo) : fifo[i].call <= calls

\* What an early write has left is a write: the read command and its pointer
\* are of the present call, and so are bytes on their way and, once the flags
\* are cleared, an announcement.
ReadOwn ==
    /\ \A i \in 1 .. Len(fifo) : fifo[i].cmd # "write" =>
          hwcall = "read" /\ (HwWaits \/ At("start")) /\ fifo[i].call = calls
    /\ \A i \in 1 .. Len(fifo) : fifo[i].cmd = "read" => i = Len(fifo)
    /\ publishing # 0 =>
          publishing = calls /\ hwcall = "read" /\ (HwWaits \/ At("start")) /\ fifo = <<>>
    /\ "DATA_VALID" \in flags /\ hwat \notin {"idle", "ready", "clear"} =>
          hwcall = "read" /\ ~At("push") /\ bram = calls /\ publishing = 0 /\ fifo = <<>>
    /\ At("copy") => hwcall = "read" /\ "DATA_VALID" \in flags

\* A write is taken at most once per attempt, because an attempt that fails
\* resets the core.
WriteOnce ==
    hwcall = "write" =>
        /\ hwat \in {"ready", "clear", "push"} =>
              effects <= attempt /\ \A i \in 1 .. Len(fifo) : fifo[i].call # calls
        /\ HwWaits \/ At("start") =>
              /\ effects <= attempt + 1
              /\ \A i \in 1 .. Len(fifo) : fifo[i].call = calls => i = Len(fifo) /\ effects <= attempt

\* Without an early write the core owes the driver the present call only:
\* nothing between the calls, the commands in a known order while one waits.
CoreOwed ==
    ~early =>
        /\ hwat \in {"idle", "ready", "clear", "push"} => CoreEmpty
        /\ hwat \in {"clear", "push", "start"} => core_state = "idle"
        /\ At("start") => fifo = Headers(hwcall, calls) /\ ~asked /\ publishing = 0
        /\ HwWaits /\ hwcall = "write" =>
             /\ publishing = 0
             /\ fifo \in {<<>>, Headers("write", calls)}
             /\ fifo # <<>> => (asked <=> core_state = "idle") /\ core_state # "ends"
             /\ fifo = <<>> =>
                   ~asked /\ core_state # "runs" /\ (effects >= 1 \/ "ERR_ACK" \in flags)
             /\ At("irq") /\ free => fifo = <<>>
        /\ (HwWaits \/ At("copy")) /\ hwcall = "read" =>
             /\ fifo \in {<<>>, Tail(Headers("read", calls)), Headers("read", calls)}
             /\ asked => fifo = Headers("read", calls) /\ core_state = "idle"

ResultHonest ==
    /\ hwresult.ok /\ hwresult.kind = "read" => hwresult.bytes = hwresult.call
    /\ At("idle") /\ early => hwresult.ok
    /\ At("idle") /\ ~early /\ hwresult.ok /\ hwresult.kind = "write" =>
          hwresult.effects \in 1 .. HwAttempts

HwInv == HwTypeOK /\ FifoOK /\ ReadOwn /\ WriteOnce /\ CoreOwed /\ ResultHonest

\* The commands of a call, and what is left of them after the first.
LEMMA HeadersOf ==
    ASSUME NEW nr \in Nat
    PROVE  LET r == Headers("read", nr)  w == Headers("write", nr) IN
           /\ r \in Seq(Entries) /\ Len(r) = 2 /\ r # <<>> /\ Tail(r) \in Seq(Entries)
           /\ r[1] = [cmd |-> "pointer", call |-> nr] /\ r[2] = [cmd |-> "read", call |-> nr]
           /\ Len(Tail(r)) = 1 /\ Tail(r) # <<>> /\ Tail(r)[1] = r[2] /\ Tail(Tail(r)) = <<>>
           /\ w \in Seq(Entries) /\ Len(w) = 1 /\ w # <<>> /\ Tail(w) = <<>>
           /\ w[1] = [cmd |-> "write", call |-> nr]
           /\ Tail(r) # r
<1>1. \A e, f \in Entries : /\ <<e, f>> \in Seq(Entries) /\ Len(<<e, f>>) = 2
                            /\ Tail(<<e, f>>) = <<f>> /\ <<e, f>>[1] = e /\ <<e, f>>[2] = f
  OBVIOUS
<1>2. \A e \in Entries : <<e>> \in Seq(Entries) /\ Len(<<e>>) = 1 /\ Tail(<<e>>) = <<>> /\ <<e>>[1] = e
  OBVIOUS
<1>3. [cmd |-> "pointer", call |-> nr] \in Entries /\ [cmd |-> "read", call |-> nr] \in Entries
      /\ [cmd |-> "write", call |-> nr] \in Entries
  BY DEF Entries
<1>4. Len(<<>>) = 0
  OBVIOUS
<1> QED
  BY <1>1, <1>2, <1>3, <1>4 DEF Headers

\* What push_commands adds to the FIFO: t is s with the commands of a call.
Added(t, s, kind, nr) ==
    \A i \in 1 .. Len(t) :
       \/ i \in 1 .. Len(s) /\ t[i] = s[i] /\ i # Len(t)
       \/ /\ t[i].call = nr
          /\ kind = "write" => t[i].cmd = "write" /\ i = Len(t)
          /\ t[i].cmd = "read" => i = Len(t)
LEMMA Pushed ==
    ASSUME NEW s \in Seq(Entries), NEW kind \in {"read", "write"}, NEW nr \in Nat,
           NEW t, t = s \o Headers(kind, nr)
    PROVE  /\ t \in Seq(Entries)
           /\ s = <<>> => t = Headers(kind, nr)
           /\ Added(t, s, kind, nr)
<1> DEFINE c == Headers(kind, nr)
<1>1. c \in Seq(Entries) /\ Len(c) = IF kind = "read" THEN 2 ELSE 1
  BY HeadersOf
<1>2. \A i \in 1 .. Len(c) :
         /\ c[i].call = nr /\ (kind = "write" => c[i].cmd = "write")
         /\ c[i].cmd = "read" => i = Len(c)
  <2>1. CASE kind = "read"
    <3>1. /\ c[1].call = nr /\ c[1].cmd = "pointer" /\ c[2].call = nr /\ c[2].cmd = "read"
          /\ Len(c) = 2
      <4>1. c = Headers("read", nr)
        BY <2>1
      <4>2. /\ c[1] = [cmd |-> "pointer", call |-> nr] /\ c[2] = [cmd |-> "read", call |-> nr]
            /\ Len(c) = 2
        BY <4>1, HeadersOf
      <4> QED
        BY <4>2
    <3> HIDE DEF c
    <3> QED
      BY <2>1, <3>1
  <2>2. CASE kind = "write"
    <3>1. c[1].call = nr /\ c[1].cmd = "write" /\ Len(c) = 1
      <4>1. c = Headers("write", nr)
        BY <2>2
      <4>2. c[1] = [cmd |-> "write", call |-> nr] /\ Len(c) = 1
        BY <4>1, HeadersOf
      <4> QED
        BY <4>2
    <3> HIDE DEF c
    <3> QED
      BY <2>2, <3>1
  <2> QED
    BY <2>1, <2>2
<1>0. t = s \o c
  OBVIOUS
<1>3. s = <<>> => t = c
  BY <1>0, <1>1, ConcatEmptySeq
<1> HIDE DEF c
<1>4. /\ t \in Seq(Entries) /\ Len(t) = Len(s) + Len(c) /\ Len(s) \in Nat /\ Len(c) \in {1, 2}
      /\ \A i \in 1 .. Len(t) : t[i] = IF i <= Len(s) THEN s[i] ELSE c[i - Len(s)]
  <2>1. Len(s) \in Nat /\ Len(c) \in {1, 2}
    BY <1>1, LenProperties
  <2>2. \A i \in 1 .. Len(s) + Len(c) : t[i] = IF i <= Len(s) THEN s[i] ELSE c[i - Len(s)]
    <3>1. \A i \in 1 .. Len(s) + Len(c) :
             (s \o c)[i] = IF i <= Len(s) THEN s[i] ELSE c[i - Len(s)]
      BY <1>1, ConcatProperties
    <3> QED
      BY <1>0, <3>1
  <2>3. t \in Seq(Entries) /\ Len(t) = Len(s) + Len(c)
    BY <1>0, <1>1, ConcatProperties
  <2> QED
    BY <2>1, <2>2, <2>3
<1>m. \A n, m \in Nat, k \in {1, 2}, i \in Int :
         i \in 1 .. n /\ n = m + k /\ i <= m => i \in 1 .. m /\ i # n
  OBVIOUS
<1>5. ASSUME NEW i \in 1 .. Len(t), ~(i <= Len(s))
      PROVE  i - Len(s) \in 1 .. Len(c) /\ t[i] = c[i - Len(s)]
                /\ (i - Len(s) = Len(c) => i = Len(t)) /\ (kind = "write" => i = Len(t))
  BY <1>1, <1>4, <1>5
<1>6. ASSUME NEW i \in 1 .. Len(t), i <= Len(s)
      PROVE  i \in 1 .. Len(s) /\ t[i] = s[i] /\ i # Len(t)
  <2>1. i \in 1 .. Len(s) /\ i # Len(t)
    <3>1. /\ Len(t) \in Nat /\ i \in Int /\ Len(t) = Len(s) + Len(c)
          /\ Len(s) \in Nat /\ Len(c) \in {1, 2}
      BY <1>4
    <3> QED
      BY <1>m, <1>6, <3>1, Zenon
  <2>2. t[i] = s[i]
    BY <1>4, <1>6, Zenon
  <2> QED
    BY <2>1, <2>2
<1>7. Added(t, s, kind, nr)
  BY <1>2, <1>5, <1>6 DEF Added
<1>8. t \in Seq(Entries)
  BY <1>4
<1> QED
  BY <1>3, <1>7, <1>8, Zenon DEF c

\* What is left of the FIFO when the core has taken a command.
LEMMA Taken ==
    ASSUME NEW s \in Seq(Entries), s # <<>>
    PROVE  /\ Tail(s) \in Seq(Entries) /\ Len(s) \in Nat \ {0}
           /\ \A i \in 1 .. Len(Tail(s)) :
                 /\ i + 1 \in 1 .. Len(s) /\ Tail(s)[i] = s[i + 1]
                 /\ i + 1 = Len(s) => i = Len(Tail(s))
           /\ Head(s) = s[1] /\ 1 \in 1 .. Len(s)
           /\ Len(s) = 1 => Tail(s) = <<>>
<1>1. /\ Tail(s) \in Seq(Entries) /\ Len(Tail(s)) = Len(s) - 1 /\ Len(s) \in Nat \ {0}
      /\ \A i \in 1 .. Len(Tail(s)) : Tail(s)[i] = s[i + 1]
  BY HeadTailProperties, EmptySeq
<1>2. ASSUME Len(s) = 1, Tail(s) # <<>> PROVE FALSE
  <2>1. Len(Tail(s)) \in Nat \ {0}
    BY <1>1, <1>2, EmptySeq
  <2> QED
    BY <1>1, <1>2, <2>1
<1>3. ASSUME NEW i \in 1 .. Len(Tail(s))
      PROVE  i + 1 \in 1 .. Len(s) /\ Tail(s)[i] = s[i + 1] /\ (i + 1 = Len(s) => i = Len(Tail(s)))
  <2>1. Len(Tail(s)) = Len(s) - 1 /\ Len(s) \in Nat \ {0} /\ i \in Int
    BY <1>1
  <2>2. \A n \in Nat \ {0}, m \in Int, k \in Int :
           m = n - 1 /\ k \in 1 .. m => k + 1 \in 1 .. n /\ (k + 1 = n => k = m)
    OBVIOUS
  <2>3. Len(Tail(s)) \in Int
    BY <2>1
  <2>4. i + 1 \in 1 .. Len(s) /\ (i + 1 = Len(s) => i = Len(Tail(s)))
    BY <2>1, <2>2, <2>3, Zenon
  <2> QED
    BY <1>1, <2>4, Zenon
<1>4. Head(s) = s[1] /\ 1 \in 1 .. Len(s)
  BY <1>1
<1>5. Tail(s) \in Seq(Entries) /\ Len(s) \in Nat \ {0}
  BY <1>1
<1> QED
  BY <1>2, <1>3, <1>4, <1>5, Zenon

\* The master at power-on satisfies its invariant.
LEMMA HwStarts == HwInit => HwInv
<1> SUFFICES ASSUME HwInit PROVE HwInv
  OBVIOUS
<1>1. HwTypeOK
  <2>1. 0 \in 0 .. HwAttempts - 1
    BY HwAssumption
  <2> QED
    BY <2>1 DEF HwInit, HwTypeOK
<1>2. fifo = <<>> /\ fifo \in Seq(Entries) /\ Len(fifo) = 0
  BY EmptySeq DEF HwInit
<1>3. FifoOK /\ ReadOwn /\ WriteOnce
  BY <1>2 DEF HwInit, FifoOK, ReadOwn, WriteOnce, HwWaits, At
<1>4. CoreOwed /\ ResultHonest
  BY DEF HwInit, CoreOwed, CoreEmpty, ResultHonest, HwWaits, At
<1> QED
  BY <1>1, <1>3, <1>4 DEF HwInv

\* Every step of driver, core and bus keeps the invariant.
LEMMA HwKeeps == HwInv /\ [HwNext]_hwvars => HwInv'
<1> SUFFICES ASSUME HwInv, [HwNext]_hwvars PROVE HwInv'
  OBVIOUS
<1> USE HwAssumption
<1>a. <<>> \in Seq(Entries) /\ Len(<<>>) = 0
  OBVIOUS
<1>b. /\ fifo \in Seq(Entries) /\ Len(fifo) \in Nat /\ calls \in Nat
      /\ \A i \in 1 .. Len(fifo) : fifo[i].cmd \in {"pointer", "read", "write"} /\ fifo[i].call \in Nat
  <2>1. fifo \in Seq(Entries) /\ calls \in Nat
    BY DEF HwInv, HwTypeOK, FifoOK
  <2>2. Len(fifo) \in Nat /\ \A i \in 1 .. Len(fifo) : fifo[i] \in Entries
    BY <2>1
  <2> QED
    BY <2>1, <2>2 DEF Entries
<1>1. CASE Call
  <2>1. HwTypeOK'
    <3>1. attempt' \in 0 .. HwAttempts - 1
      BY <1>1 DEF HwInv, HwTypeOK, Call
    <3>2. /\ hwcall' \in {"none", "read", "write"} /\ (hwcall' = "none" <=> hwat' = "idle")
          /\ hwat' \in {"idle", "ready", "clear", "push", "start", "csr", "irq", "late", "copy"}
      BY <1>1 DEF HwInv, HwTypeOK, At, To, Call
    <3>3. asked' \in BOOLEAN /\ early' \in BOOLEAN
      BY <1>1 DEF HwInv, HwTypeOK, Call
    <3>4. free' \in BOOLEAN
      BY <1>1 DEF HwInv, HwTypeOK, Call
    <3>5. /\ core_state' \in {"idle", "runs", "ends"}
          /\ publishing' \in Nat /\ bram' \in Nat /\ calls' \in Nat /\ effects' \in Nat
      BY <1>1 DEF HwInv, HwTypeOK, Call
    <3> QED
      BY <3>1, <3>2, <3>3, <3>4, <3>5 DEF HwTypeOK
  <2>2. FifoOK'
    <3>1. CASE fifo' = fifo
      BY <1>1, <1>b, <3>1 DEF HwInv, FifoOK, Call
    <3>2. CASE fifo' = <<>>
      BY <3>2, <1>a DEF FifoOK
    <3> QED
      BY <1>1, <3>1, <3>2 DEF Call
  <2>3. ReadOwn'
    BY <1>1, <1>a, <1>b DEF HwInv, ReadOwn, HwWaits, At, To, Call
  <2>4. WriteOnce'
    BY <1>1, <1>a, <1>b DEF HwInv, HwTypeOK, FifoOK, WriteOnce, HwWaits, At, To, Call
  <2>5. CoreOwed'
    BY <1>1, <1>b, HeadersOf DEF HwInv, ReadOwn, CoreOwed, HwWaits, CoreEmpty, At, To, Call
  <2>6. ResultHonest'
    BY <1>1, <1>a, <1>b DEF HwInv, HwTypeOK, WriteOnce, CoreOwed, ResultHonest, HwWaits, At,
         To, Call
  <2> QED
    BY <2>1, <2>2, <2>3, <2>4, <2>5, <2>6 DEF HwInv
<1>2. CASE wait_ready
  <2>1. HwTypeOK'
    <3>1. attempt' \in 0 .. HwAttempts - 1
      BY <1>2 DEF HwInv, HwTypeOK, wait_ready, Again, recover, HwReturn, corevars
    <3>2. /\ hwcall' \in {"none", "read", "write"} /\ (hwcall' = "none" <=> hwat' = "idle")
          /\ hwat' \in {"idle", "ready", "clear", "push", "start", "csr", "irq", "late", "copy"}
      BY <1>2 DEF HwInv, HwTypeOK, At, To, wait_ready, Again, recover, HwReturn, corevars
    <3>3. asked' \in BOOLEAN /\ early' \in BOOLEAN
      BY <1>2 DEF HwInv, HwTypeOK, wait_ready, Again, recover, HwReturn, corevars
    <3>4. free' \in BOOLEAN
      BY <1>2 DEF HwInv, HwTypeOK, wait_ready, Again, recover, HwReturn, corevars
    <3>5. /\ core_state' \in {"idle", "runs", "ends"}
          /\ publishing' \in Nat /\ bram' \in Nat /\ calls' \in Nat /\ effects' \in Nat
      BY <1>2 DEF HwInv, HwTypeOK, wait_ready, Again, recover, HwReturn, corevars
    <3> QED
      BY <3>1, <3>2, <3>3, <3>4, <3>5 DEF HwTypeOK
  <2>2. FifoOK'
    <3>1. CASE fifo' = fifo
      BY <1>2, <1>b, <3>1 DEF HwInv, FifoOK, wait_ready, Again, recover, HwReturn, corevars
    <3>2. CASE fifo' = <<>>
      BY <3>2, <1>a DEF FifoOK
    <3> QED
      BY <1>2, <3>1, <3>2 DEF wait_ready, Again, recover, HwReturn, corevars
  <2>3. ReadOwn'
    BY <1>2, <1>a, <1>b DEF HwInv, ReadOwn, HwWaits, At, To, wait_ready, Again, recover,
         HwReturn, corevars
  <2>4. WriteOnce'
    BY <1>2, <1>a, <1>b DEF HwInv, HwTypeOK, WriteOnce, HwWaits, At, To, wait_ready, Again,
         recover, HwReturn, corevars
  <2>5. CoreOwed'
    BY <1>2, <1>b, HeadersOf DEF HwInv, ReadOwn, CoreOwed, HwWaits, CoreEmpty, At, To,
         wait_ready, Again, recover, HwReturn, corevars
  <2>6. ResultHonest'
    BY <1>2, <1>a, <1>b DEF HwInv, HwTypeOK, WriteOnce, CoreOwed, ResultHonest, HwWaits, At,
         To, wait_ready, Again, recover, HwReturn, corevars
  <2> QED
    BY <2>1, <2>2, <2>3, <2>4, <2>5, <2>6 DEF HwInv
<1>3. CASE clear_irq
  <2>1. HwTypeOK'
    BY <1>3 DEF HwInv, HwTypeOK, At, To, clear_irq, corevars
  <2>2. FifoOK'
    <3>1. CASE fifo' = fifo
      BY <1>3, <1>b, <3>1 DEF HwInv, FifoOK, clear_irq, corevars
    <3>2. CASE fifo' = <<>>
      BY <3>2, <1>a DEF FifoOK
    <3> QED
      BY <1>3, <3>1, <3>2 DEF clear_irq, corevars
  <2>3. ReadOwn'
    BY <1>3, <1>a, <1>b DEF HwInv, ReadOwn, HwWaits, At, To, clear_irq, corevars
  <2>4. WriteOnce'
    BY <1>3, <1>a, <1>b DEF HwInv, HwTypeOK, WriteOnce, HwWaits, At, To, clear_irq, corevars
  <2>5. CoreOwed'
    BY <1>3, <1>b, HeadersOf DEF HwInv, ReadOwn, CoreOwed, HwWaits, CoreEmpty, At, To,
         clear_irq, corevars
  <2>6. ResultHonest'
    BY <1>3, <1>a, <1>b DEF HwInv, HwTypeOK, WriteOnce, CoreOwed, ResultHonest, HwWaits, At,
         To, clear_irq, corevars
  <2> QED
    BY <2>1, <2>2, <2>3, <2>4, <2>5, <2>6 DEF HwInv
<1>4. CASE push_commands
  <2>a. hwcall \in {"read", "write"} /\ fifo' = fifo \o Headers(hwcall, calls) /\ calls' = calls
    BY <1>4 DEF push_commands, At, HwInv, HwTypeOK
  <2>b. fifo' \in Seq(Entries) /\ (fifo = <<>> => fifo' = Headers(hwcall, calls))
    BY <1>b, <2>a, Pushed
  <2>c. Added(fifo', fifo, hwcall, calls)
    BY <1>b, <2>a, Pushed
  <2>1. HwTypeOK'
    BY <1>4 DEF HwInv, HwTypeOK, At, To, push_commands
  <2>2. FifoOK'
    BY <1>b, <2>a, <2>b, <2>c DEF HwInv, FifoOK, Added
  <2>3. ReadOwn'
    BY <1>4, <1>a, <1>b, <2>a, <2>b, <2>c DEF HwInv, ReadOwn, HwWaits, At, To, push_commands,
         Added
  <2>4. WriteOnce'
    <3>1. hwcall = "write" => effects <= attempt /\ \A i \in 1 .. Len(fifo) : fifo[i].call # calls
      BY <1>4 DEF HwInv, WriteOnce, At, push_commands
    <3>2. /\ UNCHANGED <<hwcall, attempt, calls, effects>> /\ hwat' = "start"
          /\ effects \in Nat /\ attempt \in Nat
      BY <1>4 DEF HwInv, HwTypeOK, To, push_commands
    <3>3. hwcall = "write" => \A i \in 1 .. Len(fifo') : fifo'[i].call = calls => i = Len(fifo')
      BY <2>c, <3>1 DEF Added
    <3> QED
      BY <3>1, <3>2, <3>3 DEF WriteOnce, HwWaits, At
  <2>5. CoreOwed'
    BY <1>4, <2>b DEF HwInv, CoreOwed, HwWaits, CoreEmpty, At, To, push_commands
  <2>6. ResultHonest'
    BY <1>4 DEF HwInv, HwTypeOK, ResultHonest, HwWaits, At, To, push_commands
  <2> QED
    BY <2>1, <2>2, <2>3, <2>4, <2>5, <2>6 DEF HwInv
<1>5. CASE start
  <2>1. HwTypeOK'
    BY <1>5 DEF HwInv, HwTypeOK, At, To, start
  <2>2. FifoOK'
    <3>1. CASE fifo' = fifo
      BY <1>5, <1>b, <3>1 DEF HwInv, FifoOK, start
    <3>2. CASE fifo' = <<>>
      BY <3>2, <1>a DEF FifoOK
    <3> QED
      BY <1>5, <3>1, <3>2 DEF start
  <2>3. ReadOwn'
    BY <1>5, <1>a, <1>b DEF HwInv, ReadOwn, HwWaits, At, To, start
  <2>4. WriteOnce'
    BY <1>5, <1>a, <1>b DEF HwInv, HwTypeOK, WriteOnce, HwWaits, At, To, start
  <2>5. CoreOwed'
    BY <1>5, <1>b, HeadersOf DEF HwInv, ReadOwn, CoreOwed, HwWaits, CoreEmpty, At, To, start
  <2>6. ResultHonest'
    BY <1>5, <1>a, <1>b DEF HwInv, HwTypeOK, WriteOnce, CoreOwed, ResultHonest, HwWaits, At,
         To, start
  <2> QED
    BY <2>1, <2>2, <2>3, <2>4, <2>5, <2>6 DEF HwInv
<1>6. CASE read_csr
  <2>1. HwTypeOK'
    BY <1>6 DEF HwInv, HwTypeOK, At, To, read_csr
  <2>2. FifoOK'
    <3>1. CASE fifo' = fifo
      BY <1>6, <1>b, <3>1 DEF HwInv, FifoOK, read_csr
    <3>2. CASE fifo' = <<>>
      BY <3>2, <1>a DEF FifoOK
    <3> QED
      BY <1>6, <3>1, <3>2 DEF read_csr
  <2>3. ReadOwn'
    BY <1>6, <1>a, <1>b DEF HwInv, ReadOwn, HwWaits, At, To, read_csr
  <2>4. WriteOnce'
    BY <1>6, <1>a, <1>b DEF HwInv, HwTypeOK, WriteOnce, HwWaits, At, To, read_csr
  <2>5. CoreOwed'
    BY <1>6, <1>b, HeadersOf DEF HwInv, ReadOwn, CoreOwed, HwWaits, CoreEmpty, At, To, read_csr
  <2>6. ResultHonest'
    BY <1>6, <1>a, <1>b DEF HwInv, HwTypeOK, WriteOnce, CoreOwed, ResultHonest, HwWaits, At,
         To, read_csr
  <2> QED
    BY <2>1, <2>2, <2>3, <2>4, <2>5, <2>6 DEF HwInv
<1>7. CASE read_irq
  <2>1. HwTypeOK'
    <3>1. attempt' \in 0 .. HwAttempts - 1
      BY <1>7 DEF HwInv, HwTypeOK, read_irq, OnNack, HwComplete, Again, recover, HwReturn,
           corevars
    <3>2. /\ hwcall' \in {"none", "read", "write"} /\ (hwcall' = "none" <=> hwat' = "idle")
          /\ hwat' \in {"idle", "ready", "clear", "push", "start", "csr", "irq", "late", "copy"}
      BY <1>7 DEF HwInv, HwTypeOK, At, To, read_irq, OnNack, HwComplete, Again, recover,
           HwReturn, corevars
    <3>3. asked' \in BOOLEAN /\ early' \in BOOLEAN
      BY <1>7 DEF HwInv, HwTypeOK, read_irq, OnNack, HwComplete, Again, recover, HwReturn,
           corevars
    <3>4. free' \in BOOLEAN
      BY <1>7 DEF HwInv, HwTypeOK, read_irq, OnNack, HwComplete, Again, recover, HwReturn,
           corevars
    <3>5. /\ core_state' \in {"idle", "runs", "ends"}
          /\ publishing' \in Nat /\ bram' \in Nat /\ calls' \in Nat /\ effects' \in Nat
      BY <1>7 DEF HwInv, HwTypeOK, read_irq, OnNack, HwComplete, Again, recover, HwReturn,
           corevars
    <3> QED
      BY <3>1, <3>2, <3>3, <3>4, <3>5 DEF HwTypeOK
  <2>2. FifoOK'
    <3>1. CASE fifo' = fifo
      BY <1>7, <1>b, <3>1 DEF HwInv, FifoOK, read_irq, OnNack, HwComplete, Again, recover,
           HwReturn, corevars
    <3>2. CASE fifo' = <<>>
      BY <3>2, <1>a DEF FifoOK
    <3> QED
      BY <1>7, <3>1, <3>2 DEF read_irq, OnNack, HwComplete, Again, recover, HwReturn, corevars
  <2>3. ReadOwn'
    <3>1. CASE recover /\ hwat' \in {"idle", "ready"}
      BY <1>7, <1>a, <3>1 DEF HwInv, ReadOwn, recover, At, HwWaits, read_irq
    <3>2. CASE /\ UNCHANGED corevars /\ hwat' \in {"idle", "late", "copy"}
               /\ (hwcall = "read" => hwcall' = "read" /\ hwat' # "idle")
               /\ (hwat' = "copy" => hwcall' = "read" /\ "DATA_VALID" \in flags)
      <4>1. /\ UNCHANGED <<fifo, publishing, flags, bram, calls>> /\ At("irq")
            /\ hwat' \in {"idle", "late", "copy"}
        BY <1>7, <3>2 DEF corevars, read_irq
      <4>2. hwcall # "read" => publishing = 0 /\ \A i \in 1 .. Len(fifo) : fifo[i].cmd = "write"
        BY <4>1 DEF HwInv, ReadOwn
      <4>3. hwcall = "read" => HwWaits' \/ hwat' = "copy"
        BY <4>1, <3>2 DEF HwWaits
      <4>4. hwat' = "copy" => publishing = 0 /\ fifo = <<>> /\ hwcall' = "read"
        BY <4>1, <3>2 DEF HwInv, ReadOwn, At
      <4> QED
        BY <1>a, <4>1, <4>2, <4>3, <4>4, <3>2 DEF HwInv, ReadOwn, HwWaits, At
    <3> QED
      BY <1>7, <3>1, <3>2 DEF read_irq, OnNack, HwComplete, Again, HwReturn, To
  <2>4. WriteOnce'
    BY <1>7, <1>a, <1>b DEF HwInv, HwTypeOK, WriteOnce, HwWaits, At, To, read_irq, OnNack,
         HwComplete, Again, recover, HwReturn, corevars
  <2>5. CoreOwed'
    BY <1>7, <1>b, HeadersOf DEF HwInv, HwTypeOK, ReadOwn, CoreOwed, HwWaits, CoreEmpty, At,
         To, read_irq, OnNack, HwComplete, Again, recover, HwReturn, corevars
  <2>6. ResultHonest'
    BY <1>7, <1>a, <1>b DEF HwInv, HwTypeOK, WriteOnce, CoreOwed, ResultHonest, HwWaits, At,
         To, read_irq, OnNack, HwComplete, Again, recover, HwReturn, corevars
  <2> QED
    BY <2>1, <2>2, <2>3, <2>4, <2>5, <2>6 DEF HwInv
<1>8. CASE deadline
  <2>1. HwTypeOK'
    <3>1. attempt' \in 0 .. HwAttempts - 1
      BY <1>8 DEF HwInv, HwTypeOK, deadline, Again, recover, HwReturn, corevars
    <3>2. /\ hwcall' \in {"none", "read", "write"} /\ (hwcall' = "none" <=> hwat' = "idle")
          /\ hwat' \in {"idle", "ready", "clear", "push", "start", "csr", "irq", "late", "copy"}
      BY <1>8 DEF HwInv, HwTypeOK, At, To, deadline, Again, recover, HwReturn, corevars
    <3>3. asked' \in BOOLEAN /\ early' \in BOOLEAN
      BY <1>8 DEF HwInv, HwTypeOK, deadline, Again, recover, HwReturn, corevars
    <3>4. free' \in BOOLEAN
      BY <1>8 DEF HwInv, HwTypeOK, deadline, Again, recover, HwReturn, corevars
    <3>5. /\ core_state' \in {"idle", "runs", "ends"}
          /\ publishing' \in Nat /\ bram' \in Nat /\ calls' \in Nat /\ effects' \in Nat
      BY <1>8 DEF HwInv, HwTypeOK, deadline, Again, recover, HwReturn, corevars
    <3> QED
      BY <3>1, <3>2, <3>3, <3>4, <3>5 DEF HwTypeOK
  <2>2. FifoOK'
    <3>1. CASE fifo' = fifo
      BY <1>8, <1>b, <3>1 DEF HwInv, FifoOK, deadline, Again, recover, HwReturn, corevars
    <3>2. CASE fifo' = <<>>
      BY <3>2, <1>a DEF FifoOK
    <3> QED
      BY <1>8, <3>1, <3>2 DEF deadline, Again, recover, HwReturn, corevars
  <2>3. ReadOwn'
    BY <1>8, <1>a, <1>b DEF HwInv, ReadOwn, HwWaits, At, To, deadline, Again, recover,
         HwReturn, corevars
  <2>4. WriteOnce'
    BY <1>8, <1>a, <1>b DEF HwInv, HwTypeOK, WriteOnce, HwWaits, At, To, deadline, Again,
         recover, HwReturn, corevars
  <2>5. CoreOwed'
    BY <1>8, <1>b, HeadersOf DEF HwInv, ReadOwn, CoreOwed, HwWaits, CoreEmpty, At, To,
         deadline, Again, recover, HwReturn, corevars
  <2>6. ResultHonest'
    BY <1>8, <1>a, <1>b DEF HwInv, HwTypeOK, WriteOnce, CoreOwed, ResultHonest, HwWaits, At,
         To, deadline, Again, recover, HwReturn, corevars
  <2> QED
    BY <2>1, <2>2, <2>3, <2>4, <2>5, <2>6 DEF HwInv
<1>9. CASE copy_bytes
  <2>1. HwTypeOK'
    BY <1>9 DEF HwInv, HwTypeOK, At, To, copy_bytes, HwReturn, corevars
  <2>2. FifoOK'
    <3>1. CASE fifo' = fifo
      BY <1>9, <1>b, <3>1 DEF HwInv, FifoOK, copy_bytes, HwReturn, corevars
    <3>2. CASE fifo' = <<>>
      BY <3>2, <1>a DEF FifoOK
    <3> QED
      BY <1>9, <3>1, <3>2 DEF copy_bytes, HwReturn, corevars
  <2>3. ReadOwn'
    BY <1>9, <1>a, <1>b DEF HwInv, ReadOwn, HwWaits, At, To, copy_bytes, HwReturn, corevars
  <2>4. WriteOnce'
    BY <1>9, <1>a, <1>b DEF HwInv, HwTypeOK, WriteOnce, HwWaits, At, To, copy_bytes, HwReturn,
         corevars
  <2>5. CoreOwed'
    <3>1. hwcall = "read" /\ publishing = 0 /\ fifo = <<>>
      BY <1>9 DEF copy_bytes, HwInv, ReadOwn, At
    <3>2. ~early => ~asked
      BY <1>9, <1>b, <3>1, HeadersOf DEF copy_bytes, HwInv, CoreOwed, At
    <3> QED
      BY <1>9, <3>1, <3>2 DEF CoreOwed, CoreEmpty, HwWaits, At, To, copy_bytes, HwReturn,
           corevars
  <2>6. ResultHonest'
    BY <1>9, <1>a, <1>b DEF HwInv, HwTypeOK, ReadOwn, WriteOnce, CoreOwed, ResultHonest,
         HwWaits, At, To, copy_bytes, HwReturn, corevars
  <2> QED
    BY <2>1, <2>2, <2>3, <2>4, <2>5, <2>6 DEF HwInv
<1>10. CASE CoreStarts
  <2>1. HwTypeOK'
    BY <1>10 DEF HwInv, HwTypeOK, At, To, CoreStarts, drivervars
  <2>2. FifoOK'
    <3>1. CASE fifo' = fifo
      BY <1>10, <1>b, <3>1 DEF HwInv, FifoOK, CoreStarts, drivervars
    <3>2. CASE fifo' = <<>>
      BY <3>2, <1>a DEF FifoOK
    <3> QED
      BY <1>10, <3>1, <3>2 DEF CoreStarts, drivervars
  <2>3. ReadOwn'
    BY <1>10, <1>a, <1>b DEF HwInv, ReadOwn, HwWaits, At, To, CoreStarts, drivervars
  <2>4. WriteOnce'
    BY <1>10, <1>a, <1>b DEF HwInv, HwTypeOK, WriteOnce, HwWaits, At, To, CoreStarts, drivervars
  <2>5. CoreOwed'
    BY <1>10, <1>b, HeadersOf DEF HwInv, ReadOwn, CoreOwed, HwWaits, CoreEmpty, At, To,
         CoreStarts, drivervars
  <2>6. ResultHonest'
    BY <1>10, <1>a, <1>b DEF HwInv, HwTypeOK, WriteOnce, CoreOwed, ResultHonest, HwWaits, At,
         To, CoreStarts, drivervars
  <2> QED
    BY <2>1, <2>2, <2>3, <2>4, <2>5, <2>6 DEF HwInv
<1>11. CASE CoreRuns
  <2>a. fifo # <<>> /\ Head(fifo) = fifo[1] /\ 1 \in 1 .. Len(fifo)
    BY <1>11, <1>b, Taken DEF CoreRuns
  <2>b. /\ fifo' \in Seq(Entries) /\ (Len(fifo) = 1 => fifo' = <<>>)
        /\ \A i \in 1 .. Len(fifo') :
              /\ i + 1 \in 1 .. Len(fifo) /\ fifo'[i] = fifo[i + 1]
              /\ i + 1 = Len(fifo) => i = Len(fifo')
    <3>1. CASE fifo' = <<>>
      BY <3>1, <1>a
    <3>2. CASE fifo' = Tail(fifo)
      BY <3>2, <1>b, <2>a, Taken
    <3> QED
      BY <1>11, <3>1, <3>2 DEF CoreRuns
  <2>c. UNCHANGED <<hwcall, hwat, attempt, calls, early, hwresult, bram>>
    BY <1>11 DEF CoreRuns, drivervars
  <2>d. \/ /\ effects' = IF fifo[1].call = calls THEN effects + 1 ELSE effects
           /\ publishing' = IF fifo[1].cmd = "read" THEN fifo[1].call ELSE publishing
           /\ flags' = flags
        \/ effects' = effects /\ publishing' = publishing /\ flags' = flags \cup {"ERR_ACK"}
    BY <1>11, <2>a DEF CoreRuns
  <2>1. HwTypeOK'
    BY <1>11, <1>b, <2>a DEF HwInv, HwTypeOK, CoreRuns, drivervars
  <2>2. FifoOK'
    BY <1>b, <2>b, <2>c DEF HwInv, FifoOK
  <2>3. ReadOwn'
    <3>1. /\ \A i \in 1 .. Len(fifo') : fifo'[i].cmd # "write" =>
                hwcall = "read" /\ (HwWaits \/ At("start")) /\ fifo'[i].call = calls
          /\ \A i \in 1 .. Len(fifo') : fifo'[i].cmd = "read" => i = Len(fifo')
      <4>1. ASSUME NEW i \in 1 .. Len(fifo'), fifo'[i].cmd # "write"
            PROVE  hwcall = "read" /\ (HwWaits \/ At("start")) /\ fifo'[i].call = calls
        BY <2>b, <4>1 DEF HwInv, ReadOwn
      <4>2. ASSUME NEW i \in 1 .. Len(fifo'), fifo'[i].cmd = "read"
            PROVE  i = Len(fifo')
        BY <2>b, <4>2 DEF HwInv, ReadOwn
      <4> QED
        BY <4>1, <4>2
    <3>2. fifo[1].cmd = "read" => fifo' = <<>>
      BY <2>a, <2>b DEF HwInv, ReadOwn
    <3>3. "DATA_VALID" \in flags' <=> "DATA_VALID" \in flags
      BY <2>d
    <3> QED
      BY <1>b, <2>a, <2>c, <2>d, <3>1, <3>2, <3>3 DEF HwInv, ReadOwn, HwWaits, At
  <2>4. WriteOnce'
    <3> SUFFICES ASSUME hwcall = "write" PROVE WriteOnce'
      BY <2>c DEF WriteOnce
    <3>1. /\ effects \in Nat /\ attempt \in Nat /\ effects' \in {effects, effects + 1}
          /\ Len(fifo) \in Nat
      BY <1>b, <2>d DEF HwInv, HwTypeOK
    <3>2. hwat \in {"ready", "clear", "push"} => effects' = effects
      BY <1>b, <2>a, <2>d, <3>1 DEF HwInv, WriteOnce
    <3>3. hwat \in {"ready", "clear", "push"} => \A i \in 1 .. Len(fifo') : fifo'[i].call # calls
      BY <2>b DEF HwInv, WriteOnce
    <3>4. CASE HwWaits \/ At("start")
      <4>1. CASE fifo[1].call = calls
        <5>1. fifo' = <<>> /\ effects <= attempt
          BY <2>a, <2>b, <3>4, <4>1 DEF HwInv, WriteOnce
        <5> QED
          BY <1>a, <2>c, <3>1, <3>4, <5>1 DEF WriteOnce, HwWaits, At
      <4>2. CASE fifo[1].call # calls
        <5>1. effects' = effects
          BY <2>d, <4>2
        <5>2. effects <= attempt + 1
              /\ \A i \in 1 .. Len(fifo') : fifo'[i].call = calls => i = Len(fifo') /\ effects <= attempt
          BY <2>b, <3>4 DEF HwInv, WriteOnce
        <5> QED
          BY <2>c, <3>4, <5>1, <5>2 DEF WriteOnce, HwWaits, At
      <4> QED
        BY <4>1, <4>2
    <3> QED
      BY <2>c, <3>1, <3>2, <3>3, <3>4 DEF HwInv, WriteOnce, HwWaits, At
  <2>5. CoreOwed'
    <3> SUFFICES ASSUME ~early PROVE CoreOwed'
      BY <1>11 DEF CoreRuns, drivervars, CoreOwed
    <3>1. HwWaits \/ At("copy")
      BY <1>11, <2>a DEF CoreRuns, HwInv, HwTypeOK, CoreOwed, CoreEmpty, HwWaits, At
    <3>2. CASE hwcall = "write"
      <4>1. HwWaits /\ fifo = Headers("write", calls) /\ ~asked /\ publishing = 0
        BY <1>11, <2>a, <3>1, <3>2 DEF CoreRuns, HwInv, HwTypeOK, CoreOwed, ReadOwn, HwWaits, At
      <4>2. fifo[1] = [cmd |-> "write", call |-> calls] /\ Tail(fifo) = <<>>
        BY <4>1, <1>b, HeadersOf
      <4>3. fifo' = <<>> /\ core_state' = "ends" /\ publishing' = 0
        <5>1. fifo' = <<>> /\ core_state' = "ends"
          <6>1. Head(fifo).cmd = "write"
            BY <2>a, <4>2
          <6> QED
            BY <1>11, <4>2, <6>1 DEF CoreRuns
        <5> QED
          BY <2>d, <4>1, <4>2, <5>1
      <4>4. effects' >= 1 \/ "ERR_ACK" \in flags'
        BY <1>11, <2>a, <4>2 DEF CoreRuns, HwInv, HwTypeOK
      <4> QED
        BY <1>11, <3>2, <4>1, <4>3, <4>4 DEF CoreRuns, drivervars, CoreOwed, HwWaits,
             CoreEmpty, At
    <3>3. CASE hwcall = "read"
      <4>1. fifo \in {Tail(Headers("read", calls)), Headers("read", calls)}
        BY <1>11, <2>a, <3>1, <3>3 DEF HwInv, CoreOwed
      <4>2. fifo' \in {<<>>, Tail(Headers("read", calls))}
        BY <1>11, <1>b, <4>1, HeadersOf DEF CoreRuns
      <4>3. ~asked'
        BY <1>11, <3>1, <3>3 DEF CoreRuns, drivervars, HwInv, CoreOwed
      <4> QED
        BY <1>11, <3>1, <3>3, <4>2, <4>3 DEF CoreRuns, drivervars, CoreOwed, HwWaits,
             CoreEmpty, At
    <3> QED
      BY <3>1, <3>2, <3>3 DEF HwInv, HwTypeOK, HwWaits, At
  <2>6. ResultHonest'
    BY <1>11, <1>a, <1>b, <2>a, <2>b, <2>c, <2>d DEF HwInv, HwTypeOK, ResultHonest, HwWaits,
         At, CoreRuns, drivervars
  <2> QED
    BY <2>1, <2>2, <2>3, <2>4, <2>5, <2>6 DEF HwInv
<1>12. CASE CoreStops
  <2>1. HwTypeOK'
    BY <1>12 DEF HwInv, HwTypeOK, At, To, CoreStops, drivervars
  <2>2. FifoOK'
    <3>1. CASE fifo' = fifo
      BY <1>12, <1>b, <3>1 DEF HwInv, FifoOK, CoreStops, drivervars
    <3>2. CASE fifo' = <<>>
      BY <3>2, <1>a DEF FifoOK
    <3> QED
      BY <1>12, <3>1, <3>2 DEF CoreStops, drivervars
  <2>3. ReadOwn'
    BY <1>12, <1>a, <1>b DEF HwInv, ReadOwn, HwWaits, At, To, CoreStops, drivervars
  <2>4. WriteOnce'
    BY <1>12, <1>a, <1>b DEF HwInv, HwTypeOK, WriteOnce, HwWaits, At, To, CoreStops, drivervars
  <2>5. CoreOwed'
    BY <1>12, <1>b, HeadersOf DEF HwInv, ReadOwn, CoreOwed, HwWaits, CoreEmpty, At, To,
         CoreStops, drivervars
  <2>6. ResultHonest'
    BY <1>12, <1>a, <1>b DEF HwInv, HwTypeOK, WriteOnce, CoreOwed, ResultHonest, HwWaits, At,
         To, CoreStops, drivervars
  <2> QED
    BY <2>1, <2>2, <2>3, <2>4, <2>5, <2>6 DEF HwInv
<1>13. CASE CorePublishes
  <2>1. HwTypeOK'
    BY <1>13 DEF HwInv, HwTypeOK, At, To, CorePublishes, drivervars
  <2>2. FifoOK'
    <3>1. CASE fifo' = fifo
      BY <1>13, <1>b, <3>1 DEF HwInv, FifoOK, CorePublishes, drivervars
    <3>2. CASE fifo' = <<>>
      BY <3>2, <1>a DEF FifoOK
    <3> QED
      BY <1>13, <3>1, <3>2 DEF CorePublishes, drivervars
  <2>3. ReadOwn'
    BY <1>13, <1>a, <1>b DEF HwInv, ReadOwn, HwWaits, At, To, CorePublishes, drivervars
  <2>4. WriteOnce'
    BY <1>13, <1>a, <1>b DEF HwInv, HwTypeOK, WriteOnce, HwWaits, At, To, CorePublishes,
         drivervars
  <2>5. CoreOwed'
    BY <1>13, <1>b, HeadersOf DEF HwInv, ReadOwn, CoreOwed, HwWaits, CoreEmpty, At, To,
         CorePublishes, drivervars
  <2>6. ResultHonest'
    BY <1>13, <1>a, <1>b DEF HwInv, HwTypeOK, WriteOnce, CoreOwed, ResultHonest, HwWaits, At,
         To, CorePublishes, drivervars
  <2> QED
    BY <2>1, <2>2, <2>3, <2>4, <2>5, <2>6 DEF HwInv
<1>14. CASE UNCHANGED hwvars
  <2>1. HwTypeOK'
    BY <1>14 DEF HwInv, HwTypeOK, At, To, hwvars
  <2>2. FifoOK'
    <3>1. CASE fifo' = fifo
      BY <1>14, <1>b, <3>1 DEF HwInv, FifoOK, hwvars
    <3>2. CASE fifo' = <<>>
      BY <3>2, <1>a DEF FifoOK
    <3> QED
      BY <1>14, <3>1, <3>2 DEF hwvars
  <2>3. ReadOwn'
    BY <1>14, <1>a, <1>b DEF HwInv, ReadOwn, HwWaits, At, To, hwvars
  <2>4. WriteOnce'
    BY <1>14, <1>a, <1>b DEF HwInv, HwTypeOK, WriteOnce, HwWaits, At, To, hwvars
  <2>5. CoreOwed'
    BY <1>14, <1>b, HeadersOf DEF HwInv, ReadOwn, CoreOwed, HwWaits, CoreEmpty, At, To, hwvars
  <2>6. ResultHonest'
    BY <1>14, <1>a, <1>b DEF HwInv, HwTypeOK, WriteOnce, CoreOwed, ResultHonest, HwWaits, At,
         To, hwvars
  <2> QED
    BY <2>1, <2>2, <2>3, <2>4, <2>5, <2>6 DEF HwInv
<1> QED
  BY <1>1, <1>2, <1>3, <1>4, <1>5, <1>6, <1>7, <1>8, <1>9, <1>10, <1>11, <1>12, <1>13,
       <1>14 DEF HwNext
\* Whatever the core and the chip do, whenever the core acts on a START, and
\* whatever an earlier write has left: a read reported as good returns the
\* bytes of its own command; and as long as no write has taken an idle CSR for
\* its end before the core acted on it, nothing is left in the core between
\* the calls, and a write reported as good was taken between once and
\* HwAttempts times (transfer_locked, wait_completion).
THEOREM MasterIsHonest == HwSpec => []TransferHonest
<1>1. HwInv => TransferHonest
  BY DEF HwInv, CoreOwed, ResultHonest, TransferHonest, At
<1> QED
  BY <1>1, HwStarts, HwKeeps, PTL DEF HwSpec
----------------------------------------------------------------------------
(* The slave.  Events of one transaction: W, the frame of a write phase; R,*)
(* a request for a window; E, the end of a read.  They wait in the core,   *)
(* in the queue and in the task, possibly several in one capture.          *)

Flags == {"DATA_VALID", "FINAL_PACKET", "RD_REQUEST", "ERR_ACK", "MEM_OVERFLOW"}
SlaveStages == {"header", "bytes", "handle", "forward", "clear", "reply", "window", "end"}
ByteValues == SlaveValues \cup Nat
WindowCells == [reg : SlaveRegs, val : ByteValues]
Pointers == SlaveRegs \cup {NoPointer}
Tasks == [at : SlaveStages, flags : SUBSET Flags, ok : BOOLEAN, size : Nat,
          frame : Seq(Nat), next : Nat, window : Seq(WindowCells)]
Hosts == [at : {"idle"}] \cup [at : {"header"}, then : {"stop", "restart"}]
         \cup [at : {"turn"}, next : Pointers]
         \cup [at : {"read"}, next : Pointers, got : Seq(WindowCells)]

SlaveTypeOK ==
    /\ adapter \in {"freertos", "neutrino"} /\ host \in Hosts
    /\ irq \in SUBSET Flags /\ captured \in SUBSET Flags /\ queue \in Seq(SUBSET Flags)
    /\ task \in Tasks \cup {Resting}
    /\ hdr \in Nat /\ data \in [1 .. WindowBytes -> Nat] /\ rdwin \in Seq(WindowCells)
    /\ slave \in {"idle", "wait", "serve"}
    /\ pointer \in SlaveRegs /\ read_armed \in BOOLEAN
    /\ chip \in [SlaveRegs -> ByteValues] /\ valid \in SUBSET SlaveRegs
    /\ sent \in Frames \cup {<<>>} /\ loose \in Pointers
    /\ calm \in BOOLEAN /\ torn \in BOOLEAN /\ missed \in BOOLEAN

\* What holds of core and task whatever the host does.
SlaveShape ==
    /\ slave = "idle" <=> host.at # "read"
    /\ slave = "serve" <=> rdwin # <<>>
    /\ captured \subseteq irq
    /\ host.at = "header" => sent \in Frames
    /\ task.at = "bytes" => task.size \in 1 .. FrameMax
    /\ task.at \in {"handle", "forward"} => task.frame # <<>>
    /\ task.at = "forward" => task.next >= 2
    /\ task.at = "window" => task.window # <<>>

\* A frame that was not put into a window in use is there, and in the task,
\* as the host sent it.
BytesSent == \A i \in DOMAIN sent : data[i] = sent[i]
WindowFits ==
    /\ ~torn /\ host.at = "header" => BytesSent /\ ~UsesWindow
    /\ ~torn /\ host.at # "header" /\ hdr # 0 => hdr = Len(sent) /\ BytesSent
    /\ ~torn /\ task.at = "bytes" => task.size = Len(sent) /\ BytesSent
    /\ ~torn /\ task.at \in {"handle", "forward"} => task.frame = sent

Ends(f) == bvstk_i2c_slave_irq_ends_read(f)
Wants(f) == "RD_REQUEST" \in f
Brings(f) == "DATA_VALID" \in f
TakesFrame == task.at \in {"header", "bytes", "handle"}

\* When the host has left no pointer, the last event on the way takes the
\* permission, or it is gone.
Disarms(f) == Ends(f) \/ (Brings(f) /\ PointerOf(sent) = NoPointer)
LastFlags == IF irq # {} THEN irq ELSE queue[Len(queue)]
TaskDisarms ==
    IF task = Resting THEN ~read_armed
    ELSE \/ Ends(task.flags) \/ ~task.ok
         \/ IF TakesFrame THEN PointerOf(sent) = NoPointer ELSE ~read_armed
NoPointerLeft == host.at = "idle" /\ loose = NoPointer /\ ~missed /\ ~torn
Disarming ==
    NoPointerLeft => IF irq # {} \/ queue # <<>> THEN Disarms(LastFlags) ELSE TaskDisarms

EndDue == Ends(irq) \/ (\E i \in DOMAIN queue : Ends(queue[i]))
          \/ (task # Resting /\ Ends(task.flags))
TaskAsks == task # Resting /\ task.at # "end" /\ Wants(task.flags)
ReadDue == Wants(irq) \/ (\E i \in DOMAIN queue : Wants(queue[i])) \/ TaskAsks
FrameDue == Brings(irq) \/ (\E i \in DOMAIN queue : Brings(queue[i]))
WriteDue == FrameDue \/ TakesFrame

\* Where the events of the present transaction may be while the host is calm:
\* a frame comes before everything else, an end after it, and there is one
\* request at most.
Pipeline ==
    /\ Brings(irq) => queue = <<>> /\ task = Resting
    /\ \A i \in DOMAIN queue : Brings(queue[i]) => i = 1 /\ task = Resting
    /\ \A i \in DOMAIN queue : Ends(queue[i]) => i = Len(queue) /\ irq = {}
    /\ task # Resting /\ Ends(task.flags) => queue = <<>> /\ irq = {}
    /\ Wants(irq) => (\A i \in DOMAIN queue : ~Wants(queue[i])) /\ ~TaskAsks
    /\ \A i \in DOMAIN queue : Wants(queue[i]) =>
          ~TaskAsks /\ \A j \in DOMAIN queue : Wants(queue[j]) => i = j
    /\ irq = {} \/ Brings(irq) \/ Wants(irq) \/ Ends(irq)
    /\ \A i \in DOMAIN queue : Brings(queue[i]) \/ Wants(queue[i]) \/ Ends(queue[i])

\* An end or a request that waits tells how far the host is.
CoreFits ==
    /\ EndDue => host.at = "idle"
    /\ ReadDue => EndDue \/ slave = "wait"
    /\ host.at = "header" => SlaveQuiet

\* Until the task has read it, the window holds the frame the host sent.
FrameFits ==
    /\ ~torn
    /\ FrameDue \/ task.at = "header" => hdr # 0

\* The register the host reads from next, by what it has sent.
Expected == IF host.at \in {"turn", "read"} THEN host.next ELSE loose
Offset == IF host.at = "read"
          THEN Len(host.got) + (IF task.at = "window" THEN Len(task.window) ELSE Len(rdwin))
          ELSE 0
\* A permission that the event in work will not take.
Permitted == read_armed /\ (task = Resting \/ task.ok)
\* An armed reply continues at the register the host expects.
SlaveArmed ==
    ~EndDue /\ host.at # "header" =>
        /\ WriteDue => Expected = PointerOf(sent)
        /\ WriteDue /\ host.at = "read" => host.got = <<>> /\ slave = "wait"
        /\ ~WriteDue /\ Permitted =>
              Expected # NoPointer /\ pointer = (Expected + Offset) % RegCount

From(s, n) == \A k \in DOMAIN s : s[k].reg = (n + k - 1) % RegCount
\* The bytes read so far, those in the window and those being fetched follow
\* each other from the host's register on.
Serving ==
    /\ task.at = "window" => Wants(task.flags)
    /\ host.at = "read" =>
          /\ host.got # <<>> \/ rdwin # <<>> \/ task.at = "window" => host.next # NoPointer
          /\ From(host.got, host.next)
          /\ From(rdwin, host.next + Len(host.got))
          /\ task.at = "window" => From(task.window, host.next + Len(host.got))

BaseInv == SlaveTypeOK /\ SlaveShape /\ WindowFits
Ordered == Pipeline /\ CoreFits /\ FrameFits /\ SlaveArmed /\ Serving
SlaveInv == BaseInv /\ Disarming /\ (calm => Ordered)
Orderly == /\ SlaveTypeOK /\ SlaveShape /\ WindowFits
           /\ Pipeline /\ CoreFits /\ FrameFits /\ SlaveArmed /\ Serving

\* The phases of the host, by name.
LEMMA HostKinds ==
    ASSUME host \in Hosts
    PROVE  /\ host.at \in {"idle", "header", "turn", "read"}
           /\ host.at = "idle" => host = [at |-> "idle"]
           /\ host.at = "header" => host.then \in {"stop", "restart"}
           /\ host.at = "turn" => host.next \in Pointers
           /\ host.at = "read" => host.next \in Pointers /\ host.got \in Seq(WindowCells)
BY DEF Hosts

\* The phases of the service task, by name.
LEMMA TaskKinds ==
    ASSUME task \in Tasks \cup {Resting}
    PROVE  /\ task = Resting <=> task.at = "idle"
           /\ task # Resting => task \in Tasks /\ task.at \in SlaveStages
           /\ task \in Tasks => task # Resting
BY DEF Tasks, Resting, SlaveStages

\* The events of the interrupt adapter, by name.
LEMMA FlagKinds ==
    /\ ~Ends({}) /\ ~Wants({}) /\ ~Brings({})
    /\ \A f, g : Wants(f \cup g) <=> Wants(f) \/ Wants(g)
    /\ \A f, g : Brings(f \cup g) <=> Brings(f) \/ Brings(g)
BY DEF Ends, Wants, Brings, bvstk_i2c_slave_irq_ends_read, Errors

\* The host's last frame: a sequence that fits in the window, with a pointer
\* of the device or none.
LEMMA SentKinds ==
    ASSUME SlaveTypeOK
    PROVE  /\ sent \in Seq(Nat) /\ Len(sent) \in Nat /\ Len(sent) <= WindowBytes
           /\ sent \in Frames => Len(sent) >= 1 /\ sent[1] \in Nat
           /\ PointerOf(sent) \in Pointers /\ NoPointer \in Pointers
<1>1. /\ sent \in Seq(Nat) /\ Len(sent) \in Nat /\ Len(sent) <= WindowBytes
      /\ sent \in Frames => Len(sent) >= 1 /\ sent[1] \in Nat
  <2>1. CASE sent \in Frames
    BY <2>1, SlaveAssumption
  <2>2. CASE sent \notin Frames
    <3>1. sent = <<>>
      BY <2>2 DEF SlaveTypeOK
    <3> QED
      BY <2>2, <3>1, SlaveAssumption
  <2> QED
    BY <2>1, <2>2
<1>2. PointerOf(sent) \in Pointers /\ NoPointer \in Pointers
  <2>1. ASSUME Len(sent) = 1 PROVE sent[1] \in Nat
    <3>1. sent \in Seq(Nat) /\ 1 \in 1 .. Len(sent)
      BY <1>1, <2>1
    <3> QED
      BY <3>1, ElementOfSeq
  <2> QED
    BY <2>1, SlaveAssumption DEF PointerOf, Pointers, SlaveRegs
<1> QED
  BY <1>1, <1>2

\* A slave at rest owes nothing.
LEMMA QuietOwesNothing ==
    ASSUME SlaveQuiet
    PROVE  /\ ~EndDue /\ ~ReadDue /\ ~FrameDue /\ ~WriteDue /\ ~TaskAsks
           /\ irq = {} /\ queue = <<>> /\ task = Resting /\ task.at = "idle"
BY FlagKinds
DEF SlaveQuiet, Resting, EndDue, ReadDue, FrameDue, WriteDue, TaskAsks, TakesFrame

\* The slave at power-on satisfies its invariant.
LEMMA SlaveStarts == SlaveInit => SlaveInv
<1> SUFFICES ASSUME SlaveInit PROVE SlaveInv
  OBVIOUS
<1>1. host \in Hosts /\ host.at = "idle"
  BY DEF SlaveInit, Hosts
<1>2. SlaveTypeOK
  <2>1. 0 \in SlaveRegs /\ NoPointer \in Pointers
    BY SlaveAssumption DEF SlaveRegs, Pointers
  <2>2. chip \in [SlaveRegs -> ByteValues]
    BY DEF SlaveInit, ByteValues
  <2>3. data \in [1 .. WindowBytes -> Nat]
    BY DEF SlaveInit
  <2>4. queue \in Seq(SUBSET Flags) /\ rdwin \in Seq(WindowCells)
    BY DEF SlaveInit
  <2>5. sent \in Frames \cup {<<>>} /\ valid \in SUBSET SlaveRegs
    BY DEF SlaveInit
  <2> QED
    BY <1>1, <2>1, <2>2, <2>3, <2>4, <2>5 DEF SlaveInit, SlaveTypeOK
<1>3. /\ SlaveQuiet /\ task.at = "idle" /\ queue = <<>> /\ irq = {} /\ hdr = 0 /\ ~torn
      /\ task = Resting /\ ~read_armed
  BY DEF SlaveInit, SlaveQuiet, Resting
<1>4. SlaveShape
  BY <1>1, <1>3 DEF SlaveInit, SlaveShape
<1>5. WindowFits /\ Disarming
  BY <1>1, <1>3 DEF WindowFits, Disarming, TaskDisarms
<1>6. ~EndDue /\ ~ReadDue /\ ~FrameDue /\ ~WriteDue
  BY <1>3, QuietOwesNothing
<1>7. Pipeline
  BY <1>3, FlagKinds DEF Pipeline
<1>8. CoreFits /\ FrameFits
  BY <1>1, <1>3, <1>6 DEF CoreFits, FrameFits
<1>9. SlaveArmed /\ Serving
  BY <1>1, <1>3, <1>6 DEF SlaveArmed, Serving, Permitted
<1> QED
  BY <1>2, <1>4, <1>5, <1>7, <1>8, <1>9 DEF SlaveInv, BaseInv, Ordered

\* A step that leaves the events on the way keeps Disarming when it does not
\* undo what the task is about to do.
LEMMA SameEvents ==
    ASSUME Disarming, UNCHANGED <<host, irq, queue, sent, loose, missed, torn>>,
           ~torn /\ TaskDisarms => TaskDisarms'
    PROVE  Disarming'
BY DEF Disarming, NoPointerLeft, LastFlags, Disarms, PointerOf

\* A step of the task on the event it has in work: what waits behind it stays
\* as it is.
Inside ==
    /\ task \in Tasks /\ task' \in Tasks /\ task.at # "end" /\ task'.flags = task.flags
    /\ task'.at # "header" /\ (task'.ok => task.ok)
    /\ UNCHANGED <<adapter, host, irq, slave, rdwin, captured, queue, sent, loose, torn, missed>>

\* What every step inside the service task keeps of an orderly state.
LEMMA InsideKeeps ==
    ASSUME Orderly, Inside
    PROVE  /\ Pipeline' /\ CoreFits' /\ FrameFits'
           /\ EndDue' <=> EndDue
           /\ ~FrameDue /\ ~FrameDue'
           /\ host.at # "header"
           /\ From(host.got, host.next)' <=> From(host.got, host.next)
           /\ Expected' = Expected /\ PointerOf(sent)' = PointerOf(sent)
<1>1. task # Resting /\ task' # Resting
  BY DEF Inside, Tasks, Resting, SlaveStages
<1>2. TaskAsks' => TaskAsks
  BY <1>1 DEF Inside, TaskAsks
<1>3. EndDue' <=> EndDue
  BY <1>1 DEF Inside, EndDue
<1>4. ReadDue' => ReadDue
  BY <1>2 DEF Inside, ReadDue
<1>5. ~FrameDue /\ ~FrameDue'
  BY <1>1 DEF Inside, FrameDue, Orderly, Pipeline
<1>6. host.at # "header"
  BY <1>1 DEF Orderly, CoreFits, SlaveQuiet
<1>7. Pipeline'
  BY <1>1, <1>2 DEF Inside, Orderly, Pipeline
<1>8. CoreFits'
  BY <1>3, <1>4, <1>6 DEF Inside, Orderly, CoreFits
<1>9. From(host.got, host.next)' <=> From(host.got, host.next)
  BY DEF Inside, From
<1>10. FrameFits'
  BY <1>5 DEF Inside, Orderly, FrameFits
<1>11. Expected' = Expected /\ PointerOf(sent)' = PointerOf(sent)
  BY DEF Inside, Expected, PointerOf
<1> QED
  BY <1>3, <1>5, <1>6, <1>7, <1>8, <1>9, <1>10, <1>11

\* The task reads the header of a frame.
LEMMA ReadHeaderKeeps == ASSUME SlaveInv, read_header PROVE SlaveInv'
<1>1. task \in Tasks /\ task.at = "header" /\ SlaveTypeOK
  BY TaskKinds DEF SlaveInv, BaseInv, SlaveTypeOK, read_header, Resting
<1>2. \/ /\ hdr \in 1 .. FrameMax /\ task' = [task EXCEPT !.at = "bytes", !.size = hdr]
      \/ task' = [task EXCEPT !.at = "clear", !.ok = FALSE]
  BY DEF read_header, Give
<1>3. /\ task' \in Tasks /\ task'.flags = task.flags
      /\ \/ task'.at = "bytes" /\ task'.size = hdr /\ hdr \in 1 .. FrameMax /\ task'.ok = task.ok
         \/ task'.at = "clear" /\ ~task'.ok
  <2>1. hdr \in Nat
    BY <1>1 DEF SlaveTypeOK
  <2>2. CASE task' = [task EXCEPT !.at = "clear", !.ok = FALSE]
    BY <1>1, <2>2 DEF Tasks, SlaveStages
  <2>3. CASE hdr \in 1 .. FrameMax /\ task' = [task EXCEPT !.at = "bytes", !.size = hdr]
    BY <1>1, <2>1, <2>3 DEF Tasks, SlaveStages
  <2> QED
    BY <1>2, <2>2, <2>3
<1>4. Inside
  BY <1>1, <1>3 DEF Inside, read_header, unseen, hostvars
<1>5. SlaveTypeOK'
  BY <1>1, <1>3 DEF SlaveTypeOK, read_header, unseen, hostvars
<1>6. SlaveShape'
  BY <1>3 DEF SlaveInv, BaseInv, SlaveShape, read_header, unseen, hostvars
<1>7. WindowFits'
  <2>1. ~torn => host.at # "header"
    BY <1>1 DEF SlaveInv, BaseInv, WindowFits, UsesWindow
  <2>2. BytesSent' <=> BytesSent
    BY DEF BytesSent, read_header, unseen, hostvars
  <2>3. task'.at = "bytes" => hdr # 0
    BY <1>3
  <2> QED
    BY <1>3, <2>1, <2>2, <2>3 DEF SlaveInv, BaseInv, WindowFits, read_header, unseen, hostvars
<1>8. task # Resting /\ task' # Resting
  BY <1>1, <1>3 DEF Tasks, Resting, SlaveStages
<1>9. Disarming'
  <2>1. TaskDisarms => TaskDisarms'
    BY <1>1, <1>3, <1>8 DEF TaskDisarms, TakesFrame, PointerOf, read_header, unseen, hostvars
  <2> QED
    BY <1>4, <2>1, SameEvents DEF SlaveInv, Inside
<1>10. ASSUME calm PROVE Ordered'
  <2>1. Orderly
    BY <1>10 DEF SlaveInv, BaseInv, Ordered, Orderly
  <2>2. WriteDue
    BY <1>1 DEF WriteDue, TakesFrame
  <2>3. task'.at = "clear" => ~WriteDue'
    BY <1>4, <2>1, InsideKeeps DEF WriteDue, TakesFrame
  <2>4. SlaveArmed'
    <3>1. CASE task'.at = "bytes"
      <4>1. WriteDue'
        BY <3>1 DEF WriteDue, TakesFrame
      <4> QED
        BY <1>4, <2>1, <2>2, <4>1, InsideKeeps DEF Orderly, SlaveArmed, Inside
    <3>2. CASE task'.at = "clear"
      <4>1. ~WriteDue' /\ ~Permitted'
        BY <1>3, <1>8, <2>3, <3>2 DEF Permitted
      <4> QED
        BY <4>1 DEF SlaveArmed
    <3> QED
      BY <1>3, <3>1, <3>2
  <2>5. Serving'
    BY <1>1, <1>3, <1>4, <2>1, InsideKeeps DEF Orderly, Serving, Inside, From
  <2> QED
    BY <1>4, <2>1, <2>4, <2>5, InsideKeeps DEF Ordered
<1>11. calm' = calm
  BY DEF read_header, unseen
<1> QED
  BY <1>5, <1>6, <1>7, <1>9, <1>10, <1>11 DEF SlaveInv, BaseInv

\* The task reads the bytes of a frame.
LEMMA ReadBytesKeeps == ASSUME SlaveInv, read_bytes PROVE SlaveInv'
<1>1. task \in Tasks /\ task.at = "bytes" /\ SlaveTypeOK
  BY TaskKinds DEF SlaveInv, BaseInv, SlaveTypeOK, read_bytes, Resting
<1> DEFINE b == Bytes(task.size)
<1>2. b \in Seq(Nat) /\ b # <<>> /\ (~torn => b = sent)
  <2>1. task.size \in 1 .. FrameMax /\ task.size \in Nat /\ task.size >= 1
    BY <1>1 DEF SlaveInv, BaseInv, SlaveShape, Tasks
  <2>2. task.size <= WindowBytes
    BY <2>1, SlaveAssumption
  <2>3. b \in Seq(Nat) /\ Len(b) = task.size
    <3>1. PICK n \in Nat : n = task.size
      BY <2>1
    <3>2. \A i \in 1 .. n : data[i] \in Nat
      <4>1. \A i \in 1 .. n : i \in 1 .. WindowBytes
        BY <2>2, <3>1, SlaveAssumption
      <4> QED
        BY <1>1, <4>1 DEF SlaveTypeOK
    <3>3. b = [i \in 1 .. n |-> data[i]]
      BY <3>1 DEF Bytes
    <3> QED
      BY <3>1, <3>2, <3>3
  <2>4. ASSUME ~torn PROVE b = sent
    <3>1. task.size = Len(sent) /\ BytesSent /\ sent \in Seq(Nat)
      BY <1>1, <2>4, SentKinds DEF SlaveInv, BaseInv, WindowFits
    <3> QED
      BY <3>1 DEF BytesSent, Bytes
  <2> QED
    BY <2>1, <2>3, <2>4
<1>3. task' = [task EXCEPT !.at = "handle", !.frame = b]
  BY DEF read_bytes
<1> HIDE DEF b
<1>4. /\ task' \in Tasks /\ task'.flags = task.flags /\ task'.ok = task.ok
      /\ task'.at = "handle" /\ task'.frame = b
  BY <1>1, <1>2, <1>3 DEF Tasks, SlaveStages
<1>5. Inside
  BY <1>1, <1>4 DEF Inside, read_bytes, unseen, hostvars
<1>6. SlaveTypeOK'
  BY <1>1, <1>4 DEF SlaveTypeOK, read_bytes, unseen, hostvars
<1>7. SlaveShape'
  BY <1>2, <1>4 DEF SlaveInv, BaseInv, SlaveShape, read_bytes, unseen, hostvars
<1>8. WindowFits'
  <2>1. ~torn => host.at # "header"
    BY <1>1 DEF SlaveInv, BaseInv, WindowFits, UsesWindow
  <2>2. BytesSent' <=> BytesSent
    BY DEF BytesSent, read_bytes, unseen, hostvars
  <2> QED
    BY <1>2, <1>4, <2>1, <2>2 DEF SlaveInv, BaseInv, WindowFits, read_bytes, unseen, hostvars
<1>9. task # Resting /\ task' # Resting
  BY <1>1, <1>4 DEF Tasks, Resting, SlaveStages
<1>10. Disarming'
  <2>1. TaskDisarms => TaskDisarms'
    BY <1>1, <1>4, <1>9 DEF TaskDisarms, TakesFrame, PointerOf, read_bytes, unseen, hostvars
  <2> QED
    BY <1>5, <2>1, SameEvents DEF SlaveInv, Inside
<1>11. ASSUME calm PROVE Ordered'
  <2>1. Orderly
    BY <1>11 DEF SlaveInv, BaseInv, Ordered, Orderly
  <2>2. WriteDue /\ WriteDue'
    BY <1>1, <1>4 DEF WriteDue, TakesFrame
  <2>3. SlaveArmed'
    BY <1>5, <2>1, <2>2, InsideKeeps DEF Orderly, SlaveArmed, Inside
  <2>4. Serving'
    BY <1>1, <1>4, <1>5, <2>1, InsideKeeps DEF Orderly, Serving, Inside, From
  <2> QED
    BY <1>5, <2>1, <2>3, <2>4, InsideKeeps DEF Ordered
<1>12. calm' = calm
  BY DEF read_bytes, unseen
<1> QED
  BY <1>6, <1>7, <1>8, <1>10, <1>11, <1>12 DEF SlaveInv, BaseInv

\* The task handles a written frame.
LEMMA HandleWriteKeeps == ASSUME SlaveInv, handle_write PROVE SlaveInv'
<1>1. task \in Tasks /\ task.at = "handle" /\ SlaveTypeOK
  BY TaskKinds DEF SlaveInv, BaseInv, SlaveTypeOK, handle_write, Resting
<1> DEFINE fr == task.frame
<1>2. /\ fr \in Seq(Nat) /\ fr # <<>> /\ Len(fr) >= 1 /\ fr[1] \in Nat
      /\ ~torn => fr = sent
  BY <1>1 DEF SlaveInv, BaseInv, SlaveShape, WindowFits, Tasks
<1>3. \/ /\ fr[1] >= RegCount /\ read_armed' = FALSE /\ pointer' = pointer
         /\ task' = [task EXCEPT !.at = "clear", !.ok = FALSE]
      \/ /\ ~(fr[1] >= RegCount) /\ read_armed' = (Len(fr) = 1) /\ pointer' = fr[1]
         /\ task' = [task EXCEPT !.at = "forward", !.next = 2]
  BY DEF handle_write, Permits, Give
<1> HIDE DEF fr
<1>4. /\ task' \in Tasks /\ task'.flags = task.flags /\ task'.frame = fr
      /\ \/ task'.at = "clear" /\ ~task'.ok
         \/ task'.at = "forward" /\ task'.next = 2 /\ task'.ok = task.ok
  <2>1. CASE task' = [task EXCEPT !.at = "clear", !.ok = FALSE]
    BY <1>1, <1>2, <2>1 DEF Tasks, SlaveStages, fr
  <2>2. CASE task' = [task EXCEPT !.at = "forward", !.next = 2]
    BY <1>1, <1>2, <2>2 DEF Tasks, SlaveStages, fr
  <2> QED
    BY <1>3, <2>1, <2>2
<1>5. Inside
  BY <1>1, <1>4 DEF Inside, handle_write, unseen, hostvars
<1>6. pointer' \in SlaveRegs /\ read_armed' \in BOOLEAN
  <2>1. pointer' \in SlaveRegs
    <3>1. CASE fr[1] >= RegCount
      BY <1>1, <1>3, <3>1 DEF SlaveTypeOK
    <3>2. CASE ~(fr[1] >= RegCount)
      <4>1. pointer' = fr[1]
        BY <1>3, <3>2, Zenon
      <4> QED
        BY <1>2, <3>2, <4>1, SlaveAssumption DEF SlaveRegs
    <3> QED
      BY <3>1, <3>2
  <2>2. read_armed' \in BOOLEAN
    BY <1>3
  <2> QED
    BY <2>1, <2>2
<1>7. SlaveTypeOK'
  BY <1>1, <1>4, <1>6 DEF SlaveTypeOK, handle_write, unseen, hostvars
<1>8. SlaveShape'
  BY <1>2, <1>4 DEF SlaveInv, BaseInv, SlaveShape, handle_write, unseen, hostvars
<1>9. ~torn => host.at # "header"
  BY <1>1 DEF SlaveInv, BaseInv, WindowFits, UsesWindow
<1>10. WindowFits'
  <2>1. BytesSent' <=> BytesSent
    BY DEF BytesSent, handle_write, unseen, hostvars
  <2> QED
    BY <1>2, <1>4, <1>9, <2>1
    DEF SlaveInv, BaseInv, WindowFits, handle_write, unseen, hostvars
<1>11. ASSUME read_armed', ~torn
       PROVE  PointerOf(sent) # NoPointer /\ pointer' = PointerOf(sent)
  <2>1. ~(fr[1] >= RegCount) /\ Len(fr) = 1 /\ pointer' = fr[1]
    BY <1>3, <1>11, Zenon
  <2>2. fr[1] < RegCount /\ fr = sent
    BY <1>2, <1>11, <2>1, SlaveAssumption
  <2> QED
    BY <1>2, <2>1, <2>2 DEF PointerOf, NoPointer
<1>12. task # Resting /\ task' # Resting
  BY <1>1, <1>4 DEF Tasks, Resting, SlaveStages
<1>13. Disarming'
  <2>1. ASSUME ~torn, TaskDisarms PROVE TaskDisarms'
    <3>1. CASE ~task'.ok
      BY <1>12, <3>1 DEF TaskDisarms
    <3>2. CASE task'.ok
      <4>1. task'.at = "forward" /\ task'.ok = task.ok
        BY <1>4, <3>2
      <4>2. Ends(task.flags) \/ PointerOf(sent) = NoPointer
        BY <1>1, <1>12, <2>1, <3>2, <4>1 DEF TaskDisarms, TakesFrame
      <4>3. PointerOf(sent) = NoPointer => ~read_armed'
        BY <1>11, <2>1
      <4> QED
        BY <1>4, <1>12, <4>1, <4>2, <4>3 DEF TaskDisarms, TakesFrame
    <3> QED
      BY <3>1, <3>2
  <2> QED
    BY <1>5, <2>1, SameEvents DEF SlaveInv, Inside
<1>14. pointer' \in Nat /\ pointer' + 0 = pointer' /\ pointer' % RegCount = pointer'
  <2>1. RegCount \in Nat \ {0} /\ pointer' \in 0 .. RegCount - 1
    BY <1>6, SlaveAssumption DEF SlaveRegs
  <2>2. pointer' % RegCount = pointer'
    BY <2>1, InRing
  <2>3. \A n \in 0 .. RegCount - 1 : n \in Nat /\ n + 0 = n
    BY <2>1
  <2> QED
    BY <2>1, <2>2, <2>3, Zenon
<1>15. ASSUME calm PROVE Ordered'
  <2>1. Orderly
    BY <1>15 DEF SlaveInv, BaseInv, Ordered, Orderly
  <2>2. ~torn
    BY <2>1 DEF Orderly, FrameFits
  <2>3. WriteDue /\ ~WriteDue'
    BY <1>1, <1>4, <1>5, <2>1, InsideKeeps DEF WriteDue, TakesFrame
  <2>4. SlaveArmed'
    <3> SUFFICES ASSUME ~EndDue', host.at # "header", Permitted'
                 PROVE  /\ Expected' # NoPointer
                        /\ pointer' = (Expected' + Offset') % RegCount
      BY <1>5, <2>3 DEF SlaveArmed, Inside
    <3>1. Expected = PointerOf(sent) /\ Expected' = Expected
      BY <1>5, <2>1, <2>3, InsideKeeps DEF Orderly, SlaveArmed
    <3>2. host.at = "read" => host.got = <<>> /\ slave = "wait"
      BY <1>5, <2>1, <2>3, InsideKeeps DEF Orderly, SlaveArmed
    <3>3. host.at = "read" => rdwin = <<>>
      BY <2>1, <3>2 DEF Orderly, SlaveShape
    <3>4. Offset' = 0
      <4>1. host' = host /\ rdwin' = rdwin /\ task'.at # "window"
        BY <1>4, <1>5 DEF Inside
      <4>2. CASE host.at = "read"
        <5>1. host.got = <<>> /\ rdwin = <<>>
          BY <3>2, <3>3, <4>2
        <5>2. Offset' = Len(host.got) + Len(rdwin)
          BY <4>1, <4>2 DEF Offset
        <5> QED
          BY <5>1, <5>2
      <4> QED
        BY <4>1, <4>2 DEF Offset
    <3>5. read_armed'
      BY DEF Permitted
    <3>6. PointerOf(sent) # NoPointer /\ pointer' = PointerOf(sent)
      BY <1>11, <2>2, <3>5
    <3> QED
      BY <1>14, <3>1, <3>4, <3>6
  <2>5. Serving'
    BY <1>1, <1>4, <1>5, <2>1, InsideKeeps DEF Orderly, Serving, Inside, From
  <2> QED
    BY <1>5, <2>1, <2>4, <2>5, InsideKeeps DEF Ordered
<1>16. calm' = calm
  BY DEF handle_write, unseen
<1> QED
  BY <1>7, <1>8, <1>10, <1>13, <1>15, <1>16 DEF SlaveInv, BaseInv

\* A step between the write and the read phase of an event: it keeps pointer
\* and permission and loads nothing.
Passes ==
    /\ Inside /\ task.at \in {"forward", "clear", "reply"}
    /\ task'.at \in {"forward", "clear", "reply", "end"}
    /\ task'.at = "forward" =>
          task.at = "forward" /\ task'.frame = task.frame /\ task'.next >= 2
    /\ task.at = "reply" => task'.at = "end"
    /\ UNCHANGED <<hdr, data>> \/ (task.at = "clear" /\ hdr' = 0)
    /\ UNCHANGED <<pointer, read_armed, calm>>

\* Steps that only pass the frame on.
LEMMA PassesKeeps == ASSUME SlaveInv, Passes, SlaveTypeOK' PROVE SlaveInv'
<1>1. Inside /\ task # Resting /\ task' # Resting
  BY DEF Passes, Inside, Tasks, SlaveStages, Resting
<1>2. ~TakesFrame /\ ~TakesFrame'
  BY DEF Passes, TakesFrame
<1>3. SlaveShape'
  BY <1>1 DEF SlaveInv, BaseInv, SlaveShape, Passes, Inside
<1>4. WindowFits'
  <2>1. ~torn /\ host.at = "header" => task.at = "reply"
    BY DEF SlaveInv, BaseInv, WindowFits, UsesWindow, Passes
  <2>2. CASE UNCHANGED <<hdr, data>>
    <3>1. BytesSent' <=> BytesSent
      BY <2>2 DEF BytesSent, Passes, Inside
    <3> QED
      BY <2>1, <2>2, <3>1 DEF SlaveInv, BaseInv, WindowFits, UsesWindow, Passes, Inside
  <2>3. CASE task.at = "clear" /\ hdr' = 0
    BY <2>1, <2>3 DEF SlaveInv, BaseInv, WindowFits, UsesWindow, Passes, Inside
  <2> QED
    BY <2>2, <2>3 DEF Passes
<1>5. Disarming'
  <2>1. TaskDisarms => TaskDisarms'
    BY <1>1, <1>2 DEF TaskDisarms, Passes, Inside
  <2> QED
    BY <1>1, <2>1, SameEvents DEF SlaveInv, Inside
<1>6. ASSUME calm PROVE Ordered'
  <2>1. Orderly
    BY <1>6 DEF SlaveInv, BaseInv, Ordered, Orderly
  <2>2. ~WriteDue /\ ~WriteDue'
    BY <1>1, <1>2, <2>1, InsideKeeps DEF WriteDue
  <2>3. Offset' = Offset
    BY <1>1 DEF Passes, Offset, Inside
  <2>4. SlaveArmed'
    BY <1>1, <2>1, <2>2, <2>3, InsideKeeps DEF Orderly, SlaveArmed, Passes, Inside, Permitted
  <2>5. Serving'
    BY <1>1, <2>1, InsideKeeps DEF Orderly, Serving, Inside, From, Passes
  <2> QED
    BY <1>1, <2>1, <2>4, <2>5, InsideKeeps DEF Ordered
<1> QED
  BY <1>3, <1>4, <1>5, <1>6 DEF SlaveInv, BaseInv, Passes

\* The frame is forwarded to the cache service.
LEMMA ForwardWriteKeeps == ASSUME SlaveInv, forward_write PROVE SlaveInv'
<1>1. /\ task \in Tasks /\ task.at = "forward" /\ task.next \in Nat /\ task.next >= 2
      /\ SlaveTypeOK /\ task.frame # <<>>
  BY TaskKinds
  DEF SlaveInv, BaseInv, SlaveTypeOK, SlaveShape, forward_write, Resting, Tasks
<1>2. /\ task' \in Tasks /\ task'.flags = task.flags /\ task'.frame = task.frame
      /\ task'.at \in {"forward", "clear"} /\ task'.next >= 2 /\ (task'.ok => task.ok)
  <2>1. CASE task' = [task EXCEPT !.at = "clear"]
    BY <1>1, <2>1 DEF Tasks, SlaveStages
  <2>2. CASE task' = [task EXCEPT !.at = "clear", !.ok = FALSE]
    BY <1>1, <2>2 DEF Tasks, SlaveStages
  <2>3. CASE task' = [task EXCEPT !.next = @ + 1]
    <3>1. task.next + 1 \in Nat /\ task.next + 1 >= 2
      BY <1>1
    <3> DEFINE n == task.next + 1
    <3>2. task' = [task EXCEPT !.next = n]
      BY <2>3
    <3> HIDE DEF n
    <3> QED
      BY <1>1, <3>1, <3>2 DEF Tasks, SlaveStages, n
  <2> QED
    BY <1>1, <2>1, <2>2, <2>3 DEF forward_write, Go, Give
<1>3. Passes
  BY <1>1, <1>2 DEF Passes, Inside, forward_write, unseen, hostvars
<1>4. chip' \in [SlaveRegs -> ByteValues] /\ valid' \in SUBSET SlaveRegs
  <2>1. CASE task.next > Len(task.frame) \/ Target >= RegCount
    BY <1>1, <2>1 DEF forward_write, SlaveTypeOK
  <2>2. CASE ~(task.next > Len(task.frame) \/ Target >= RegCount)
    <3>1. task.frame \in Seq(Nat) /\ Len(task.frame) >= 1
      BY <1>1 DEF Tasks
    <3>2. task.frame[1] \in Nat /\ task.frame[task.next] \in Nat
      BY <1>1, <2>2, <3>1
    <3>3. Target \in SlaveRegs
      <4>1. Target \in Nat
        BY <1>1, <3>2 DEF Target
      <4> QED
        BY <2>2, <4>1, SlaveAssumption DEF SlaveRegs
    <3>4. task.frame[task.next] \in ByteValues
      BY <3>2 DEF ByteValues
    <3> QED
      BY <1>1, <2>2, <3>3, <3>4 DEF forward_write, SlaveTypeOK
  <2> QED
    BY <2>1, <2>2
<1>5. SlaveTypeOK'
  BY <1>1, <1>2, <1>4 DEF SlaveTypeOK, forward_write, unseen, hostvars
<1> QED
  BY <1>3, <1>5, PassesKeeps

\* The frame is cleared: what the window holds after that is no frame.
LEMMA ClearFrameKeeps == ASSUME SlaveInv, clear_frame PROVE SlaveInv'
<1>1. task \in Tasks /\ task.at = "clear" /\ SlaveTypeOK
  BY TaskKinds DEF SlaveInv, BaseInv, SlaveTypeOK, clear_frame, Resting
<1>2. task' \in Tasks /\ task'.flags = task.flags /\ task'.at = "reply" /\ task'.ok = task.ok
  BY <1>1 DEF clear_frame, Go, Tasks, SlaveStages
<1>3. Passes
  BY <1>1, <1>2 DEF Passes, Inside, clear_frame, unseen, hostvars
<1>4. data' \in [1 .. WindowBytes -> Nat] /\ hdr' \in Nat
  BY <1>1 DEF SlaveTypeOK, clear_frame
<1>5. SlaveTypeOK'
  BY <1>1, <1>2, <1>4 DEF SlaveTypeOK, clear_frame, unseen, hostvars
<1> QED
  BY <1>3, <1>5, PassesKeeps

\* A run of registers from reg on that stays within the device.
Run(w, reg) ==
    /\ w \in Seq(WindowCells) /\ w # <<>> /\ Len(w) \in Nat /\ reg + Len(w) <= RegCount
    /\ \A k \in DOMAIN w : k \in Nat /\ k >= 1 /\ k <= Len(w) /\ w[k].reg = reg + k - 1

\* load_window's search ends: a cached first register gives a run.
LEMMA CachedIsRun ==
    ASSUME SlaveTypeOK, NEW reg \in valid
    PROVE  Run(Cached(reg), reg)
<1> DEFINE Good(k) == /\ \A i \in 0 .. k - 1 : reg + i \in valid
                      /\ k = WindowMax \/ reg + k \notin valid
           S == {k \in 0 .. WindowMax : k = WindowMax \/ reg + k \notin valid}
<1>1. /\ RegCount \in Nat \ {0} /\ WindowMax \in Nat \ {0} /\ reg \in 0 .. RegCount - 1
      /\ valid \subseteq 0 .. RegCount - 1
  BY SlaveAssumption DEF SlaveTypeOK, SlaveRegs
<1>2. \E k \in 0 .. WindowMax : Good(k)
  <2>1. S \subseteq Nat /\ WindowMax \in S
    BY <1>1
  <2> HIDE DEF S
  <2>2. PICK k \in S : \A y \in S : k <= y
    BY <2>1, FirstExists
  <2>3. k \in 0 .. WindowMax /\ (k = WindowMax \/ reg + k \notin valid)
    BY DEF S
  <2>4. ASSUME NEW i \in 0 .. k - 1 PROVE reg + i \in valid
    <3>1. i \notin S /\ i \in 0 .. WindowMax /\ i # WindowMax
      BY <1>1, <2>2, <2>3
    <3> QED
      BY <3>1 DEF S
  <2> QED
    BY <2>3, <2>4
<1> DEFINE n == CHOOSE k \in 0 .. WindowMax : Good(k)
<1>3. n \in 0 .. WindowMax /\ Good(n)
  BY <1>2
<1>4. Cached(reg) = [i \in 1 .. n |-> [reg |-> reg + i - 1, val |-> chip[reg + i - 1]]]
  BY DEF Cached
<1> HIDE DEF n
<1>5. n \in Nat /\ n >= 1
  <2>1. n # 0
    <3> SUFFICES ASSUME n = 0 PROVE FALSE
      OBVIOUS
    <3>1. reg + 0 \notin valid
      BY <1>1, <1>3
    <3> QED
      BY <1>1, <3>1
  <2> QED
    BY <1>1, <1>3, <2>1
<1>6. ASSUME NEW i \in 1 .. n PROVE reg + i - 1 \in SlaveRegs
  <2>1. i - 1 \in 0 .. n - 1
    BY <1>5
  <2>2. reg + (i - 1) \in valid
    BY <1>3, <2>1
  <2>3. reg + (i - 1) = reg + i - 1
    BY <1>1, <1>5
  <2> QED
    BY <1>1, <2>2, <2>3 DEF SlaveRegs
<1>7. \A i \in 1 .. n : [reg |-> reg + i - 1, val |-> chip[reg + i - 1]] \in WindowCells
  BY <1>6 DEF SlaveTypeOK, WindowCells
<1>8. /\ Cached(reg) \in Seq(WindowCells) /\ Len(Cached(reg)) = n
      /\ DOMAIN Cached(reg) = 1 .. n
  BY <1>4, <1>5, <1>7
<1>9. \A i \in 1 .. n : Cached(reg)[i].reg = reg + i - 1
  BY <1>4
<1>10. reg + n <= RegCount
  <2>1. reg + n - 1 \in 0 .. RegCount - 1
    BY <1>5, <1>6 DEF SlaveRegs
  <2> QED
    BY <1>1, <1>5, <2>1
<1>11. Cached(reg) # <<>>
  BY <1>5, <1>8
<1> QED
  BY <1>5, <1>8, <1>9, <1>10, <1>11 DEF Run

\* One register fetched from the chip is a run.
LEMMA FetchedIsRun ==
    ASSUME SlaveTypeOK, NEW reg \in SlaveRegs
    PROVE  Run(<<[reg |-> reg, val |-> chip[reg]]>>, reg)
<1> DEFINE c == [reg |-> reg, val |-> chip[reg]]
<1>1. c \in WindowCells /\ c.reg = reg
  BY DEF SlaveTypeOK, WindowCells
<1>2. RegCount \in Nat \ {0} /\ reg \in 0 .. RegCount - 1
  BY SlaveAssumption DEF SlaveRegs
<1> HIDE DEF c
<1>3. /\ <<c>> \in Seq(WindowCells) /\ <<c>> # <<>> /\ Len(<<c>>) = 1 /\ DOMAIN <<c>> = 1 .. 1
      /\ <<c>>[1] = c
  BY <1>1
<1>4. Run(<<c>>, reg)
  BY <1>1, <1>2, <1>3 DEF Run
<1> QED
  BY <1>4 DEF c

\* Where a run starts decides which bytes of the read it holds and where the
\* next one starts.
LEMMA RunContinues ==
    ASSUME NEW n \in Nat, NEW w, Run(w, n % RegCount)
    PROVE  /\ From(w, n)
           /\ Advanced(n % RegCount, Len(w)) = (n + Len(w)) % RegCount
<1> DEFINE r == n % RegCount
<1>1. RegCount \in Nat \ {0} /\ r \in 0 .. RegCount - 1
  BY SlaveAssumption, DivMod
<1>2. Len(w) \in Nat /\ r + Len(w) <= RegCount
  BY DEF Run
<1>3. ASSUME NEW k \in DOMAIN w PROVE w[k].reg = (n + k - 1) % RegCount
  <2>1. k \in Nat /\ k >= 1 /\ k <= Len(w) /\ w[k].reg = r + k - 1
    BY DEF Run
  <2> DEFINE j == k - 1
  <2>2. j \in Nat /\ r + j < RegCount /\ r + j <= RegCount /\ n + j = n + k - 1
        /\ r + j = r + k - 1
    BY <1>1, <1>2, <2>1
  <2> HIDE DEF j
  <2>3. (n + j) % RegCount = r + j
    BY <1>1, <2>2, Wrap
  <2> QED
    BY <2>1, <2>2, <2>3
<1>4. From(w, n)
  BY <1>3 DEF From
<1>5. (n + Len(w)) % RegCount = IF r + Len(w) < RegCount THEN r + Len(w) ELSE 0
  BY <1>1, <1>2, Wrap
<1> QED
  BY <1>4, <1>5 DEF Advanced

\* The register pointer is always one of the device.
LEMMA ReadStartIsPointer ==
    ASSUME SlaveTypeOK
    PROVE  ReadStart(pointer) = pointer /\ pointer \in SlaveRegs
BY SlaveAssumption DEF SlaveTypeOK, ReadStart, SlaveRegs

\* load_window with a window w to show for it.
Loads(w) ==
    /\ Run(w, pointer) /\ WantsReply /\ task \in Tasks /\ task.at = "reply"
    /\ task' = [task EXCEPT !.at = "window", !.window = w]
    /\ pointer' = Advanced(pointer, Len(w)) /\ valid' \in SUBSET SlaveRegs
    /\ UNCHANGED <<unseen, hdr, data, rdwin, torn, queue, read_armed, chip>>

\* Steps that load the transmit window.
LEMMA LoadsKeeps == ASSUME SlaveInv, NEW w, Loads(w) PROVE SlaveInv'
<1>1. /\ task' \in Tasks /\ task'.flags = task.flags /\ task'.at = "window"
      /\ task'.ok = task.ok /\ task.ok /\ SlaveTypeOK
      /\ task'.window = w /\ w \in Seq(WindowCells) /\ w # <<>> /\ Len(w) \in Nat
  BY DEF Loads, Run, Tasks, SlaveStages, WantsReply, SlaveInv, BaseInv
<1>2. Inside
  BY <1>1 DEF Inside, Loads, unseen, hostvars
<1>3. /\ task # Resting /\ task' # Resting /\ Wants(task.flags) /\ read_armed
  BY <1>1 DEF Loads, Tasks, SlaveStages, Resting, WantsReply, Wants
<1>4. RegCount \in Nat \ {0} /\ pointer \in 0 .. RegCount - 1 /\ pointer + Len(w) <= RegCount
  BY <1>1, SlaveAssumption DEF SlaveTypeOK, SlaveRegs, Loads, Run
<1>5. pointer' \in SlaveRegs
  BY <1>1, <1>4 DEF Loads, Advanced, SlaveRegs
<1>6. SlaveTypeOK'
  BY <1>1, <1>5 DEF SlaveTypeOK, Loads, unseen, hostvars
<1>7. SlaveShape'
  BY <1>1 DEF SlaveInv, BaseInv, SlaveShape, Loads, unseen, hostvars
<1>8. WindowFits'
  <2>1. BytesSent' <=> BytesSent
    BY DEF BytesSent, Loads, unseen, hostvars
  <2> QED
    BY <1>1, <2>1 DEF SlaveInv, BaseInv, WindowFits, UsesWindow, Loads, unseen, hostvars
<1>9. ~TakesFrame /\ ~TakesFrame'
  BY <1>1 DEF TakesFrame, Loads
<1>10. Disarming'
  <2>1. TaskDisarms => TaskDisarms'
    BY <1>1, <1>3, <1>9 DEF TaskDisarms, Loads
  <2> QED
    BY <1>2, <2>1, SameEvents DEF SlaveInv, Inside
<1>11. ASSUME calm PROVE Ordered'
  <2>1. Orderly
    BY <1>11 DEF SlaveInv, BaseInv, Ordered, Orderly
  <2>2. ~WriteDue /\ ~WriteDue'
    BY <1>2, <1>9, <2>1, InsideKeeps DEF WriteDue
  <2>3. ASSUME ~EndDue
        PROVE  /\ host.at = "read" /\ host.next # NoPointer
               /\ From(w, host.next + Len(host.got))
               /\ pointer' = (host.next + (Len(host.got) + Len(w))) % RegCount
    <3>1. slave = "wait"
      BY <1>3, <2>1, <2>3 DEF Orderly, CoreFits, ReadDue, TaskAsks, Loads
    <3>2. host.at = "read" /\ rdwin = <<>>
      BY <2>1, <3>1 DEF Orderly, SlaveShape
    <3>3. host.next \in Pointers /\ Len(host.got) \in Nat
      BY <1>1, <3>2, HostKinds DEF SlaveTypeOK
    <3>4. Expected = host.next /\ Offset = Len(host.got) + Len(rdwin)
      BY <3>2 DEF Expected, Offset, Loads
    <3>5. Offset = Len(host.got)
      BY <3>2, <3>3, <3>4
    <3>6. host.next # NoPointer /\ pointer = (host.next + Len(host.got)) % RegCount
      BY <1>1, <1>2, <1>3, <2>1, <2>2, <2>3, <3>4, <3>5, InsideKeeps
      DEF Orderly, SlaveArmed, Permitted
    <3> DEFINE n == host.next + Len(host.got)
    <3>7. n \in Nat /\ n + Len(w) = host.next + (Len(host.got) + Len(w))
      <4>1. host.next \in Nat
        BY <1>4, <3>3, <3>6 DEF Pointers, SlaveRegs
      <4> QED
        BY <1>1, <3>3, <4>1
    <3>8. Run(w, n % RegCount)
      BY <3>6 DEF Loads
    <3> HIDE DEF n
    <3>9. From(w, n) /\ Advanced(n % RegCount, Len(w)) = (n + Len(w)) % RegCount
      BY <3>7, <3>8, RunContinues
    <3>10. pointer' = (n + Len(w)) % RegCount
      BY <3>6, <3>9 DEF Loads, n
    <3> QED
      BY <3>2, <3>6, <3>7, <3>9, <3>10 DEF n
  <2>4. SlaveArmed'
    <3> SUFFICES ASSUME ~EndDue PROVE SlaveArmed'
      BY <1>2, <2>1, InsideKeeps DEF SlaveArmed
    <3>1. Expected' = host.next /\ Offset' = Len(host.got) + Len(w)
      BY <1>1, <2>3 DEF Expected, Offset, Loads, unseen, hostvars
    <3> QED
      BY <2>2, <2>3, <3>1 DEF SlaveArmed
  <2>5. Serving'
    <3>1. host.at = "read" => ~EndDue
      BY <2>1 DEF Orderly, CoreFits
    <3> QED
      BY <1>1, <1>3, <2>1, <2>3, <3>1 DEF Orderly, Serving, From, Loads, unseen, hostvars
  <2> QED
    BY <1>2, <2>1, <2>4, <2>5, InsideKeeps DEF Ordered
<1>12. calm' = calm
  BY DEF Loads, unseen
<1> QED
  BY <1>6, <1>7, <1>8, <1>10, <1>11, <1>12 DEF SlaveInv, BaseInv

\* The window is loaded from the host's pointer.
LEMMA LoadWindowKeeps == ASSUME SlaveInv, load_window PROVE SlaveInv'
<1>1. task \in Tasks /\ task.at = "reply" /\ SlaveTypeOK
  BY TaskKinds DEF SlaveInv, BaseInv, SlaveTypeOK, load_window, Resting
<1>2. CASE \/ task' = [task EXCEPT !.at = "end"] /\ UNCHANGED <<pointer, valid>>
           \/ task' = [task EXCEPT !.at = "end", !.ok = FALSE] /\ UNCHANGED <<pointer, valid>>
  <2>1. task' \in Tasks /\ task'.flags = task.flags /\ task'.at = "end" /\ (task'.ok => task.ok)
    BY <1>1, <1>2 DEF Tasks, SlaveStages
  <2>2. Passes
    BY <1>1, <1>2, <2>1 DEF Passes, Inside, load_window, unseen, hostvars
  <2>3. SlaveTypeOK'
    BY <1>1, <1>2, <2>1 DEF SlaveTypeOK, load_window, unseen, hostvars
  <2> QED
    BY <2>2, <2>3, PassesKeeps
<1> DEFINE reg == ReadStart(pointer)
<1>3. reg = pointer /\ reg \in SlaveRegs /\ valid \in SUBSET SlaveRegs
  BY <1>1, ReadStartIsPointer DEF SlaveTypeOK
<1>4. CASE /\ WantsReply /\ reg \in valid
           /\ task' = [task EXCEPT !.at = "window", !.window = Cached(reg)]
           /\ pointer' = Advanced(reg, Len(Cached(reg))) /\ UNCHANGED valid
  <2>1. Run(Cached(reg), reg)
    BY <1>1, <1>4, CachedIsRun
  <2>2. Loads(Cached(reg))
    BY <1>1, <1>3, <1>4, <2>1 DEF Loads, load_window
  <2> QED
    BY <2>2, LoadsKeeps
<1>5. CASE /\ WantsReply /\ reg \notin valid
           /\ task' = [task EXCEPT !.at = "window", !.window = <<[reg |-> reg, val |-> chip[reg]]>>]
           /\ valid' = valid \cup {reg} /\ pointer' = Advanced(reg, 1)
  <2> DEFINE w == <<[reg |-> reg, val |-> chip[reg]]>>
  <2>1. Run(w, reg) /\ Len(w) = 1
    BY <1>1, <1>3, FetchedIsRun
  <2> HIDE DEF w
  <2>2. task' = [task EXCEPT !.at = "window", !.window = w]
    BY <1>5 DEF w
  <2>3. Loads(w)
    BY <1>1, <1>3, <1>5, <2>1, <2>2 DEF Loads, load_window
  <2> QED
    BY <2>3, LoadsKeeps
<1> HIDE DEF reg
<1> QED
  BY <1>2, <1>4, <1>5 DEF load_window, Go, Give, reg

\* The read of the host is accepted.
LEMMA AcceptReadKeeps == ASSUME SlaveInv, accept_read PROVE SlaveInv'
<1>1. task \in Tasks /\ task.at = "window" /\ task # Resting /\ SlaveTypeOK
  BY TaskKinds DEF SlaveInv, BaseInv, SlaveTypeOK, accept_read, Resting
<1>2. /\ task' \in Tasks /\ task'.flags = task.flags /\ task'.at = "end" /\ task' # Resting
      /\ task'.ok = task.ok
  BY <1>1 DEF accept_read, Go, Tasks, SlaveStages, Resting
<1>3. task.window \in Seq(WindowCells) /\ task.window # <<>>
  BY <1>1 DEF Tasks, SlaveInv, BaseInv, SlaveShape
<1>4. SlaveTypeOK'
  BY <1>1, <1>2, <1>3 DEF SlaveTypeOK, accept_read, hostvars
<1>5. SlaveShape'
  BY <1>1, <1>2, <1>3 DEF SlaveInv, BaseInv, SlaveShape, accept_read, hostvars
<1>6. WindowFits'
  <2>1. BytesSent' <=> BytesSent
    BY DEF BytesSent, accept_read, hostvars
  <2> QED
    BY <1>2, <2>1 DEF SlaveInv, BaseInv, WindowFits, UsesWindow, accept_read, hostvars
<1>7. ~TakesFrame /\ ~TakesFrame'
  BY <1>1, <1>2 DEF TakesFrame
<1>8. Disarming'
  <2>1. TaskDisarms => TaskDisarms'
    BY <1>1, <1>2, <1>7 DEF TaskDisarms, accept_read
  <2>2. UNCHANGED <<host, irq, queue, sent, loose, missed, torn>>
    BY DEF accept_read, hostvars
  <2> QED
    BY <2>1, <2>2, SameEvents DEF SlaveInv
<1>9. ASSUME calm PROVE Ordered'
  <2>1. Orderly
    BY <1>9 DEF SlaveInv, BaseInv, Ordered, Orderly
  <2>2. /\ EndDue' <=> EndDue
        /\ ~FrameDue /\ ~FrameDue' /\ ~WriteDue /\ ~WriteDue'
        /\ ~TaskAsks' /\ TaskAsks
    BY <1>1, <1>2, <1>7, <2>1
    DEF Orderly, Pipeline, EndDue, FrameDue, WriteDue, TaskAsks, accept_read, Serving
  <2>3. ~ReadDue'
    BY <2>1, <2>2 DEF Orderly, Pipeline, ReadDue, accept_read
  <2>4. Pipeline'
    BY <1>1, <1>2, <2>1, <2>2 DEF Orderly, Pipeline, accept_read
  <2>5. FrameFits'
    BY <1>2, <2>1, <2>2 DEF Orderly, FrameFits, accept_read
  <2>6. host.at # "header"
    BY <1>1, <2>1 DEF Orderly, CoreFits, SlaveQuiet
  <2>7. host' = host /\ loose' = loose /\ PointerOf(sent)' = PointerOf(sent)
    BY DEF accept_read, hostvars, PointerOf
  <2>8. CASE slave = "wait"
    <3>1. slave' = "serve" /\ rdwin' = task.window
      BY <2>8 DEF accept_read
    <3>2. host.at = "read"
      BY <2>1, <2>8 DEF Orderly, SlaveShape
    <3>3. From(task.window, host.next + Len(host.got)) /\ host.next # NoPointer
      BY <1>1, <2>1, <3>2 DEF Orderly, Serving
    <3>4. CoreFits'
      BY <2>1, <2>2, <2>3, <2>7, <3>2 DEF Orderly, CoreFits
    <3>5. Expected' = Expected /\ Offset' = Offset
      BY <1>1, <1>2, <2>7, <3>1, <3>2 DEF Expected, Offset
    <3>6. SlaveArmed'
      BY <1>1, <1>2, <2>1, <2>2, <2>6, <2>7, <3>2, <3>5
      DEF Orderly, SlaveArmed, accept_read, Permitted
    <3>7. Serving'
      BY <1>2, <2>1, <2>7, <3>1, <3>2, <3>3 DEF Orderly, Serving, From
    <3> QED
      BY <2>4, <2>5, <3>4, <3>6, <3>7 DEF Ordered
  <2>9. CASE slave # "wait"
    <3>1. UNCHANGED <<slave, rdwin>>
      BY <2>9 DEF accept_read
    <3>2. EndDue /\ host.at = "idle"
      BY <2>1, <2>2, <2>9 DEF Orderly, CoreFits, ReadDue
    <3>3. CoreFits'
      BY <2>2, <2>3, <2>7, <3>1, <3>2 DEF CoreFits
    <3>4. SlaveArmed' /\ Serving'
      BY <1>2, <2>2, <2>7, <3>2 DEF SlaveArmed, Serving
    <3> QED
      BY <2>4, <2>5, <3>3, <3>4 DEF Ordered
  <2> QED
    BY <2>8, <2>9
<1>10. calm' = calm
  BY DEF accept_read
<1> QED
  BY <1>4, <1>5, <1>6, <1>8, <1>9, <1>10 DEF SlaveInv, BaseInv

\* The transaction ends: nothing stays armed.
LEMMA EndTransactionKeeps == ASSUME SlaveInv, end_transaction PROVE SlaveInv'
<1>1. task \in Tasks /\ task.at = "end" /\ task # Resting /\ SlaveTypeOK
  BY TaskKinds DEF SlaveInv, BaseInv, SlaveTypeOK, end_transaction, Resting
<1>2. task' = Resting /\ task'.at = "idle"
  BY DEF end_transaction, Resting
<1>3. /\ read_armed' \in BOOLEAN
      /\ read_armed' => read_armed /\ task.ok /\ ~Ends(task.flags)
  BY DEF end_transaction, Ends
<1>4. SlaveTypeOK'
  BY <1>1, <1>2, <1>3 DEF SlaveTypeOK, end_transaction, unseen, hostvars
<1>5. SlaveShape'
  BY <1>2 DEF SlaveInv, BaseInv, SlaveShape, end_transaction, unseen, hostvars
<1>6. WindowFits'
  <2>1. BytesSent' <=> BytesSent
    BY DEF BytesSent, end_transaction, unseen, hostvars
  <2> QED
    BY <1>2, <2>1 DEF SlaveInv, BaseInv, WindowFits, UsesWindow, end_transaction, unseen, hostvars
<1>7. ~TakesFrame /\ ~TakesFrame'
  BY <1>1, <1>2 DEF TakesFrame
<1>8. Disarming'
  <2>1. TaskDisarms => TaskDisarms'
    BY <1>1, <1>2, <1>3, <1>7 DEF TaskDisarms
  <2>2. UNCHANGED <<host, irq, queue, sent, loose, missed, torn>>
    BY DEF end_transaction, unseen, hostvars
  <2> QED
    BY <2>1, <2>2, SameEvents DEF SlaveInv
<1>9. ASSUME calm PROVE Ordered'
  <2>1. Orderly
    BY <1>9 DEF SlaveInv, BaseInv, Ordered, Orderly
  <2>2. UNCHANGED <<host, irq, queue, slave, rdwin, sent, loose, torn, hdr, pointer>>
    BY DEF end_transaction, unseen, hostvars
  <2>3. ~FrameDue /\ ~FrameDue' /\ ~WriteDue /\ ~WriteDue' /\ ~TaskAsks /\ ~TaskAsks'
    BY <1>1, <1>2, <1>7, <2>1, <2>2 DEF Orderly, Pipeline, FrameDue, WriteDue, TaskAsks
  <2>4. /\ EndDue' => EndDue
        /\ ~EndDue' => ~EndDue \/ (Ends(task.flags) /\ queue = <<>> /\ irq = {})
    BY <1>1, <1>2, <2>1, <2>2 DEF Orderly, Pipeline, EndDue
  <2>5. ReadDue' <=> ReadDue
    BY <2>2, <2>3 DEF ReadDue
  <2>6. ReadDue' => EndDue' \/ slave = "wait"
    BY <2>1, <2>3, <2>4, <2>5, FlagKinds DEF Orderly, CoreFits, ReadDue
  <2>7. host.at # "header"
    BY <1>1, <2>1 DEF Orderly, CoreFits, SlaveQuiet
  <2>8. Pipeline'
    BY <1>1, <1>2, <2>1, <2>2, <2>3 DEF Orderly, Pipeline
  <2>9. CoreFits'
    BY <2>1, <2>2, <2>4, <2>6, <2>7 DEF Orderly, CoreFits
  <2>10. FrameFits'
    BY <1>2, <2>1, <2>2, <2>3 DEF Orderly, FrameFits
  <2>11. SlaveArmed'
    <3>1. Expected' = Expected /\ Offset' = Offset
      BY <1>1, <1>2, <2>2 DEF Expected, Offset
    <3>2. Permitted' => Permitted /\ ~Ends(task.flags)
      BY <1>3 DEF Permitted
    <3> QED
      BY <2>1, <2>2, <2>3, <2>4, <2>7, <3>1, <3>2 DEF Orderly, SlaveArmed
  <2>12. Serving'
    BY <1>1, <1>2, <2>1, <2>2 DEF Orderly, Serving, From
  <2> QED
    BY <2>8, <2>9, <2>10, <2>11, <2>12 DEF Ordered
<1>10. calm' = calm
  BY DEF end_transaction, unseen
<1> QED
  BY <1>4, <1>5, <1>6, <1>8, <1>9, <1>10 DEF SlaveInv, BaseInv

\* slave_isr never meets a full queue while the host is calm: a transaction
\* makes at most three events.
LEMMA QueueHasRoom ==
    ASSUME Orderly, irq # {}
    PROVE  Len(queue) < QueueMax
<1> SUFFICES ASSUME Len(queue) >= 3 PROVE FALSE
  BY SlaveAssumption DEF Orderly, SlaveTypeOK
<1>1. 2 \in DOMAIN queue /\ 3 \in DOMAIN queue
  BY DEF Orderly, SlaveTypeOK
<1>2. ~Brings(queue[2]) /\ ~Brings(queue[3]) /\ ~Ends(queue[2]) /\ ~Ends(queue[3])
  BY <1>1 DEF Orderly, Pipeline
<1>3. Wants(queue[2]) /\ Wants(queue[3])
  BY <1>1, <1>2 DEF Orderly, Pipeline
<1> QED
  BY <1>1, <1>3 DEF Orderly, Pipeline

\* Reading the flags, or doing nothing.
OnlyReads ==
    /\ UNCHANGED <<adapter, host, irq, hdr, data, rdwin, slave, queue, task, pointer, read_armed,
                   chip, valid, sent, loose, calm, torn, missed>>
    /\ captured' \in SUBSET Flags /\ captured' \subseteq irq

\* A step that only reads keeps everything.
LEMMA OnlyReadsKeeps == ASSUME SlaveInv, OnlyReads PROVE SlaveInv'
<1>1. /\ Expected' = Expected /\ Offset' = Offset /\ (Permitted' <=> Permitted)
      /\ TakesFrame' = TakesFrame /\ (BytesSent' <=> BytesSent) /\ (UsesWindow' <=> UsesWindow)
      /\ (TaskAsks' <=> TaskAsks) /\ (EndDue' <=> EndDue) /\ (FrameDue' <=> FrameDue)
      /\ (TaskDisarms' <=> TaskDisarms) /\ PointerOf(sent)' = PointerOf(sent)
      /\ (SlaveQuiet' <=> SlaveQuiet)
  BY DEF OnlyReads, Expected, Offset, Permitted, TakesFrame, BytesSent, UsesWindow, TaskAsks, EndDue,
         FrameDue, TaskDisarms, PointerOf, SlaveQuiet
<1>2. (ReadDue' <=> ReadDue) /\ (WriteDue' <=> WriteDue)
  BY <1>1 DEF OnlyReads, ReadDue, WriteDue
<1>3. SlaveTypeOK' /\ SlaveShape'
  BY DEF OnlyReads, SlaveInv, BaseInv, SlaveTypeOK, SlaveShape
<1>4. WindowFits'
  BY <1>1 DEF OnlyReads, SlaveInv, BaseInv, WindowFits
<1>5. Disarming'
  BY <1>1, SameEvents DEF OnlyReads, SlaveInv
<1>6. ASSUME calm PROVE Ordered'
  <2>1. Orderly
    BY <1>6 DEF SlaveInv, BaseInv, Ordered, Orderly
  <2>2. Pipeline'
    BY <1>1, <2>1 DEF OnlyReads, Orderly, Pipeline
  <2>3. CoreFits' /\ FrameFits'
    BY <1>1, <1>2, <2>1 DEF OnlyReads, Orderly, CoreFits, FrameFits
  <2>4. SlaveArmed'
    BY <1>1, <1>2, <2>1 DEF OnlyReads, Orderly, SlaveArmed
  <2>5. Serving'
    BY <2>1 DEF OnlyReads, Orderly, Serving, From
  <2> QED
    BY <2>2, <2>3, <2>4, <2>5 DEF Ordered
<1> QED
  BY <1>3, <1>4, <1>5, <1>6 DEF OnlyReads, SlaveInv, BaseInv

\* The interrupt handler, or the thread, reads the flags.
LEMMA CaptureKeeps == ASSUME SlaveInv, bvstk_i2c_slave_hw_capture_irq PROVE SlaveInv'
<1>1. OnlyReads
  BY DEF bvstk_i2c_slave_hw_capture_irq, OnlyReads, hostvars, taskvars, SlaveInv, BaseInv, SlaveTypeOK
<1> QED
  BY <1>1, OnlyReadsKeeps

\* The interrupt handler moves what was read to the queue and resets the
\* flags.
LEMMA SlaveIsrKeeps == ASSUME SlaveInv, slave_isr PROVE SlaveInv'
<1>1. /\ queue \in Seq(SUBSET Flags) /\ irq \in SUBSET Flags /\ captured \in SUBSET Flags
      /\ captured \subseteq irq /\ captured # {} /\ irq # {} /\ irq' = {} /\ captured' = {}
      /\ SlaveTypeOK
  BY DEF SlaveInv, BaseInv, SlaveTypeOK, SlaveShape, slave_isr
<1>2. UNCHANGED <<adapter, host, hdr, data, rdwin, slave, task, pointer, read_armed, chip, valid,
                  sent, loose, torn>>
  BY DEF slave_isr, hostvars
<1>3. queue' \in Seq(SUBSET Flags)
  <2>1. queue' = Append(queue, captured) \/ queue' = queue
    BY DEF slave_isr
  <2> QED
    BY <1>1, <2>1
<1>4. SlaveTypeOK'
  BY <1>1, <1>2, <1>3 DEF SlaveTypeOK, slave_isr
<1>5. SlaveShape'
  BY <1>1, <1>2 DEF SlaveInv, BaseInv, SlaveShape
<1>6. BytesSent' <=> BytesSent
  BY <1>2 DEF BytesSent
<1>7. WindowFits'
  BY <1>2, <1>6 DEF SlaveInv, BaseInv, WindowFits, UsesWindow
<1>8. Disarming'
  <2> SUFFICES ASSUME NoPointerLeft'
               PROVE  IF irq' # {} \/ queue' # <<>> THEN Disarms(LastFlags)' ELSE TaskDisarms'
    BY DEF Disarming
  <2>1. ~missed /\ irq = captured /\ EventFits
    BY DEF NoPointerLeft, slave_isr
  <2>2. NoPointerLeft
    BY <1>2, <2>1 DEF NoPointerLeft
  <2>3. Disarms(irq)
    BY <1>1, <2>2 DEF SlaveInv, Disarming, LastFlags
  <2>4. queue' = Append(queue, irq)
    BY <2>1 DEF slave_isr
  <2>5. queue' # <<>> /\ queue'[Len(queue')] = irq
    BY <1>1, <2>4
  <2>6. LastFlags' = irq
    BY <1>1, <2>5 DEF LastFlags
  <2>7. Disarms(LastFlags)'
    BY <1>2, <2>3, <2>6 DEF Disarms, PointerOf
  <2> QED
    BY <2>5, <2>7
<1>9. ASSUME calm' PROVE Ordered'
  <2>1. calm /\ irq = captured
    BY <1>9 DEF slave_isr
  <2>2. Orderly
    BY <2>1 DEF SlaveInv, BaseInv, Ordered, Orderly
  <2>3. queue' = Append(queue, irq)
    BY <1>1, <2>1, <2>2, QueueHasRoom DEF slave_isr, EventFits
  <2> DEFINE n == Len(queue) + 1
  <2>4. /\ n \in Nat /\ n >= 1 /\ Len(queue') = n /\ queue'[n] = irq
        /\ DOMAIN queue' = DOMAIN queue \cup {n} /\ n \notin DOMAIN queue
        /\ DOMAIN queue = 1 .. n - 1
        /\ \A i \in DOMAIN queue : queue'[i] = queue[i]
    BY <1>1, <2>3
  <2>5. queue = <<>> => n = 1
    BY <1>1
  <2> HIDE DEF n
  <2>6. TaskAsks' <=> TaskAsks
    BY <1>2 DEF TaskAsks
  <2>7. EndDue' <=> EndDue
    BY <1>1, <1>2, <2>4, FlagKinds DEF EndDue
  <2>8. ReadDue' <=> ReadDue
    BY <1>1, <2>4, <2>6, FlagKinds DEF ReadDue
  <2>9. (FrameDue' <=> FrameDue) /\ (WriteDue' <=> WriteDue)
    BY <1>1, <1>2, <2>4, FlagKinds DEF FrameDue, WriteDue, TakesFrame
  <2>10. Pipeline'
    <3>1. ASSUME NEW i \in DOMAIN queue', Brings(queue'[i]) PROVE i = 1 /\ task' = Resting
      BY <1>2, <2>2, <2>4, <2>5, <3>1 DEF Orderly, Pipeline
    <3>2. ASSUME NEW i \in DOMAIN queue', Ends(queue'[i]) PROVE i = Len(queue') /\ irq' = {}
      BY <1>1, <2>2, <2>4, <3>2 DEF Orderly, Pipeline
    <3>3. task' # Resting => ~Ends(task'.flags)
      BY <1>1, <1>2, <2>2 DEF Orderly, Pipeline
    <3>4. ASSUME NEW i \in DOMAIN queue', Wants(queue'[i])
          PROVE  ~TaskAsks' /\ \A j \in DOMAIN queue' : Wants(queue'[j]) => i = j
      BY <2>2, <2>4, <2>6, <3>4 DEF Orderly, Pipeline
    <3>5. ASSUME NEW i \in DOMAIN queue'
          PROVE  Brings(queue'[i]) \/ Wants(queue'[i]) \/ Ends(queue'[i])
      BY <1>1, <2>2, <2>4 DEF Orderly, Pipeline
    <3> QED
      BY <1>1, <3>1, <3>2, <3>3, <3>4, <3>5, FlagKinds DEF Pipeline
  <2>11. host.at # "header"
    BY <1>1, <2>2 DEF Orderly, CoreFits, SlaveQuiet
  <2>12. CoreFits'
    BY <1>2, <2>2, <2>7, <2>8, <2>11 DEF Orderly, CoreFits
  <2>13. FrameFits'
    BY <1>2, <2>2, <2>9 DEF Orderly, FrameFits
  <2>14. SlaveArmed'
    <3>1. /\ Expected' = Expected /\ Offset' = Offset /\ PointerOf(sent)' = PointerOf(sent)
          /\ Permitted' <=> Permitted
      BY <1>2 DEF Expected, Offset, PointerOf, Permitted
    <3> QED
      BY <1>2, <2>2, <2>7, <2>9, <3>1 DEF Orderly, SlaveArmed
  <2>15. Serving'
    BY <1>2, <2>2 DEF Orderly, Serving, From
  <2> QED
    BY <2>10, <2>12, <2>13, <2>14, <2>15 DEF Ordered
<1> QED
  BY <1>4, <1>5, <1>7, <1>8, <1>9 DEF SlaveInv, BaseInv

\* The task takes the next event from the queue.
LEMMA ReceiveEventKeeps == ASSUME SlaveInv, ReceiveEvent PROVE SlaveInv'
<1> DEFINE f == Head(queue)
<1>1. /\ queue \in Seq(SUBSET Flags) /\ queue # <<>> /\ task = Resting /\ task.at = "idle"
      /\ SlaveTypeOK
  BY DEF SlaveInv, BaseInv, SlaveTypeOK, ReceiveEvent, Resting
<1>2. /\ f = queue[1] /\ f \in SUBSET Flags /\ 1 \in DOMAIN queue
      /\ queue' \in Seq(SUBSET Flags) /\ Len(queue') = Len(queue) - 1
      /\ Len(queue) \in Nat /\ Len(queue) >= 1
      /\ DOMAIN queue = 1 .. Len(queue) /\ DOMAIN queue' = 1 .. Len(queue) - 1
      /\ \A i \in DOMAIN queue' : i + 1 \in DOMAIN queue /\ queue'[i] = queue[i + 1] /\ i + 1 # 1
      /\ \A i \in DOMAIN queue : i = 1 \/ (i - 1 \in DOMAIN queue' /\ queue[i] = queue'[i - 1])
  BY <1>1 DEF ReceiveEvent
<1>3. torn' = (torn \/ (Brings(f) /\ host.at = "header"))
  BY DEF ReceiveEvent, Brings
<1>4. /\ task' \in Tasks /\ task' # Resting /\ task'.flags = f /\ task'.ok
      /\ task'.at = (IF Brings(f) THEN "header" ELSE "reply")
  <2>1. task' = [at |-> IF "DATA_VALID" \in f THEN "header" ELSE "reply",
                 flags |-> f, ok |-> TRUE, size |-> 0, frame |-> <<>>, next |-> 0,
                 window |-> <<>>]
    BY DEF ReceiveEvent
  <2> HIDE DEF f
  <2> QED
    BY <1>2, <2>1 DEF Brings, Tasks, SlaveStages, Resting
<1> HIDE DEF f
<1>5. UNCHANGED <<adapter, host, irq, hdr, data, rdwin, slave, captured, pointer, read_armed, chip,
                  valid, sent, loose, calm, missed>>
  BY DEF ReceiveEvent, unseen, hostvars
<1>6. SlaveTypeOK'
  BY <1>1, <1>2, <1>3, <1>4, <1>5 DEF SlaveTypeOK
<1>7. SlaveShape'
  BY <1>4, <1>5 DEF SlaveInv, BaseInv, SlaveShape
<1>8. BytesSent' <=> BytesSent
  BY <1>5 DEF BytesSent
<1>9. WindowFits'
  BY <1>3, <1>4, <1>5, <1>8 DEF SlaveInv, BaseInv, WindowFits, UsesWindow
<1>10. Disarming'
  <2> SUFFICES ASSUME NoPointerLeft'
               PROVE  IF irq' # {} \/ queue' # <<>> THEN Disarms(LastFlags)' ELSE TaskDisarms'
    BY DEF Disarming
  <2>1. NoPointerLeft
    BY <1>3, <1>5 DEF NoPointerLeft
  <2>2. Disarms(LastFlags)
    BY <1>1, <2>1 DEF SlaveInv, Disarming
  <2>3. CASE irq' # {} \/ queue' # <<>>
    <3>1. LastFlags' = LastFlags
      <4>1. CASE irq # {}
        BY <1>5, <4>1 DEF LastFlags
      <4>2. CASE irq = {}
        <5>1. Len(queue') \in DOMAIN queue'
          BY <1>2, <1>5, <2>3, <4>2
        <5>2. queue'[Len(queue')] = queue[Len(queue)]
          BY <1>2, <5>1
        <5> QED
          BY <1>5, <4>2, <5>2 DEF LastFlags
      <4> QED
        BY <4>1, <4>2
    <3> QED
      BY <1>5, <2>2, <2>3, <3>1 DEF Disarms, PointerOf
  <2>4. CASE irq' = {} /\ queue' = <<>>
    <3>1. LastFlags = f
      BY <1>2, <1>5, <2>4 DEF LastFlags
    <3>2. Ends(f) \/ (Brings(f) /\ PointerOf(sent) = NoPointer)
      BY <2>2, <3>1 DEF Disarms
    <3>3. Brings(f) => TakesFrame'
      BY <1>4 DEF TakesFrame
    <3>4. TaskDisarms'
      BY <1>4, <1>5, <3>2, <3>3 DEF TaskDisarms, PointerOf
    <3> QED
      BY <2>4, <3>4
  <2> QED
    BY <2>3, <2>4
<1>11. ASSUME calm PROVE Ordered'
  <2>1. Orderly
    BY <1>11 DEF SlaveInv, BaseInv, Ordered, Orderly
  <2>2. TaskAsks' <=> Wants(f)
    BY <1>4 DEF TaskAsks
  <2>3. EndDue' <=> EndDue
    <3>1. EndDue' => EndDue
      BY <1>2, <1>4, <1>5 DEF EndDue
    <3>2. ASSUME NEW i \in DOMAIN queue, Ends(queue[i]) PROVE EndDue'
      BY <1>2, <1>4, <3>2 DEF EndDue
    <3> QED
      BY <1>1, <1>5, <3>1, <3>2 DEF EndDue
  <2>4. ReadDue' <=> ReadDue
    <3>1. ReadDue' => ReadDue
      BY <1>2, <1>5, <2>2 DEF ReadDue
    <3>2. ASSUME NEW i \in DOMAIN queue, Wants(queue[i]) PROVE ReadDue'
      BY <1>2, <2>2, <3>2 DEF ReadDue
    <3> QED
      BY <1>1, <1>5, <3>1, <3>2 DEF ReadDue, TaskAsks
  <2>5. ~Brings(irq) /\ \A i \in DOMAIN queue' : ~Brings(queue'[i])
    BY <1>1, <1>2, <2>1 DEF Orderly, Pipeline
  <2>6. ~FrameDue' /\ (FrameDue <=> Brings(f))
    BY <1>2, <1>5, <2>1, <2>5 DEF FrameDue, Orderly, Pipeline
  <2>7. (WriteDue' <=> WriteDue) /\ (WriteDue <=> Brings(f))
    BY <1>1, <1>4, <2>6 DEF WriteDue, TakesFrame
  <2>8. Pipeline'
    <3>1. ASSUME NEW i \in DOMAIN queue', Ends(queue'[i]) PROVE i = Len(queue') /\ irq' = {}
      BY <1>2, <1>5, <2>1, <3>1 DEF Orderly, Pipeline
    <3>2. Ends(f) => queue' = <<>> /\ irq' = {}
      BY <1>2, <1>5, <2>1 DEF Orderly, Pipeline
    <3>3. Wants(irq) => (\A i \in DOMAIN queue' : ~Wants(queue'[i])) /\ ~Wants(f)
      BY <1>2, <2>1 DEF Orderly, Pipeline
    <3>4. ASSUME NEW i \in DOMAIN queue', Wants(queue'[i])
          PROVE  ~Wants(f) /\ \A j \in DOMAIN queue' : Wants(queue'[j]) => i = j
      BY <1>2, <2>1, <3>4 DEF Orderly, Pipeline
    <3>5. ASSUME NEW i \in DOMAIN queue'
          PROVE  Brings(queue'[i]) \/ Wants(queue'[i]) \/ Ends(queue'[i])
      BY <1>2, <2>1 DEF Orderly, Pipeline
    <3>6. irq' = irq /\ (irq = {} \/ Brings(irq) \/ Wants(irq) \/ Ends(irq))
      BY <1>5, <2>1 DEF Orderly, Pipeline
    <3> QED
      BY <1>4, <2>2, <2>5, <3>1, <3>2, <3>3, <3>4, <3>5, <3>6 DEF Pipeline
  <2>9. host.at # "header"
    BY <1>1, <2>1 DEF Orderly, CoreFits, SlaveQuiet
  <2>10. CoreFits'
    BY <1>5, <2>1, <2>3, <2>4, <2>9 DEF Orderly, CoreFits
  <2>11. FrameFits'
    BY <1>3, <1>4, <1>5, <2>1, <2>6, <2>9 DEF Orderly, FrameFits
  <2>12. SlaveArmed'
    <3>1. /\ Expected' = Expected /\ Offset' = Offset /\ PointerOf(sent)' = PointerOf(sent)
          /\ Permitted' <=> Permitted
      BY <1>1, <1>4, <1>5 DEF Expected, Offset, PointerOf, Permitted
    <3> QED
      BY <1>5, <2>1, <2>3, <2>7, <3>1 DEF Orderly, SlaveArmed
  <2>13. Serving'
    BY <1>1, <1>4, <1>5, <2>1 DEF Orderly, Serving, From
  <2> QED
    BY <2>8, <2>10, <2>11, <2>12, <2>13 DEF Ordered
<1> QED
  BY <1>5, <1>6, <1>7, <1>9, <1>10, <1>11 DEF SlaveInv, BaseInv

\* The host sends the bytes of a frame.
LEMMA WriteDataKeeps == ASSUME SlaveInv, WriteData PROVE SlaveInv'
<1>1. host.at = "idle" /\ SlaveTypeOK /\ SlaveShape /\ slave = "idle"
  BY DEF SlaveInv, BaseInv, SlaveShape, WriteData
<1>2. PICK f \in Frames, then \in {"stop", "restart"} :
          /\ host' = [at |-> "header", then |-> then] /\ sent' = f
          /\ data' = [i \in 1 .. WindowBytes |-> IF i <= Len(f) THEN f[i] ELSE data[i]]
  BY DEF WriteData
<1>3. host' \in Hosts /\ host'.at = "header" /\ sent' = f /\ loose' = NoPointer
  BY <1>2 DEF Hosts, WriteData
<1>4. UNCHANGED <<adapter, irq, hdr, rdwin, slave, captured, queue, task, pointer, read_armed, chip,
                  valid, missed>>
  BY DEF WriteData, taskvars
<1>5. /\ f \in Seq(Nat) /\ Len(f) \in Nat /\ Len(f) <= WindowBytes /\ WindowBytes \in Nat
      /\ \A i \in 1 .. Len(f) : f[i] \in Nat
  <2>1. f \in Seq(Nat) /\ Len(f) <= WindowBytes
    BY SlaveAssumption
  <2>2. \A i \in 1 .. Len(f) : f[i] \in Nat
    BY <2>1, ElementOfSeq
  <2> QED
    BY <2>1, <2>2, SlaveAssumption
<1>6. data' \in [1 .. WindowBytes -> Nat] /\ \A i \in DOMAIN f : data'[i] = f[i]
  <2>1. data \in [1 .. WindowBytes -> Nat]
    BY <1>1 DEF SlaveTypeOK
  <2>2. \A i \in 1 .. WindowBytes : (IF i <= Len(f) THEN f[i] ELSE data[i]) \in Nat
    BY <1>5, <2>1
  <2>3. DOMAIN f = 1 .. Len(f) /\ \A i \in DOMAIN f : i \in 1 .. WindowBytes /\ i <= Len(f)
    BY <1>5
  <2> QED
    BY <1>2, <2>2, <2>3
<1>7. BytesSent'
  BY <1>3, <1>6 DEF BytesSent
<1>8. torn' \in BOOLEAN /\ calm' \in BOOLEAN /\ (torn' <=> UsesWindow) /\ (calm' <=> SlaveQuiet)
  <2>1. torn' = UsesWindow
    BY Zenon DEF WriteData
  <2>2. UsesWindow \in BOOLEAN
    BY DEF UsesWindow
  <2>3. calm' = SlaveQuiet /\ SlaveQuiet \in BOOLEAN
    BY Zenon DEF WriteData, SlaveQuiet
  <2> QED
    BY <2>1, <2>2, <2>3, Zenon
<1>9. SlaveTypeOK'
  <2>1. NoPointer \in Pointers
    BY DEF Pointers
  <2> QED
    BY <1>1, <1>3, <1>4, <1>6, <1>8, <2>1 DEF SlaveTypeOK
<1>10. SlaveShape'
  BY <1>1, <1>3, <1>4 DEF SlaveShape
<1>11. WindowFits'
  BY <1>3, <1>4, <1>7, <1>8 DEF WindowFits, UsesWindow
<1>12. Disarming'
  BY <1>3 DEF Disarming, NoPointerLeft
<1>13. ASSUME calm' PROVE Ordered'
  <2>1. SlaveQuiet' /\ ~torn'
    BY <1>4, <1>8, <1>13, QuietOwesNothing DEF SlaveQuiet, UsesWindow
  <2>2. irq' = {} /\ queue' = <<>> /\ task' = Resting /\ task'.at = "idle"
    BY <2>1 DEF SlaveQuiet, Resting
  <2>3. ~EndDue' /\ ~ReadDue' /\ ~FrameDue'
    BY <2>2, FlagKinds DEF Resting, EndDue, ReadDue, FrameDue, TaskAsks
  <2>4. Pipeline'
    BY <2>2, FlagKinds DEF Pipeline
  <2>5. CoreFits' /\ FrameFits'
    BY <1>3, <2>1, <2>2, <2>3 DEF CoreFits, FrameFits
  <2>6. SlaveArmed' /\ Serving'
    BY <1>3, <2>2 DEF SlaveArmed, Serving
  <2> QED
    BY <2>4, <2>5, <2>6 DEF Ordered
<1> QED
  BY <1>9, <1>10, <1>11, <1>12, <1>13 DEF SlaveInv, BaseInv

\* The host's frame is announced.
LEMMA WriteHeaderKeeps == ASSUME SlaveInv, WriteHeader PROVE SlaveInv'
<1> DEFINE w == {"DATA_VALID", "FINAL_PACKET"}
           m == IF irq # {} THEN {"MEM_OVERFLOW"} ELSE {}
<1>1. host.at = "header" /\ SlaveTypeOK /\ SlaveShape /\ slave = "idle" /\ sent \in Frames
  BY DEF SlaveInv, BaseInv, SlaveShape, WriteHeader
<1>2. irq' = irq \cup (w \cup m)
  BY DEF WriteHeader, Raise
<1>3. /\ Brings(w) /\ ~Wants(w) /\ ~Ends(w) /\ w \in SUBSET Flags /\ m \in SUBSET Flags
      /\ irq = {} => m = {}
  BY DEF Brings, Wants, Ends, bvstk_i2c_slave_irq_ends_read, Errors, Flags
<1> HIDE DEF w, m
<1>4. irq' \in SUBSET Flags /\ Brings(irq') /\ irq \subseteq irq' /\ irq' # {}
  BY <1>1, <1>2, <1>3, FlagKinds DEF SlaveTypeOK, Brings
<1>5. Len(sent) \in Nat /\ Len(sent) >= 1 /\ PointerOf(sent) \in Pointers
  BY <1>1, SentKinds
<1>6. /\ host' \in Hosts /\ host'.at \in {"idle", "turn"} /\ loose' \in Pointers
      /\ host'.at = "idle" => loose' = PointerOf(sent)
      /\ host'.at = "turn" => host'.next = PointerOf(sent)
  <2>1. CASE host.then = "stop"
    BY <1>5, <2>1 DEF WriteHeader, Hosts
  <2>2. CASE host.then # "stop"
    BY <1>1, <1>5, <2>2 DEF WriteHeader, Hosts, SlaveTypeOK
  <2> QED
    BY <2>1, <2>2
<1>7. /\ hdr' = Len(sent) /\ missed' = FALSE
      /\ UNCHANGED <<adapter, data, rdwin, slave, captured, sent, calm, torn, queue, task, pointer,
                     read_armed, chip, valid>>
  BY DEF WriteHeader, taskvars
<1>8. PointerOf(sent)' = PointerOf(sent) /\ (BytesSent' <=> BytesSent)
  BY <1>7 DEF PointerOf, BytesSent
<1>9. SlaveTypeOK'
  BY <1>1, <1>4, <1>5, <1>6, <1>7 DEF SlaveTypeOK
<1>10. SlaveShape'
  BY <1>1, <1>4, <1>6, <1>7 DEF SlaveShape
<1>11. WindowFits'
  BY <1>1, <1>6, <1>7, <1>8 DEF SlaveInv, BaseInv, WindowFits
<1>12. Disarming'
  <2> SUFFICES ASSUME NoPointerLeft' PROVE Disarms(LastFlags)'
    BY <1>4 DEF Disarming
  <2>1. PointerOf(sent)' = NoPointer
    BY <1>6, <1>8 DEF NoPointerLeft
  <2>2. LastFlags' = irq'
    BY <1>4 DEF LastFlags
  <2> QED
    BY <1>4, <2>1, <2>2 DEF Disarms
<1>13. ASSUME calm PROVE Ordered'
  <2>1. Orderly
    BY <1>13 DEF SlaveInv, BaseInv, Ordered, Orderly
  <2>2. SlaveQuiet
    BY <1>1, <2>1 DEF Orderly, CoreFits
  <2>3. irq' = w /\ queue' = <<>> /\ task' = Resting /\ task'.at = "idle" /\ queue = <<>>
    BY <1>2, <1>3, <1>7, <2>2, QuietOwesNothing
  <2>4. ~EndDue' /\ ~ReadDue' /\ FrameDue' /\ WriteDue' /\ ~TaskAsks'
    BY <1>3, <2>3 DEF EndDue, ReadDue, FrameDue, WriteDue, TaskAsks
  <2>5. Pipeline'
    BY <1>3, <2>3, <2>4 DEF Pipeline
  <2>6. CoreFits'
    BY <1>6, <2>4 DEF CoreFits
  <2>7. FrameFits'
    BY <1>5, <1>7, <2>1 DEF Orderly, FrameFits
  <2>8. Expected' = PointerOf(sent)
    BY <1>6 DEF Expected
  <2>9. SlaveArmed' /\ Serving'
    BY <1>6, <1>8, <2>3, <2>4, <2>8 DEF SlaveArmed, Serving
  <2> QED
    BY <2>5, <2>6, <2>7, <2>9 DEF Ordered
<1> QED
  BY <1>7, <1>9, <1>10, <1>11, <1>12, <1>13 DEF SlaveInv, BaseInv

\* A request raised by a core that owes none.
LEMMA RequestRaised ==
    ASSUME Orderly, ~EndDue, ~ReadDue,
           irq' = irq \cup {"RD_REQUEST"}, UNCHANGED <<queue, task>>
    PROVE  /\ Pipeline' /\ ~EndDue'
           /\ FrameDue' <=> FrameDue
           /\ WriteDue' <=> WriteDue
<1>1. /\ Wants(irq') /\ (Brings(irq') <=> Brings(irq)) /\ ~Ends(irq')
  <2>1. ~Ends(irq)
    BY DEF EndDue
  <2> QED
    BY <2>1 DEF Wants, Brings, Ends, bvstk_i2c_slave_irq_ends_read, Errors
<1>2. ~Wants(irq) /\ ~TaskAsks /\ \A i \in DOMAIN queue : ~Wants(queue[i])
  BY DEF ReadDue
<1>3. /\ \A i \in DOMAIN queue : ~Ends(queue[i])
      /\ task # Resting => ~Ends(task.flags)
  BY DEF EndDue
<1>4. (TaskAsks' <=> TaskAsks) /\ (TakesFrame' <=> TakesFrame)
  BY DEF TaskAsks, TakesFrame
<1>5. ~EndDue' /\ (FrameDue' <=> FrameDue) /\ (WriteDue' <=> WriteDue)
  BY <1>1, <1>3, <1>4 DEF EndDue, FrameDue, WriteDue
<1>6. Pipeline'
  BY <1>1, <1>2, <1>3, <1>4 DEF Orderly, Pipeline
<1> QED
  BY <1>5, <1>6

\* The host begins a read.
LEMMA ReadAddressKeeps == ASSUME SlaveInv, ReadAddress PROVE SlaveInv'
<1>1. /\ host.at \in {"turn", "idle"} /\ SlaveTypeOK /\ SlaveShape
      /\ slave = "idle" /\ rdwin = <<>>
  BY DEF SlaveInv, BaseInv, SlaveShape, ReadAddress
<1>2. host' = [at |-> "read", next |-> Expected, got |-> <<>>] /\ Expected \in Pointers
  BY <1>1, HostKinds DEF ReadAddress, Expected, SlaveTypeOK
<1>3. /\ host' \in Hosts /\ host'.at = "read" /\ host'.next = Expected /\ host'.got = <<>>
  BY <1>2 DEF Hosts
<1>4. irq' = irq \cup {"RD_REQUEST"} /\ slave' = "wait" /\ loose' = NoPointer
  BY DEF ReadAddress, Raise
<1>5. UNCHANGED <<adapter, hdr, data, rdwin, captured, sent, torn, missed, queue, task, pointer,
                  read_armed, chip, valid>>
  BY DEF ReadAddress, taskvars
<1>6. calm' \in BOOLEAN /\ (calm' => calm /\ (host.at = "turn" \/ SlaveQuiet))
  <2>1. calm' = calm \/ calm' = (calm /\ SlaveQuiet)
    BY DEF ReadAddress
  <2>2. calm \in BOOLEAN /\ (calm /\ SlaveQuiet) \in BOOLEAN
    BY <1>1, Zenon DEF SlaveTypeOK
  <2>3. calm' \in BOOLEAN
    BY <2>1, <2>2, Zenon
  <2>4. calm' => calm /\ (host.at = "turn" \/ SlaveQuiet)
    BY <1>1 DEF ReadAddress
  <2> QED
    BY <2>3, <2>4
<1>7. SlaveTypeOK'
  <2>1. NoPointer \in Pointers /\ irq' \in SUBSET Flags
    BY <1>1, <1>4 DEF Pointers, SlaveTypeOK, Flags
  <2> QED
    BY <1>1, <1>3, <1>4, <1>5, <1>6, <2>1 DEF SlaveTypeOK
<1>8. SlaveShape'
  BY <1>1, <1>3, <1>4, <1>5 DEF SlaveShape
<1>9. PointerOf(sent)' = PointerOf(sent) /\ (BytesSent' <=> BytesSent)
  BY <1>5 DEF PointerOf, BytesSent
<1>10. WindowFits'
  BY <1>1, <1>3, <1>5, <1>9 DEF SlaveInv, BaseInv, WindowFits
<1>11. Disarming'
  BY <1>3 DEF Disarming, NoPointerLeft
<1>12. ASSUME calm' PROVE Ordered'
  <2>1. Orderly
    BY <1>6, <1>12 DEF SlaveInv, BaseInv, Ordered, Orderly
  <2>2. ~EndDue
    BY <1>6, <1>12, <2>1, QuietOwesNothing DEF Orderly, CoreFits
  <2>3. ~ReadDue
    BY <1>1, <2>1, <2>2 DEF Orderly, CoreFits
  <2>4. /\ Pipeline' /\ ~EndDue' /\ (FrameDue' <=> FrameDue) /\ (WriteDue' <=> WriteDue)
    BY <1>4, <1>5, <2>1, <2>2, <2>3, RequestRaised
  <2>5. CoreFits' /\ FrameFits'
    BY <1>3, <1>4, <1>5, <2>1, <2>4 DEF Orderly, CoreFits, FrameFits
  <2>6. task.at # "window"
    BY <2>1, <2>3 DEF Orderly, Serving, ReadDue, TaskAsks, Resting
  <2>7. Expected' = Expected /\ Offset' = 0 /\ Offset = 0
    <3>1. Offset' = Len(<<>>) + Len(<<>>)
      BY <1>1, <1>3, <1>5, <2>6 DEF Offset
    <3>2. Offset = 0
      BY <1>1 DEF Offset
    <3>3. Expected' = Expected
      BY <1>3 DEF Expected
    <3> QED
      BY <3>1, <3>2, <3>3
  <2>8. Permitted' <=> Permitted
    BY <1>5 DEF Permitted
  <2>9. SlaveArmed'
    BY <1>1, <1>3, <1>4, <1>5, <1>9, <2>1, <2>2, <2>4, <2>7, <2>8 DEF Orderly, SlaveArmed
  <2>10. Serving'
    BY <1>1, <1>3, <1>5, <2>6 DEF Serving, From
  <2> QED
    BY <2>4, <2>5, <2>9, <2>10 DEF Ordered
<1> QED
  BY <1>7, <1>8, <1>10, <1>11, <1>12 DEF SlaveInv, BaseInv

\* The host reads a byte.
LEMMA ReadByteKeeps == ASSUME SlaveInv, ReadByte PROVE SlaveInv'
<1>1. slave = "serve" /\ host.at = "read" /\ rdwin # <<>> /\ SlaveTypeOK /\ SlaveShape
  BY DEF ReadByte, SlaveInv, BaseInv, SlaveShape
<1>2. /\ host \in Hosts /\ host.next \in Pointers /\ host.got \in Seq(WindowCells)
      /\ rdwin \in Seq(WindowCells)
  BY <1>1, HostKinds DEF SlaveTypeOK
<1> DEFINE g == Append(host.got, Head(rdwin))
           m == Len(host.got)
<1>3. host' = [host EXCEPT !.got = g] /\ rdwin' = Tail(rdwin)
  BY DEF ReadByte
<1>4. /\ g \in Seq(WindowCells) /\ m \in Nat /\ Len(g) = m + 1
      /\ DOMAIN g = DOMAIN host.got \cup {m + 1} /\ g[m + 1] = rdwin[1]
      /\ \A i \in DOMAIN host.got : g[i] = host.got[i]
      /\ g # <<>>
  BY <1>1, <1>2
<1>5. /\ rdwin' \in Seq(WindowCells) /\ Len(rdwin) \in Nat /\ Len(rdwin) >= 1
      /\ Len(rdwin') = Len(rdwin) - 1 /\ 1 \in DOMAIN rdwin
      /\ \A i \in DOMAIN rdwin' : i \in Nat /\ i + 1 \in DOMAIN rdwin /\ rdwin'[i] = rdwin[i + 1]
      /\ Len(rdwin) = 1 <=> rdwin' = <<>>
  <2>1. /\ Len(rdwin) \in Nat /\ Len(rdwin) >= 1 /\ 1 \in DOMAIN rdwin
        /\ DOMAIN rdwin = 1 .. Len(rdwin)
    BY <1>1, <1>2
  <2>2. /\ rdwin' \in Seq(WindowCells) /\ Len(rdwin') = Len(rdwin) - 1
        /\ DOMAIN rdwin' = 1 .. Len(rdwin) - 1
        /\ \A i \in 1 .. Len(rdwin) - 1 : rdwin'[i] = rdwin[i + 1]
    BY <1>1, <1>2, <1>3
  <2>3. \A i \in 1 .. Len(rdwin) - 1 : i \in Nat /\ i + 1 \in 1 .. Len(rdwin)
    BY <2>1
  <2>4. Len(rdwin) = 1 <=> rdwin' = <<>>
    BY <2>1, <2>2
  <2> QED
    BY <2>1, <2>2, <2>3, <2>4
<1> HIDE DEF g
<1>6. host' \in Hosts /\ host'.at = "read" /\ host'.next = host.next /\ host'.got = g
  <2>1. host \in [at : {"read"}, next : Pointers, got : Seq(WindowCells)]
    BY <1>1, <1>2 DEF Hosts
  <2> QED
    BY <1>3, <1>4, <2>1 DEF Hosts
<1>7. UNCHANGED <<adapter, hdr, data, captured, sent, loose, calm, torn, missed, queue, task, pointer,
                  read_armed, chip, valid>>
  BY DEF ReadByte, taskvars
<1>8. \/ rdwin' = <<>> /\ slave' = "wait" /\ irq' = irq \cup {"RD_REQUEST"}
      \/ rdwin' # <<>> /\ slave' = "serve" /\ irq' = irq
  BY <1>1, <1>5 DEF ReadByte, Raise
<1>9. irq' \in SUBSET Flags /\ irq \subseteq irq' /\ slave' \in {"wait", "serve"}
      /\ (slave' = "serve" <=> rdwin' # <<>>)
  BY <1>1, <1>8 DEF SlaveTypeOK, Flags
<1>10. SlaveTypeOK'
  BY <1>1, <1>5, <1>6, <1>7, <1>9 DEF SlaveTypeOK
<1>11. SlaveShape'
  BY <1>1, <1>6, <1>7, <1>9 DEF SlaveShape
<1>12. WindowFits'
  <2>1. BytesSent' <=> BytesSent
    BY <1>7 DEF BytesSent
  <2> QED
    BY <1>1, <1>6, <1>7, <2>1 DEF SlaveInv, BaseInv, WindowFits
<1>13. Disarming'
  BY <1>6 DEF Disarming, NoPointerLeft
<1>14. ASSUME calm PROVE Ordered'
  <2>1. Orderly
    BY <1>14 DEF SlaveInv, BaseInv, Ordered, Orderly
  <2>2. ~EndDue
    BY <1>1, <2>1 DEF Orderly, CoreFits
  <2>3. ~ReadDue /\ ~WriteDue
    BY <1>1, <2>1, <2>2 DEF Orderly, CoreFits, SlaveArmed
  <2>4. task.at # "window"
    BY <2>1, <2>3 DEF Orderly, Serving, ReadDue, TaskAsks, Resting
  <2>5. /\ Pipeline' /\ ~EndDue' /\ ~WriteDue'
        /\ FrameDue' <=> FrameDue
        /\ ReadDue' => slave' = "wait"
    <3>1. CASE rdwin' = <<>>
      BY <1>7, <1>8, <2>1, <2>2, <2>3, <3>1, RequestRaised
    <3>2. CASE rdwin' # <<>>
      <4>1. /\ TaskAsks' <=> TaskAsks
            /\ EndDue' <=> EndDue
            /\ FrameDue' <=> FrameDue
            /\ TakesFrame' <=> TakesFrame
        BY <1>7, <1>8, <3>2 DEF EndDue, FrameDue, TakesFrame, TaskAsks
      <4>2. (ReadDue' <=> ReadDue) /\ (WriteDue' <=> WriteDue)
        BY <1>7, <1>8, <3>2, <4>1 DEF ReadDue, WriteDue
      <4>3. Pipeline'
        BY <1>7, <1>8, <2>1, <3>2, <4>1 DEF Orderly, Pipeline
      <4> QED
        BY <2>2, <2>3, <4>1, <4>2, <4>3
    <3> QED
      BY <3>1, <3>2
  <2>6. CoreFits' /\ FrameFits'
    BY <1>6, <1>7, <2>1, <2>5 DEF Orderly, CoreFits, FrameFits
  <2>7. host.next # NoPointer /\ host.next \in Nat
    BY <1>1, <1>2, <2>1, SlaveAssumption DEF Orderly, Serving, Pointers, SlaveRegs
  <2>8. Offset = m + Len(rdwin) /\ Offset' = Len(g) + Len(rdwin') /\ Expected' = Expected
        /\ Expected = host.next
    BY <1>1, <1>6, <1>7, <2>4 DEF Offset, Expected
  <2>9. Offset' = Offset
    BY <1>4, <1>5, <2>8
  <2>10. Permitted' <=> Permitted
    BY <1>7 DEF Permitted
  <2>11. SlaveArmed'
    BY <1>1, <1>6, <1>7, <2>1, <2>2, <2>3, <2>5, <2>8, <2>9, <2>10 DEF Orderly, SlaveArmed
  <2>12. From(host.got, host.next) /\ From(rdwin, host.next + m)
    BY <1>1, <2>1 DEF Orderly, Serving
  <2>13. From(g, host.next)
    <3>1. rdwin[1].reg = (host.next + m + 1 - 1) % RegCount
      BY <1>5, <2>12 DEF From
    <3>2. host.next + m + 1 - 1 = host.next + (m + 1) - 1
      BY <1>4, <2>7
    <3>3. g[m + 1].reg = (host.next + (m + 1) - 1) % RegCount
      BY <1>4, <3>1, <3>2
    <3> QED
      BY <1>4, <2>12, <3>3 DEF From
  <2>14. From(rdwin', host.next + Len(g))
    <3>1. ASSUME NEW k \in DOMAIN rdwin'
          PROVE  rdwin'[k].reg = (host.next + Len(g) + k - 1) % RegCount
      <4>1. rdwin'[k].reg = (host.next + m + (k + 1) - 1) % RegCount
        BY <1>5, <2>12 DEF From
      <4>2. host.next + m + (k + 1) - 1 = host.next + Len(g) + k - 1
        <5>1. k \in Nat /\ m \in Nat /\ Len(g) = m + 1 /\ host.next \in Nat
          BY <1>4, <1>5, <2>7
        <5> HIDE DEF m
        <5> QED
          BY <5>1
      <4> QED
        BY <4>1, <4>2
    <3> QED
      BY <3>1 DEF From
  <2>15. Serving'
    BY <1>6, <1>7, <2>4, <2>7, <2>13, <2>14 DEF Serving, From
  <2> QED
    BY <2>5, <2>6, <2>11, <2>15 DEF Ordered
<1> QED
  BY <1>7, <1>10, <1>11, <1>12, <1>13, <1>14 DEF SlaveInv, BaseInv

\* The host ends a read.
LEMMA ReadEndsKeeps == ASSUME SlaveInv, ReadEnds PROVE SlaveInv'
<1>1. /\ host.at = "read" /\ SlaveTypeOK /\ SlaveShape
      /\ host' = [at |-> "idle"] /\ slave' = "idle" /\ rdwin' = <<>>
      /\ UNCHANGED <<adapter, hdr, data, captured, sent, loose, calm, torn, queue, task, pointer,
                     read_armed, chip, valid>>
  BY DEF ReadEnds, SlaveInv, BaseInv, taskvars
<1>2. PICK e \in {{"FINAL_PACKET"}, {"FINAL_PACKET", "ERR_ACK"}} :
          /\ "ERR_ACK" \in e => slave = "wait"
          /\ host.got = <<>> => "ERR_ACK" \in e
          /\ irq' = irq \cup e
          /\ missed' = ("DATA_VALID" \in irq /\ "ERR_ACK" \notin e)
  BY DEF ReadEnds, Raise
<1>3. /\ irq' \in SUBSET Flags /\ irq \subseteq irq' /\ irq' # {} /\ missed' \in BOOLEAN
      /\ (Wants(irq') <=> Wants(irq)) /\ (Brings(irq') <=> Brings(irq))
      /\ ~missed' => Ends(irq')
  BY <1>1, <1>2 DEF SlaveTypeOK, Flags, Wants, Brings, Ends, bvstk_i2c_slave_irq_ends_read, Errors
<1>4. host' \in Hosts /\ host'.at = "idle"
  BY <1>1 DEF Hosts
<1>5. SlaveTypeOK'
  BY <1>1, <1>3, <1>4 DEF SlaveTypeOK
<1>6. SlaveShape'
  BY <1>1, <1>3, <1>4 DEF SlaveShape
<1>7. WindowFits'
  <2>1. BytesSent' <=> BytesSent
    BY <1>1 DEF BytesSent
  <2> QED
    BY <1>1, <1>4, <2>1 DEF SlaveInv, BaseInv, WindowFits
<1>8. Disarming'
  <2>1. LastFlags' = irq'
    BY <1>3 DEF LastFlags
  <2> QED
    BY <1>3, <2>1 DEF Disarming, NoPointerLeft, Disarms
<1>9. ASSUME calm PROVE Ordered'
  <2>1. Orderly
    BY <1>9 DEF SlaveInv, BaseInv, Ordered, Orderly
  <2>2. ~EndDue
    BY <1>1, <2>1 DEF Orderly, CoreFits
  <2>3. "ERR_ACK" \in e \/ ~Brings(irq)
    <3> SUFFICES ASSUME Brings(irq), host.got # <<>> PROVE FALSE
      BY <1>2
    <3> QED
      BY <1>1, <2>1, <2>2 DEF Orderly, SlaveArmed, WriteDue, FrameDue
  <2>4. Ends(irq')
    BY <1>2, <1>3, <2>3 DEF Brings
  <2>5. /\ \A i \in DOMAIN queue : ~Ends(queue[i])
        /\ task # Resting => ~Ends(task.flags)
    BY <2>2 DEF EndDue
  <2>6. /\ EndDue' /\ (FrameDue' <=> FrameDue) /\ (TaskAsks' <=> TaskAsks)
    BY <1>1, <1>3, <2>4 DEF EndDue, FrameDue, TaskAsks
  <2>7. Pipeline'
    BY <1>1, <1>3, <2>1, <2>4, <2>5, <2>6 DEF Orderly, Pipeline
  <2>8. CoreFits'
    BY <1>4, <2>6 DEF CoreFits
  <2>9. FrameFits'
    BY <1>1, <2>1, <2>6 DEF Orderly, FrameFits
  <2>10. SlaveArmed' /\ Serving'
    BY <1>1, <1>4, <2>1, <2>6 DEF Orderly, SlaveArmed, Serving
  <2> QED
    BY <2>7, <2>8, <2>9, <2>10 DEF Ordered
<1> QED
  BY <1>1, <1>5, <1>6, <1>7, <1>8, <1>9 DEF SlaveInv, BaseInv

\* Every step of host, core, adapter and task keeps the invariant.
LEMMA SlaveKeeps == SlaveInv /\ [SlaveNext]_slavevars => SlaveInv'
<1> SUFFICES ASSUME SlaveInv, [SlaveNext]_slavevars PROVE SlaveInv'
  OBVIOUS
<1>1. CASE UNCHANGED slavevars
  <2>1. OnlyReads
    BY <1>1 DEF slavevars, hostvars, portvars, taskvars, OnlyReads, SlaveInv, BaseInv, SlaveTypeOK,
                SlaveShape
  <2> QED
    BY <2>1, OnlyReadsKeeps
<1> QED
  BY <1>1, WriteDataKeeps, WriteHeaderKeeps, ReadAddressKeeps, ReadByteKeeps, ReadEndsKeeps,
     CaptureKeeps, SlaveIsrKeeps, ReceiveEventKeeps, ReadHeaderKeeps, ReadBytesKeeps,
     HandleWriteKeeps, ForwardWriteKeeps, ClearFrameKeeps, LoadWindowKeeps, AcceptReadKeeps,
     EndTransactionKeeps
  DEF SlaveNext, HandleEvent

\* The inductive invariant holds whatever the adapter, the moments at which
\* the host starts its transactions, the queue length (from three on), the
\* frames and the sizes.
LEMMA SlaveAlways == SlaveSpec => []SlaveInv
<1>1. SlaveInv /\ [SlaveNext]_slavevars => SlaveInv'
  BY SlaveKeeps
<1> QED
  BY <1>1, SlaveStarts, PTL DEF SlaveSpec

\* The bytes a calm host gets are the registers from its own pointer on
\* (handle_frame, load_window and accept_read together).
THEOREM HostReadsFromPointer == SlaveSpec => []HostReadsItsPointer
<1>1. SlaveInv => HostReadsItsPointer
  BY DEF SlaveInv, Ordered, Serving, From, HostReadsItsPointer, OwnBytes
<1> QED
  BY <1>1, SlaveAlways, PTL

\* What is forwarded to the chip is the host's last frame whole, unless that
\* frame was put into a window in use: frames may follow each other at any
\* pace, events may be queued, coalesced or dropped (read_frame, clear_frame).
THEOREM ForwardsWholeFrames == SlaveSpec => []ForwardsSentFrames
<1>1. SlaveInv => ForwardsSentFrames
  BY DEF SlaveInv, BaseInv, WindowFits, ForwardsSentFrames
<1> QED
  BY <1>1, SlaveAlways, PTL

\* At rest a read is armed only by a pointer the host left, whatever pace the
\* host keeps, unless the event that tells the end was lost or the last frame
\* torn (handle_frame, end_transaction and the queue together).
THEOREM ArmedByHost == SlaveSpec => []NoStaleArm
<1>1. SlaveInv => NoStaleArm
  BY QuietOwesNothing DEF SlaveInv, Disarming, NoPointerLeft, TaskDisarms, NoStaleArm
<1> QED
  BY <1>1, SlaveAlways, PTL

----------------------------------------------------------------------------
(* The MDIO core: the types, the frame in exactly one place, and the       *)
(* promise of MdioBus, for any cells, any number of calls and timeouts at  *)
(* any moment.                                                             *)

Inv == TypeOK /\ OneFrame

\* A call's variables start with their types and the core at rest.
LEMMA InitInv == Init => Inv
<1> SUFFICES ASSUME Init PROVE Inv
  OBVIOUS
<1>1. TypeOK
  <2>1. outcome \in [status : {"none", "ok", "error"}, value : Nat]
    BY DEF Init, B!NoOutcome
  <2>2. bank \in [Cells -> Nat] /\ rx \in Seq(Commands) /\ value \in Nat
    BY DEF Init, Empty
  <2> QED BY <2>1, <2>2 DEF Init, TypeOK, Labels
<1>2. OneFrame
  BY DEF Init, OneFrame, Quiet, Clear
<1> QED BY <1>1, <1>2 DEF Inv

\* Every step of the driver and of the core keeps the types.
LEMMA TypeStep == TypeOK /\ [Next]_vars => TypeOK'
<1> SUFFICES ASSUME TypeOK, [Next]_vars PROVE TypeOK'
  OBVIOUS
<1> USE DEF TypeOK
<1>1. Command \in Commands
  BY DEF Command, Commands
<1>2. ASSUME NEW o \in {"read", "write"}, NEW c \in Cells, Begin(o, c) PROVE TypeOK'
  BY <1>2 DEF Begin, Labels
<1>3. CASE StartAck
  BY <1>3 DEF StartAck, Arm, Acknowledge, Goto, Labels
<1>4. CASE AwaitIdle
  BY <1>4 DEF AwaitIdle, Goto, Labels, coreVars
<1>5. CASE Mark
  BY <1>5 DEF Mark, Goto, Labels, Empty
<1>6. CASE Send
  BY <1>1, <1>6 DEF Send, Goto, Labels
<1>7. CASE Sleep
  BY <1>7 DEF Sleep, Goto, Labels, coreVars
<1>8. CASE WriteDone
  BY <1>8 DEF WriteDone, Return, Labels
<1>9. CASE ReadAddr
  BY <1>9 DEF ReadAddr, Labels
<1>10. CASE ReadData
  BY <1>10 DEF ReadData, Labels, coreVars
<1>11. CASE FinishAck
  <2>1. CASE pc = "arm" /\ Arm("taken")
    BY <2>1 DEF Arm, Goto, Labels
  <2>2. CASE pc = "taken" /\ Acknowledge /\ Return([status |-> "ok", value |-> value])
    BY <2>2 DEF Acknowledge, Return, Labels
  <2>3. CASE pc = "taken" /\ Acknowledge /\ Goto("reset") /\ UNCHANGED completed
    BY <2>3 DEF Acknowledge, Goto, Labels
  <2> QED BY <1>11, <2>1, <2>2, <2>3 DEF FinishAck
<1>12. CASE Reset
  BY <1>12 DEF Reset, Goto, Labels
<1>13. CASE ResetAck
  <2>1. CASE pc = "resetArm" /\ Arm("resetAck")
    BY <2>1 DEF Arm, Goto, Labels
  <2>2. CASE pc = "resetAck" /\ Acknowledge /\ Return([status |-> "error", value |-> 0])
    BY <2>2 DEF Acknowledge, Return, Labels
  <2> QED BY <1>13, <2>1, <2>2 DEF ResetAck
<1>14. CASE Timeout
  BY <1>14 DEF Timeout, Goto, Labels, coreVars
<1>15. CASE Accept
  BY <1>15 DEF Accept, driverVars
<1>16. CASE Fetch
  BY <1>16 DEF Fetch, driverVars
<1>17. CASE Finish
  <2>1. engine \in Commands
    BY <1>17 DEF Finish
  <2> QED BY <1>17, <2>1 DEF Finish, driverVars
<1>18. CASE Publish
  <2>1. Head(rx) \in Commands /\ Tail(rx) \in Seq(Commands)
    BY <1>18 DEF Publish
  <2>2. Head(rx).cell \in Cells /\ Head(rx).frame \in Nat
    BY <2>1 DEF Commands
  <2> QED BY <1>18, <2>1, <2>2 DEF Publish, driverVars
<1>19. CASE UNCHANGED vars
  BY <1>19 DEF vars, driverVars, coreVars
<1> QED BY <1>2, <1>3, <1>4, <1>5, <1>6, <1>7, <1>8, <1>9, <1>10, <1>11, <1>12, <1>13,
           <1>14, <1>15, <1>16, <1>17, <1>18, <1>19 DEF Next, Driver, Core

\* Every step keeps the frame in its one place.
LEMMA FrameStep == Inv /\ [Next]_vars => OneFrame'
<1> SUFFICES ASSUME Inv, [Next]_vars PROVE OneFrame'
  OBVIOUS
<1> USE DEF Inv, TypeOK, OneFrame, Quiet, Clear, OnItsWay, Waiting, Sent, Unpublished, Answered
<1>0. Command # Nothing
  BY DEF Command, Nothing
<1>2. ASSUME NEW o \in {"read", "write"}, NEW c \in Cells, Begin(o, c) PROVE OneFrame'
  BY <1>2 DEF Begin
<1>3. CASE StartAck
  <2>1. CASE pc = "ack" /\ Arm("ack2")
    BY <2>1 DEF Arm, Goto
  <2>2. CASE pc = "ack2" /\ Acknowledge /\ Goto("wait") /\ UNCHANGED completed
    BY <2>2 DEF Acknowledge, Goto
  <2> QED BY <1>3, <2>1, <2>2 DEF StartAck
<1>4. CASE AwaitIdle
  BY <1>4 DEF AwaitIdle, Goto, coreVars
<1>5. CASE Mark
  BY <1>5 DEF Mark, Goto
<1>6. CASE Send
  BY <1>0, <1>6 DEF Send, Goto, Command
<1>7. CASE Sleep
  BY <1>0, <1>7 DEF Sleep, Goto, coreVars, Command
<1>8. CASE WriteDone
  BY <1>0, <1>8 DEF WriteDone, Return
<1>9. CASE ReadAddr
  BY <1>0, <1>9 DEF ReadAddr
<1>10. CASE ReadData
  BY <1>10 DEF ReadData, coreVars
<1>11. CASE FinishAck
  <2>1. CASE pc = "arm" /\ Arm("taken")
    BY <2>1 DEF Arm, Goto, Command
  <2>2. CASE pc = "taken" /\ Acknowledge /\ Return([status |-> "ok", value |-> value])
    BY <2>2 DEF Acknowledge, Return
  <2>3. pc = "taken" => addr = cell /\ value # Empty
    BY DEF Empty
  <2> QED BY <1>11, <2>1, <2>2, <2>3 DEF FinishAck
<1>12. CASE Reset
  BY <1>12 DEF Reset, Goto
<1>13. CASE ResetAck
  BY <1>13 DEF ResetAck, Arm, Acknowledge, Return, Goto
<1>14. CASE Timeout
  BY <1>14 DEF Timeout, Goto, coreVars, Command
<1>15. CASE Accept
  BY <1>0, <1>15 DEF Accept, driverVars, Command
<1>16. CASE Fetch
  BY <1>0, <1>16 DEF Fetch, driverVars, Command
<1>17. CASE Finish
  <2>1. /\ pc \in {"sleep", "poll", "reset"}
        /\ OnItsWay /\ engine = Command /\ port = Nothing /\ tx = Nothing
    BY <1>0, <1>17 DEF Finish, Labels
  <2>2. Clear' /\ ~dataValid' /\ completed' = 1
    BY <1>17, <2>1 DEF Finish, driverVars
  <2>3. IF op = "read" THEN rx' = <<Command>> ELSE rx' = <<>>
    BY <1>17, <2>1 DEF Finish, Command
  <2>4. Command' = Command /\ op' = op /\ pc' = pc /\ frames' = frames
    BY <1>17 DEF Finish, driverVars, Command
  <2>5. Sent' \/ Unpublished'
    BY <2>2, <2>3, <2>4
  <2> QED BY <2>1, <2>4, <2>5
<1>18. CASE Publish
  BY <1>0, <1>18 DEF Publish, driverVars, Command
<1>19. CASE UNCHANGED vars
  BY <1>19 DEF vars, driverVars, coreVars, Command
<1> QED BY <1>2, <1>3, <1>4, <1>5, <1>6, <1>7, <1>8, <1>9, <1>10, <1>11, <1>12, <1>13,
           <1>14, <1>15, <1>16, <1>17, <1>18, <1>19 DEF Next, Driver, Core

\* The types and the one place of the frame hold in every reachable state.
THEOREM CoreInvariant == Spec => []Inv
<1>1. Inv /\ [Next]_vars => Inv'
  BY TypeStep, FrameStep DEF Inv
<1> QED BY InitInv, <1>1, PTL DEF Spec

\* No command and no answer outlives its call (transfer's "done:" path resets
\* the core whenever the call failed).
THEOREM NothingLeft == Spec => []NothingBehind
<1>1. Inv => NothingBehind
  BY DEF Inv, OneFrame, Quiet, Clear, NothingBehind
<1> QED BY CoreInvariant, <1>1, PTL

\* A step of the driver or of the core is a step of MdioBus or none.
LEMMA BusStep == Inv /\ [Next]_vars => [B!Next]_(B!busVars)
<1> SUFFICES ASSUME Inv, [Next]_vars PROVE B!Next \/ UNCHANGED B!busVars
  OBVIOUS
<1> DEFINE request == IF pc = "idle" THEN [op |-> "none"] ELSE Command
<1>0. /\ Command # [op |-> "none"]
      /\ pc = "idle" <=> request = B!NoRequest
  BY DEF Command, B!NoRequest
<1>a. ASSUME pc # "idle", pc' # "idle", UNCHANGED <<op, cell, frames, completed, outcome>>
      PROVE UNCHANGED B!busVars
  BY <1>a DEF B!busVars, Command
<1>2. ASSUME NEW o \in {"read", "write"}, NEW c \in Cells, Begin(o, c) PROVE B!Request
  <2>1. Command' \in B!Requests
    BY <1>2 DEF Begin, Command, B!Requests, Inv, TypeOK
  <2> QED BY <1>2, <2>1 DEF Begin, B!Request, B!NoRequest
<1>3. CASE StartAck
  BY <1>3, <1>a DEF StartAck, Arm, Acknowledge, Goto
<1>4. CASE AwaitIdle
  BY <1>4, <1>a DEF AwaitIdle, Goto, coreVars
<1>5. CASE Mark \/ Send \/ Sleep
  BY <1>5, <1>a DEF Mark, Send, Sleep, Goto, coreVars
<1>6. ASSUME pc # "idle", completed = 1, Return([status |-> "ok", value |-> IF op = "read" THEN frames ELSE 0])
      PROVE B!Return
  BY <1>6, <1>0 DEF Return, B!Return, B!Success, B!NoRequest, Command
<1>7. ASSUME pc # "idle", Return([status |-> "error", value |-> 0]) PROVE B!Return
  BY <1>7, <1>0 DEF Return, B!Return, B!Failed, B!NoRequest
<1>8. CASE WriteDone
  <2>1. completed = 1
    BY <1>8 DEF WriteDone, Inv, OneFrame, OnItsWay, Waiting, Sent, Unpublished, Answered,
                Command, Nothing
  <2> QED BY <1>6, <1>8, <2>1 DEF WriteDone, B!Next
<1>9. CASE ReadAddr \/ ReadData
  BY <1>9, <1>a DEF ReadAddr, ReadData, coreVars
<1>11. CASE FinishAck
  <2>1. CASE pc = "arm" /\ Arm("taken")
    BY <2>1, <1>a DEF Arm, Goto
  <2>2. CASE pc = "taken"
    <3>1. addr = cell /\ value = frames /\ value # Empty /\ completed = 1 /\ op = "read"
      BY <2>2 DEF Inv, TypeOK, OneFrame, Answered, Empty
    <3> QED BY <1>6, <1>11, <2>2, <3>1 DEF FinishAck, B!Next
  <2> QED BY <1>11, <2>1, <2>2 DEF FinishAck
<1>12. CASE Reset
  BY <1>12, <1>a DEF Reset, Goto
<1>13. CASE ResetAck
  <2>1. CASE pc = "resetArm" /\ Arm("resetAck")
    BY <2>1, <1>a DEF Arm, Goto
  <2> QED BY <1>7, <1>13, <2>1 DEF ResetAck, B!Next
<1>14. CASE Timeout
  BY <1>14, <1>a DEF Timeout, Goto, coreVars
<1>15. CASE Accept \/ Fetch \/ Publish
  BY <1>15 DEF Accept, Fetch, Publish, driverVars, B!busVars, Command
<1>17. CASE Finish
  <2>1. pc # "idle" /\ completed = 0
    BY <1>17 DEF Finish, Inv, TypeOK, OneFrame, Labels, Quiet, Clear, OnItsWay, Sent,
                 Unpublished, Answered
  <2> QED BY <1>0, <1>17, <2>1 DEF Finish, driverVars, Command, B!Complete, B!Next, B!NoRequest
<1>19. CASE UNCHANGED vars
  BY <1>19 DEF vars, driverVars, coreVars, B!busVars, Command
<1> QED BY <1>2, <1>3, <1>4, <1>5, <1>8, <1>9, <1>11, <1>12, <1>13, <1>14, <1>15, <1>17,
           <1>19 DEF Next, Driver, Core, B!Next

\* The driver implements MdioBus: however calls time out, each completes at
\* most one frame and none after it returned, success means its frame was
\* completed, and a read returns the answer to its own frame.
THEOREM CoreImplementsBus == Spec => BusPromise
<1>1. Init => B!Init
  BY DEF Init, B!Init, B!NoRequest
<1> QED BY <1>1, CoreInvariant, BusStep, PTL DEF Spec, BusPromise, B!Spec

\* transfer fails on nothing but its deadline: the address and the word it reads
\* are always those of its own frame.
THEOREM FailureIsLate == Spec => FailsOnlyLate
<1> DEFINE Late == pc # "reset" /\ pc' = "reset" => pc \in {"wait", "poll"}
<1>1. Inv /\ [Next]_vars => [Late]_vars
  <2> SUFFICES ASSUME Inv, Next PROVE Late
    OBVIOUS
  <2>1. CASE FinishAck
    <3>1. pc = "taken" => addr = cell /\ value # Empty
      BY DEF Inv, TypeOK, OneFrame, Empty
    <3> QED BY <2>1, <3>1 DEF FinishAck, Arm, Goto, Return
  <2>2. CASE Timeout
    BY <2>2 DEF Timeout
  <2>3. ASSUME NEW o \in {"read", "write"}, NEW c \in Cells, Begin(o, c) PROVE Late
    BY <2>3 DEF Begin
  <2>4. CASE StartAck \/ AwaitIdle \/ Mark \/ Send \/ Sleep \/ WriteDone
    BY <2>4 DEF StartAck, AwaitIdle, Mark, Send, Sleep, WriteDone, Arm, Goto, Return
  <2>5. CASE ReadAddr \/ ReadData \/ Reset \/ ResetAck
    BY <2>5 DEF ReadAddr, ReadData, Reset, ResetAck, Arm, Goto, Return
  <2>6. CASE Core
    BY <2>6 DEF Core, Accept, Fetch, Finish, Publish, driverVars
  <2> QED BY <2>1, <2>2, <2>3, <2>4, <2>5, <2>6 DEF Next, Driver
<1> QED BY <1>1, CoreInvariant, PTL DEF Spec, FailsOnlyLate

----------------------------------------------------------------------------
(* The SD card behind the programmable logic.                              *)

SdKinds == {"init", "read", "write", "status", "blocklen"}
SdContents == Contents \cup {Mbr, Bpb, Junk, "old"}
SdCommands == [c : SdKinds, l : Lbas, v : Contents \cup {"none", "init", AnyContent}]
SdReplies == {"sentinel", "ok", "bad", "sdhc", "sdsc"}
SdSignals == {"irq", "reply", "tx", "rx", "err"}
SdPhases == {"next", "init", "prepared", "cmd"}

\* A plan of driver commands: the reads come last, every block written is read
\* back and compared, and an initialisation is a plan of its own.
GoodPlan(ops) ==
    /\ \A i, j \in DOMAIN ops : i < j /\ ops[i].c = "read" => ops[j].c = "read"
    /\ \A i \in DOMAIN ops : ops[i].c = "write" =>
          /\ ops[i].v \in Contents
          /\ \E j \in DOMAIN ops :
                ops[j].c = "read" /\ ops[j].l = ops[i].l /\ ops[j].v = ops[i].v
    /\ \A i \in DOMAIN ops : ops[i].c = "init" => DOMAIN ops = {1}
Plans == {ops \in Seq(SdCommands) : ops # <<>> /\ GoodPlan(ops)}

Cores == [up : BOOLEAN, used : BOOLEAN, cmd : SdCommands \cup {NoCmd}, sig : SUBSET SdSignals,
          reply : SdReplies, buf : SdContents, crc : BOOLEAN]
Svcs == [ready : BOOLEAN, owned : BOOLEAN, since : BOOLEAN, ocr : SdReplies \cup {"none"},
         isolated : BOOLEAN]
SdCalls == [who : {"raw", "fs"}, ops : Plans, at : Nat, ph : SdPhases]
Volumes == [first : {0, PartStart}, sectors : {0, VolSectors}]
Ports == [attempted : BOOLEAN, ready : BOOLEAN, vol : Volumes]
Reqs == {NoReq} \cup [kind : {"claim"}] \cup [kind : {"probe"}, l : {0, PartStart}]
        \cup [kind : {"read", "write"}, l : Lbas, left : Nat \ {0}, v : Contents]

SdTypeOK ==
    /\ media \in [Lbas -> SdContents] /\ core \in Cores /\ svc \in Svcs
    /\ call \in SdCalls \cup {NoCall}

\* The driver is at one command of the plan, and the core has that command
\* or none.
Driving ==
    /\ call = NoCall => core.cmd = NoCmd
    /\ call # NoCall =>
          /\ call.at \in 1 .. Len(call.ops)
          /\ call.ph \in {"next", "prepared"} => core.cmd = NoCmd
          /\ call.ph = "init" => core.cmd = SdCommand("init", 0, "none")
          /\ call.ph = "cmd" => core.cmd = Op

\* What FreshCore needs: a core that may be commanded is up, and the service
\* knows whether it has been used since its initialisation.
Knows(s, c) == c.up /\ (~s.since => ~c.used)
Fresh ==
    /\ call = NoCall /\ svc.ready => Knows(svc, core)
    /\ call # NoCall =>
          /\ call.ph \in {"next", "prepared"} /\ Op.c # "init" => Knows(svc, core)
          /\ call.ph = "prepared" => ~svc.since
          /\ call.ph = "init" => ~core.used
          /\ call.ph = "cmd" => core.up /\ svc.since

\* Data that arrived intact are the card's, and the blocks compared so far
\* still hold what was written.
Intact ==
    /\ core.cmd.c = "read" /\ "rx" \in core.sig /\ core.crc => core.buf = media[core.cmd.l]
    /\ call # NoCall => \A i \in 1 .. call.at - 1 : call.ops[i].c = "read" =>
           call.ops[i].v \in {AnyContent, media[call.ops[i].l]}

\* The file system's request lies inside the volume, and after an error there
\* is none.
FsFits ==
    /\ fsport \in Ports /\ req \in Reqs /\ broken \in BOOLEAN
    /\ req.kind \in {"read", "write"} =>
          /\ fsport.vol.first <= req.l
          /\ req.l + req.left <= fsport.vol.first + fsport.vol.sectors
    /\ fsport.ready \/ req # NoReq => fsport.attempted
    /\ broken => fsport.attempted /\ ~fsport.ready /\ req = NoReq

\* Who holds the mutex is on the side that owns the card.
Owned ==
    /\ call.who = "raw" => ~svc.owned
    /\ call.who = "fs" =>
          /\ svc.owned /\ fsport.attempted /\ ~broken /\ req # NoReq
          /\ \A i \in DOMAIN call.ops : call.ops[i].c = "write" =>
                 req.kind = "write" /\ call.ops[i].l = req.l

SdInv == SdTypeOK /\ Driving /\ Fresh /\ Intact /\ FsFits /\ Owned /\ SdHonest

\* Block numbers and contents of the plans.
LEMMA SdConstants ==
    /\ 0 \in Lbas /\ PartStart \in Lbas /\ PartStart \in Nat /\ VolSectors \in Nat
    /\ \A l \in Lbas : l \in Nat
    /\ \A f \in {0, PartStart} : \A n \in Nat : n < f + VolSectors => n \in Lbas
    /\ \A v \in Contents : v # AnyContent
<1>1. /\ \A l \in Lbas : l \in Nat /\ 0 .. l \subseteq Lbas
      /\ PartStart \in Nat /\ VolSectors \in Nat /\ VolSectors >= 1
      /\ PartStart + VolSectors - 1 \in Lbas
  BY SdAssumption
<1>2. 0 .. PartStart + VolSectors - 1 \subseteq Lbas
  BY <1>1
<1>3. 0 \in 0 .. PartStart + VolSectors - 1 /\ PartStart \in 0 .. PartStart + VolSectors - 1
  BY <1>1
<1>4. ASSUME NEW f \in {0, PartStart}, NEW n \in Nat, n < f + VolSectors
      PROVE  n \in 0 .. PartStart + VolSectors - 1
  BY <1>1, <1>4
<1>5. \A v \in Contents : v # AnyContent
  BY SdAssumption
<1> QED
  BY <1>1, <1>2, <1>3, <1>4, <1>5

\* A plan of one command that writes nothing is good.
LEMMA SinglePlan ==
    ASSUME NEW o \in SdCommands, o.c # "write"
    PROVE  <<o>> \in Plans /\ Len(<<o>>) = 1 /\ <<o>>[1] = o /\ DOMAIN <<o>> = {1}
<1>1. <<o>> \in Seq(SdCommands) /\ <<o>> # <<>> /\ Len(<<o>>) = 1 /\ <<o>>[1] = o
      /\ DOMAIN <<o>> = 1 .. 1
  OBVIOUS
<1>2. DOMAIN <<o>> = {1}
  BY <1>1
<1>3. GoodPlan(<<o>>)
  BY <1>1, <1>2 DEF GoodPlan
<1> QED
  BY <1>1, <1>2, <1>3 DEF Plans

\* Writing a block and reading it back is a good plan.
LEMMA WritePlan ==
    ASSUME NEW l \in Lbas, NEW v \in Contents
    PROVE  LET ops == <<WriteOp(l, v), ReadOp(l, v)>> IN
           /\ ops \in Plans /\ Len(ops) = 2
           /\ \A i \in DOMAIN ops : ops[i].l = l /\ ops[i].c # "init"
<1> DEFINE ops == <<WriteOp(l, v), ReadOp(l, v)>>
<1>1. WriteOp(l, v) \in SdCommands /\ ReadOp(l, v) \in SdCommands
  BY DEF WriteOp, ReadOp, SdCommand, SdCommands, SdKinds
<1>2. ops \in Seq(SdCommands) /\ ops # <<>> /\ Len(ops) = 2 /\ DOMAIN ops = 1 .. 2
      /\ ops[1] = WriteOp(l, v) /\ ops[2] = ReadOp(l, v)
  BY <1>1
<1> HIDE DEF ops
<1>3. DOMAIN ops = {1, 2}
  BY <1>2
<1>4. /\ ops[1].c = "write" /\ ops[1].l = l /\ ops[1].v = v
      /\ ops[2].c = "read" /\ ops[2].l = l /\ ops[2].v = v
  BY <1>2 DEF WriteOp, ReadOp, SdCommand
<1>5. GoodPlan(ops)
  BY <1>3, <1>4, SdConstants DEF GoodPlan
<1>6. ops \in Plans /\ Len(ops) = 2 /\ \A i \in DOMAIN ops : ops[i].l = l /\ ops[i].c # "init"
  BY <1>2, <1>3, <1>4, <1>5 DEF Plans
<1> QED
  BY <1>6 DEF ops

\* So is writing two blocks and reading both back.
LEMMA TwoBlocksPlan ==
    ASSUME NEW l \in Lbas, l + 1 \in Lbas, NEW v \in Contents
    PROVE  LET ops == [i \in 1 .. 2 |-> WriteOp(l + i - 1, v)]
                      \o [i \in 1 .. 2 |-> ReadOp(l + i - 1, v)] IN
           ops \in Plans /\ Len(ops) = 4 /\ \A i \in DOMAIN ops : ops[i].c # "init"
<1> DEFINE w == [i \in 1 .. 2 |-> WriteOp(l + i - 1, v)]
           r == [i \in 1 .. 2 |-> ReadOp(l + i - 1, v)]
           ops == w \o r
<1>1. l \in Nat
  BY SdConstants
<1>2. l + 1 - 1 = l /\ l + 2 - 1 = l + 1
  BY <1>1
<1>3. /\ WriteOp(l, v) \in SdCommands /\ ReadOp(l, v) \in SdCommands
      /\ WriteOp(l + 1, v) \in SdCommands /\ ReadOp(l + 1, v) \in SdCommands
  BY DEF WriteOp, ReadOp, SdCommand, SdCommands, SdKinds
<1>4. /\ w[1] = WriteOp(l, v) /\ w[2] = WriteOp(l + 1, v)
      /\ r[1] = ReadOp(l, v) /\ r[2] = ReadOp(l + 1, v)
  BY <1>2
<1>5. w \in Seq(SdCommands) /\ r \in Seq(SdCommands) /\ Len(w) = 2 /\ Len(r) = 2
  <2>1. \A i \in 1 .. 2 : w[i] \in SdCommands /\ r[i] \in SdCommands
    BY <1>3, <1>4
  <2> QED
    BY <2>1
<1> HIDE DEF w, r
<1>6. /\ ops \in Seq(SdCommands) /\ Len(ops) = 4 /\ DOMAIN ops = 1 .. 4 /\ ops # <<>>
      /\ ops[1] = w[1] /\ ops[2] = w[2] /\ ops[3] = r[1] /\ ops[4] = r[2]
  <2>1. /\ ops \in Seq(SdCommands) /\ Len(ops) = Len(w) + Len(r)
        /\ \A i \in 1 .. Len(w) + Len(r) : ops[i] = IF i <= Len(w) THEN w[i] ELSE r[i - Len(w)]
    BY <1>5, ConcatProperties
  <2> HIDE DEF ops
  <2>2. Len(ops) = 4 /\ DOMAIN ops = 1 .. 4 /\ ops # <<>>
    BY <1>5, <2>1
  <2>3. \A i \in 1 .. 4 : ops[i] = IF i <= 2 THEN w[i] ELSE r[i - 2]
    BY <1>5, <2>1
  <2>4. ops[1] = w[1] /\ ops[2] = w[2]
    BY <2>3
  <2>5. ops[3] = r[3 - 2] /\ ops[4] = r[4 - 2]
    BY <2>3
  <2>6. 3 - 2 = 1 /\ 4 - 2 = 2
    OBVIOUS
  <2> QED
    BY <2>1, <2>2, <2>4, <2>5, <2>6
<1>7. 1 .. 4 = {1, 2, 3, 4}
  OBVIOUS
<1> HIDE DEF ops
<1>8. /\ ops[1].c = "write" /\ ops[1].l = l /\ ops[1].v = v
      /\ ops[2].c = "write" /\ ops[2].l = l + 1 /\ ops[2].v = v
      /\ ops[3].c = "read" /\ ops[3].l = l /\ ops[3].v = v
      /\ ops[4].c = "read" /\ ops[4].l = l + 1 /\ ops[4].v = v
  BY <1>4, <1>6 DEF WriteOp, ReadOp, SdCommand
<1>9. GoodPlan(ops)
  BY <1>6, <1>7, <1>8, SdConstants DEF GoodPlan
<1>10. ops \in Plans /\ Len(ops) = 4 /\ \A i \in DOMAIN ops : ops[i].c # "init"
  BY <1>6, <1>7, <1>8, <1>9 DEF Plans
<1> QED
  BY <1>10 DEF ops, w, r

\* The console's plans are good, and none is an initialisation.
LEMMA RawPlansGood ==
    ASSUME NEW ops \in RawPlans
    PROVE  ops \in Plans /\ \A i \in DOMAIN ops : ops[i].c # "init"
<1>1. ASSUME NEW o \in SdCommands, o.c \notin {"write", "init"}
      PROVE  <<o>> \in Plans /\ \A i \in DOMAIN <<o>> : <<o>>[i].c # "init"
  BY <1>1, SinglePlan
<1>2. CASE ops = <<SdCommand("status", 0, "none")>>
  <2>1. SdCommand("status", 0, "none") \in SdCommands
        /\ SdCommand("status", 0, "none").c = "status"
    BY SdConstants DEF SdCommand, SdCommands, SdKinds
  <2> QED
    BY <1>1, <1>2, <2>1
<1>3. CASE ops = <<SdCommand("blocklen", 0, "none")>>
  <2>1. SdCommand("blocklen", 0, "none") \in SdCommands
        /\ SdCommand("blocklen", 0, "none").c = "blocklen"
    BY SdConstants DEF SdCommand, SdCommands, SdKinds
  <2> QED
    BY <1>1, <1>3, <2>1
<1>4. ASSUME NEW l \in Lbas, ops = <<ReadOp(l, AnyContent)>>
      PROVE  ops \in Plans /\ \A i \in DOMAIN ops : ops[i].c # "init"
  <2>1. ReadOp(l, AnyContent) \in SdCommands /\ ReadOp(l, AnyContent).c = "read"
    BY DEF ReadOp, SdCommand, SdCommands, SdKinds
  <2> QED
    BY <1>1, <1>4, <2>1
<1>5. ASSUME NEW l \in Lbas, NEW v \in Contents, ops = <<WriteOp(l, v), ReadOp(l, v)>>
      PROVE  ops \in Plans /\ \A i \in DOMAIN ops : ops[i].c # "init"
  BY <1>5, WritePlan
<1>6. ASSUME NEW l \in Lbas, l + 1 \in Lbas, NEW v \in Contents,
             ops = [i \in 1 .. 2 |-> WriteOp(l + i - 1, v)]
                   \o [i \in 1 .. 2 |-> ReadOp(l + i - 1, v)]
      PROVE  ops \in Plans /\ \A i \in DOMAIN ops : ops[i].c # "init"
  BY <1>6, TwoBlocksPlan
<1> QED
  BY <1>2, <1>3, <1>4, <1>5, <1>6 DEF RawPlans

\* A call in progress is a record with a plan; none is not.
LEMMA CallKinds ==
    ASSUME SdInv
    PROVE  /\ call # NoCall =>
                /\ call \in SdCalls /\ call.who \in {"raw", "fs"} /\ call.ops \in Plans
                /\ call.at \in 1 .. Len(call.ops) /\ Len(call.ops) \in Nat
                /\ DOMAIN call.ops = 1 .. Len(call.ops) /\ Op \in SdCommands
           /\ call = NoCall <=> call.who \notin {"raw", "fs"}
<1>1. call # NoCall => call \in SdCalls /\ call.who \in {"raw", "fs"} /\ call.ops \in Plans
  BY DEF SdInv, SdTypeOK, SdCalls
<1>2. call = NoCall => call.who = "none"
  BY DEF NoCall
<1>3. ASSUME call # NoCall
      PROVE  /\ call.at \in 1 .. Len(call.ops) /\ Len(call.ops) \in Nat
             /\ DOMAIN call.ops = 1 .. Len(call.ops) /\ Op \in SdCommands
  <2>1. call.ops \in Seq(SdCommands)
    BY <1>1, <1>3 DEF Plans
  <2>2. call.at \in 1 .. Len(call.ops)
    BY <1>3 DEF SdInv, Driving
  <2> QED
    BY <2>1, <2>2 DEF Op
<1> QED
  BY <1>1, <1>2, <1>3

\* A request names what it is.
LEMMA ReqKinds ==
    ASSUME FsFits
    PROVE  /\ req = NoReq <=> req.kind = "none"
           /\ req # NoReq => req.kind \in {"claim", "probe", "read", "write"}
           /\ req.kind = "claim" => req = [kind |-> "claim"]
           /\ req.kind = "probe" => req \in [kind : {"probe"}, l : {0, PartStart}]
           /\ req.kind \in {"read", "write"} =>
                req \in [kind : {"read", "write"}, l : Lbas, left : Nat \ {0}, v : Contents]
BY DEF FsFits, Reqs, NoReq

\* The service at power-on satisfies the invariant.
LEMMA SdStarts == SdInit => SdInv
<1> SUFFICES ASSUME SdInit PROVE SdInv
  OBVIOUS
<1>1. NoCall.who = "none" /\ NoReq.kind = "none" /\ NoCmd.c = "none"
  BY DEF NoCall, NoReq, NoCmd
<1>2. media \in [Lbas -> SdContents]
  BY DEF SdInit, SdContents
<1>3. core \in Cores /\ core.cmd = NoCmd
  BY DEF SdInit, Cores, SdReplies, SdContents
<1>4. svc \in Svcs /\ ~svc.ready
  BY SdAssumption DEF SdInit, Svcs
<1>5. SdTypeOK
  BY <1>2, <1>3, <1>4 DEF SdTypeOK, SdInit
<1>6. Driving /\ Fresh /\ Intact /\ Owned
  BY <1>1, <1>3, <1>4 DEF SdInit, Driving, Fresh, Intact, Owned
<1>7. fsport \in Ports
  <2>1. [first |-> 0, sectors |-> 0] \in Volumes
    BY DEF Volumes
  <2> QED
    BY <2>1 DEF SdInit, Ports
<1>8. FsFits
  BY <1>1, <1>7 DEF SdInit, FsFits, Reqs
<1>9. SdHonest
  BY DEF SdInit, SdHonest
<1> QED
  BY <1>5, <1>6, <1>8, <1>9 DEF SdInv

\* A service call starts: the mutex was free, so the core is at rest.
Starts(who, ops) ==
    /\ call = NoCall /\ ops \in Plans
    /\ call' = [who |-> who, ops |-> ops, at |-> 1, ph |-> "next"]
    /\ UNCHANGED <<media, core, result, broken>>

\* What every start of a call keeps.
LEMMA StartsKeeps ==
    ASSUME SdInv, NEW who \in {"raw", "fs"}, NEW ops, Starts(who, ops), svc' \in Svcs
    PROVE  /\ SdTypeOK' /\ Driving' /\ Intact' /\ SdHonest'
           /\ call'.who = who /\ call'.ops = ops /\ call' # NoCall /\ Op' = ops[1]
           /\ call'.ph = "next"
<1>1. /\ call' \in SdCalls /\ call'.who = who /\ call'.ops = ops /\ call' # NoCall
      /\ call'.at = 1 /\ call'.ph = "next"
  BY DEF Starts, SdCalls, SdPhases, NoCall
<1>2. ops \in Seq(SdCommands) /\ ops # <<>>
  BY DEF Starts, Plans
<1>3. 1 \in 1 .. Len(ops) /\ 1 .. 1 - 1 = {}
  BY <1>2
<1>4. SdTypeOK'
  BY <1>1 DEF SdInv, SdTypeOK, Starts
<1>5. Driving'
  BY <1>1, <1>3 DEF SdInv, Driving, Starts
<1>6. Intact' /\ SdHonest'
  BY <1>1, <1>3 DEF SdInv, Intact, SdHonest, Starts
<1>7. Op' = ops[1]
  BY <1>1 DEF Op
<1> QED
  BY <1>1, <1>4, <1>5, <1>6, <1>7

\* A raw command of the console starts.
LEMMA RawCallKeeps == ASSUME SdInv, RawCall PROVE SdInv'
<1>1. PICK ops \in RawPlans : StartCall("raw", ops)
  BY DEF RawCall
<1>2. ops \in Plans /\ \A i \in DOMAIN ops : ops[i].c # "init"
  BY RawPlansGood
<1>3. Starts("raw", ops) /\ svc.ready /\ svc.owned = FALSE /\ svc' = svc
  BY <1>1, <1>2 DEF RawCall, StartCall, Starts, begin
<1>4. svc' \in Svcs
  BY <1>3 DEF SdInv, SdTypeOK
<1>5. /\ SdTypeOK' /\ Driving' /\ Intact' /\ SdHonest'
      /\ call'.who = "raw" /\ call'.ops = ops /\ call' # NoCall /\ Op' = ops[1]
      /\ call'.ph = "next"
  BY <1>3, <1>4, StartsKeeps
<1>6. Fresh'
  BY <1>3, <1>5 DEF SdInv, Fresh, Knows, Starts
<1>7. FsFits'
  BY DEF SdInv, FsFits, RawCall
<1>8. Owned'
  BY <1>3, <1>5 DEF Owned
<1> QED
  BY <1>5, <1>6, <1>7, <1>8 DEF SdInv

\* The initialisation is a good plan.
LEMMA InitPlanGood ==
    /\ InitPlan \in Plans /\ InitPlan[1].c = "init"
    /\ \A i \in DOMAIN InitPlan : InitPlan[i].c \notin {"read", "write"}
<1>1. SdCommand("init", 0, "none") \in SdCommands /\ SdCommand("init", 0, "none").c = "init"
  BY SdConstants DEF SdCommand, SdCommands, SdKinds
<1> QED
  BY <1>1, SinglePlan DEF InitPlan

\* Forgetting the card keeps its owner.
LEMMA ForgottenIs ==
    ASSUME NEW s \in Svcs
    PROVE  Forgotten(s) \in Svcs /\ Forgotten(s).owned = s.owned
BY DEF Forgotten, Svcs

\* The console initialises the card.
LEMMA RawInitKeeps == ASSUME SdInv, RawInit PROVE SdInv'
<1>1. Starts("raw", InitPlan) /\ svc.owned = FALSE /\ svc' = Forgotten(svc)
  BY InitPlanGood DEF RawInit, StartCall, Starts, begin
<1>2. svc' \in Svcs /\ svc'.owned = FALSE
  BY <1>1, ForgottenIs DEF SdInv, SdTypeOK
<1>3. /\ SdTypeOK' /\ Driving' /\ Intact' /\ SdHonest'
      /\ call'.who = "raw" /\ call' # NoCall /\ Op' = InitPlan[1] /\ call'.ph = "next"
  BY <1>1, <1>2, StartsKeeps
<1>4. Fresh'
  BY <1>3, InitPlanGood DEF Fresh
<1>5. FsFits'
  BY DEF SdInv, FsFits, RawInit
<1>6. Owned'
  BY <1>2, <1>3 DEF Owned
<1> QED
  BY <1>3, <1>4, <1>5, <1>6 DEF SdInv

\* The file system claims the card.
LEMMA FsClaimKeeps == ASSUME SdInv, FsClaim PROVE SdInv'
<1>1. /\ Starts("fs", InitPlan) /\ svc' = [Forgotten(svc) EXCEPT !.owned = TRUE]
      /\ fsport' = [fsport EXCEPT !.attempted = TRUE] /\ ~fsport.attempted
      /\ req' = [kind |-> "claim"] /\ broken' = broken
  BY InitPlanGood DEF FsClaim, StartCall, Starts, begin
<1>2. svc' \in Svcs /\ svc'.owned
  BY <1>1, ForgottenIs DEF SdInv, SdTypeOK, Svcs
<1>3. /\ SdTypeOK' /\ Driving' /\ Intact' /\ SdHonest'
      /\ call'.who = "fs" /\ call'.ops = InitPlan /\ call' # NoCall /\ Op' = InitPlan[1]
      /\ call'.ph = "next"
  BY <1>1, <1>2, StartsKeeps
<1>4. Fresh'
  BY <1>3, InitPlanGood DEF Fresh
<1>5. ~broken
  BY <1>1 DEF SdInv, FsFits
<1>6. fsport' \in Ports /\ fsport'.attempted
  BY <1>1 DEF SdInv, FsFits, Ports
<1>7. req' \in Reqs /\ req' # NoReq /\ req'.kind = "claim"
  BY <1>1 DEF Reqs, NoReq
<1>8. FsFits'
  BY <1>1, <1>5, <1>6, <1>7 DEF SdInv, FsFits
<1>9. Owned'
  BY <1>1, <1>2, <1>3, <1>5, <1>6, <1>7, InitPlanGood DEF Owned
<1> QED
  BY <1>3, <1>4, <1>8, <1>9 DEF SdInv

\* The plans of the file system are good and stay in its request.
LEMMA FsOpsGood ==
    ASSUME FsFits, req.kind \in {"probe", "read", "write"}
    PROVE  /\ FsOps \in Plans
           /\ \A i \in DOMAIN FsOps :
                 /\ FsOps[i].c # "init" /\ FsOps[i].l = req.l
                 /\ FsOps[i].c = "write" => req.kind = "write"
<1>1. CASE req.kind \in {"probe", "read"}
  <2>1. FsOps = <<ReadOp(req.l, AnyContent)>>
    BY <1>1 DEF FsOps
  <2>2. /\ ReadOp(req.l, AnyContent) \in SdCommands /\ ReadOp(req.l, AnyContent).c = "read"
        /\ ReadOp(req.l, AnyContent).l = req.l
    <3>1. req.l \in Lbas
      BY <1>1, ReqKinds, SdConstants
    <3> QED
      BY <3>1 DEF ReadOp, SdCommand, SdCommands, SdKinds
  <2> QED
    BY <2>1, <2>2, SinglePlan
<1>2. CASE req.kind = "write"
  <2>1. FsOps = <<WriteOp(req.l, req.v), ReadOp(req.l, req.v)>>
    BY <1>2 DEF FsOps
  <2>2. req.l \in Lbas /\ req.v \in Contents
    BY <1>2, ReqKinds
  <2> QED
    BY <1>2, <2>1, <2>2, WritePlan
<1> QED
  BY <1>1, <1>2

\* A block of a request starts.
LEMMA FsBlockKeeps == ASSUME SdInv, FsBlock PROVE SdInv'
<1>1. /\ FsFits /\ req.kind \in {"probe", "read", "write"}
  BY DEF SdInv, FsBlock
<1>2. /\ FsOps \in Plans
      /\ \A i \in DOMAIN FsOps :
            /\ FsOps[i].c # "init" /\ FsOps[i].l = req.l
            /\ FsOps[i].c = "write" => req.kind = "write"
  BY <1>1, FsOpsGood
<1>3. 1 \in DOMAIN FsOps
  BY <1>2 DEF Plans
<1>4. Starts("fs", FsOps) /\ svc.ready /\ svc.owned = TRUE /\ UNCHANGED <<svc, fsport, req, broken>>
  BY <1>2 DEF FsBlock, StartCall, Starts, begin
<1>5. svc' \in Svcs
  BY <1>4 DEF SdInv, SdTypeOK
<1>6. /\ SdTypeOK' /\ Driving' /\ Intact' /\ SdHonest'
      /\ call'.who = "fs" /\ call'.ops = FsOps /\ call' # NoCall /\ Op' = FsOps[1]
      /\ call'.ph = "next"
  BY <1>4, <1>5, StartsKeeps
<1>7. Fresh'
  BY <1>4, <1>6 DEF SdInv, Fresh, Knows, Starts
<1>8. FsFits'
  BY <1>1, <1>4 DEF FsFits
<1>9. req # NoReq /\ ~broken /\ fsport.attempted
  BY <1>1, ReqKinds DEF FsFits
<1>10. Owned'
  BY <1>2, <1>4, <1>6, <1>9 DEF Owned, SdInv
<1> QED
  BY <1>6, <1>7, <1>8, <1>10 DEF SdInv

\* Steps of the console that only change what it knows, and of the file
\* system that only change its request.
LEMMA FsRequestKeeps == ASSUME SdInv, FsRequest PROVE SdInv'
<1>1. PICK kind \in {"read", "write"}, s \in 0 .. VolSectors, n \in 1 .. 2, v \in Contents :
          /\ fsport.ready /\ req = NoReq
          /\ bvstk_sd_volume_map(fsport.vol, s, n)
          /\ req' = [kind |-> kind, l |-> fsport.vol.first + s, left |-> n, v |-> v]
  BY DEF FsRequest
<1>2. UNCHANGED <<media, core, svc, call, fsport, result, broken>>
  BY DEF FsRequest
<1>3. /\ fsport \in Ports /\ fsport.vol \in Volumes
      /\ fsport.vol.first \in {0, PartStart} /\ fsport.vol.sectors \in {0, VolSectors}
  BY DEF SdInv, FsFits, Ports, Volumes
<1>4. /\ fsport.vol.first \in Nat /\ fsport.vol.sectors \in Nat /\ s \in Nat /\ n \in Nat /\ n >= 1
      /\ VolSectors \in Nat
  BY <1>3, SdConstants
<1>5. s < fsport.vol.sectors /\ s + n <= fsport.vol.sectors
  BY <1>1, <1>4 DEF bvstk_sd_volume_map
<1>6. fsport.vol.sectors = VolSectors
  BY <1>3, <1>4, <1>5
<1>7. fsport.vol.first + s \in Nat /\ fsport.vol.first + s < fsport.vol.first + VolSectors
  BY <1>4, <1>5, <1>6
<1>8. fsport.vol.first + s \in Lbas
  BY <1>3, <1>7, SdConstants
<1>9. /\ req' \in Reqs /\ req' # NoReq /\ req'.l = fsport.vol.first + s /\ req'.left = n
  BY <1>1, <1>4, <1>8 DEF Reqs, NoReq
<1>10. FsFits'
  <2>1. fsport.vol.first <= req'.l /\ req'.l + req'.left <= fsport.vol.first + fsport.vol.sectors
    BY <1>4, <1>5, <1>9
  <2>2. fsport.attempted /\ ~broken
    BY <1>1 DEF SdInv, FsFits
  <2> QED
    BY <1>2, <1>9, <2>1, <2>2 DEF SdInv, FsFits
<1>11. call.who # "fs"
  BY <1>1 DEF SdInv, Owned
<1>12. Owned'
  BY <1>2, <1>11 DEF SdInv, Owned
<1>13. SdTypeOK' /\ Driving' /\ Fresh' /\ Intact' /\ SdHonest'
  BY <1>2 DEF SdInv, SdTypeOK, Driving, Fresh, Knows, Intact, SdHonest, Op
<1> QED
  BY <1>10, <1>12, <1>13 DEF SdInv

\* The mutex is not obtained: the volume is off.
LEMMA FsLockTimeoutKeeps == ASSUME SdInv, FsLockTimeout PROVE SdInv'
<1>1. /\ fsport' = [report_error(fsport, ErrTimeout) EXCEPT !.attempted = TRUE]
      /\ req' = NoReq /\ broken' = TRUE
      /\ UNCHANGED <<media, core, svc, call, result>>
  BY DEF FsLockTimeout
<1>2. fsport \in Ports
  BY DEF SdInv, FsFits
<1>3. fsport' \in Ports /\ fsport'.attempted /\ ~fsport'.ready
  BY <1>1, <1>2 DEF Ports, report_error, ErrTimeout
<1>4. call.who # "fs"
  BY DEF FsLockTimeout, SdInv, Owned
<1>5. FsFits'
  BY <1>1, <1>3 DEF FsFits, Reqs, NoReq
<1>6. Owned'
  BY <1>1, <1>4 DEF SdInv, Owned
<1>7. SdTypeOK' /\ Driving' /\ Fresh' /\ Intact' /\ SdHonest'
  BY <1>1 DEF SdInv, SdTypeOK, Driving, Fresh, Knows, Intact, SdHonest, Op
<1> QED
  BY <1>5, <1>6, <1>7 DEF SdInv

\* Steps that change only what the console knows.
LEMMA ShellKeeps ==
    ASSUME SdInv, UNCHANGED <<media, core, svc, call, fsport, req, result, broken>>
    PROVE  SdInv'
BY DEF SdInv, SdTypeOK, Driving, Fresh, Knows, Intact, FsFits, Owned, SdHonest, Op

\* The driver's steps inside a call keep plan, owner and request.
Drives ==
    /\ call # NoCall /\ call' \in SdCalls /\ call'.who = call.who
    /\ core' \in Cores /\ svc' \in Svcs /\ svc'.owned = svc.owned
    /\ UNCHANGED <<media, fsport, req, result, broken>>

\* What every step of the driver inside a call keeps.
LEMMA DrivesKeeps ==
    ASSUME SdInv, Drives, call'.ops = call.ops
    PROVE  SdTypeOK' /\ FsFits' /\ Owned' /\ SdHonest'
<1>1. call' # NoCall
  BY DEF Drives, SdCalls, NoCall
<1>2. SdTypeOK' /\ FsFits' /\ SdHonest'
  BY <1>1 DEF SdInv, SdTypeOK, FsFits, SdHonest, Drives
<1>3. Owned'
  BY DEF SdInv, Owned, Drives
<1> QED
  BY <1>2, <1>3

\* An aborted core has no command.
LEMMA AbortIs ==
    ASSUME SdInv
    PROVE  Abort \in Cores /\ Abort.cmd = NoCmd /\ Abort.used = core.used
BY DEF SdInv, SdTypeOK, Abort, Cores

\* The initialisation is started on the core.
LEMMA StartInitKeeps == ASSUME SdInv, StartInit PROVE SdInv'
<1>1. /\ call # NoCall /\ call.ph = "next" /\ call \in SdCalls
      /\ call' = [call EXCEPT !.ph = "init"]
      /\ core' = [Abort EXCEPT !.used = FALSE,
                    !.cmd = SdCommand("init", 0, "none"), !.reply = "sentinel"]
      /\ UNCHANGED <<media, svc, fsport, req, result, broken>>
  BY CallKinds DEF StartInit
<1>2. SdCommand("init", 0, "none") \in SdCommands /\ SdCommand("init", 0, "none").c = "init"
  BY SdConstants DEF SdCommand, SdCommands, SdKinds
<1>3. /\ core' \in Cores /\ core'.used = FALSE /\ core'.cmd = SdCommand("init", 0, "none")
  BY <1>1, <1>2, AbortIs DEF Cores, SdReplies
<1>4. /\ call' \in SdCalls /\ call'.who = call.who /\ call'.ops = call.ops
      /\ call'.at = call.at /\ call'.ph = "init" /\ call' # NoCall
  BY <1>1 DEF SdCalls, SdPhases, NoCall
<1>5. Drives
  BY <1>1, <1>3, <1>4 DEF Drives, SdInv, SdTypeOK
<1>6. Driving' /\ Fresh'
  BY <1>1, <1>3, <1>4 DEF SdInv, Driving, Fresh
<1>7. Intact'
  BY <1>1, <1>2, <1>3, <1>4 DEF SdInv, Intact
<1> QED
  BY <1>4, <1>5, <1>6, <1>7, DrivesKeeps DEF SdInv

\* A command is started on the core.
LEMMA StartCommandKeeps == ASSUME SdInv, StartCommand PROVE SdInv'
<1>1. /\ call # NoCall /\ call \in SdCalls /\ call.ph \in {"next", "prepared"} /\ Op.c # "init"
      /\ call' = [call EXCEPT !.ph = "cmd"] /\ core' = Armed(Op)
      /\ svc' = [svc EXCEPT !.since = TRUE] /\ Op \in SdCommands
      /\ UNCHANGED <<media, fsport, req, result, broken>>
  BY CallKinds DEF StartCommand
<1>2. /\ core' \in Cores /\ core'.cmd = Op /\ core'.sig = {} /\ core'.up = core.up
  BY <1>1 DEF SdInv, SdTypeOK, Armed, Cores, SdReplies, SdContents
<1>3. svc' \in Svcs /\ svc'.since /\ svc'.owned = svc.owned
  BY <1>1 DEF SdInv, SdTypeOK, Svcs
<1>4. /\ call' \in SdCalls /\ call'.who = call.who /\ call'.ops = call.ops
      /\ call'.at = call.at /\ call'.ph = "cmd" /\ call' # NoCall
  BY <1>1 DEF SdCalls, SdPhases, NoCall
<1>5. Op' = Op
  BY <1>4 DEF Op
<1>6. Drives
  BY <1>1, <1>2, <1>3, <1>4 DEF Drives
<1>7. core.up
  BY <1>1 DEF SdInv, Fresh, Knows
<1>8. Driving' /\ Fresh'
  BY <1>1, <1>2, <1>3, <1>4, <1>5, <1>7 DEF SdInv, Driving, Fresh
<1>9. Intact'
  BY <1>1, <1>2, <1>4 DEF SdInv, Intact
<1> QED
  BY <1>4, <1>6, <1>8, <1>9, DrivesKeeps DEF SdInv

\* report_error changes the readiness of the volume only.
LEMMA ReportIs ==
    ASSUME NEW p \in Ports, NEW st
    PROVE  /\ report_error(p, st) \in Ports /\ report_error(p, st).vol = p.vol
           /\ report_error(p, st).attempted = p.attempted
           /\ st # "ok" => ~report_error(p, st).ready
           /\ st = "ok" => report_error(p, st) = p
BY DEF report_error, Ports

\* The end of a call of the file system leaves a request inside the volume,
\* or none.
LEMMA AfterFsKeeps ==
    ASSUME FsFits, ~broken, req # NoReq, NEW st, NEW got, AfterFs(st, got)
    PROVE  FsFits'
<1> DEFINE p == report_error(fsport, st)
<1>1. /\ fsport \in Ports /\ fsport.attempted /\ fsport.vol \in Volumes
  BY DEF FsFits, Ports
<1>2. /\ p \in Ports /\ p.vol = fsport.vol /\ p.attempted /\ (st # "ok" => ~p.ready)
      /\ (st = "ok" => p = fsport)
  BY <1>1, ReportIs
<1>3. broken' \in BOOLEAN /\ (broken' <=> st # "ok")
  BY DEF AfterFs
<1> HIDE DEF p
<1>4. CASE st # "ok"
  <2>1. fsport' = p /\ req' = NoReq
    BY <1>4 DEF AfterFs, p
  <2> QED
    BY <1>2, <1>3, <1>4, <2>1 DEF FsFits, Reqs, NoReq
<1>5. CASE st = "ok" /\ req.kind = "claim"
  <2>1. fsport' = p /\ req' = [kind |-> "probe", l |-> 0]
    BY <1>5 DEF AfterFs, p
  <2>2. req' \in Reqs /\ req'.kind = "probe"
    BY <2>1, SdConstants DEF Reqs
  <2> QED
    BY <1>2, <1>3, <1>5, <2>1, <2>2 DEF FsFits
<1>6. CASE st = "ok" /\ req.kind = "probe"
  <2>1. CASE bpb(got, req.l) # <<>>
    <3>1. fsport' = [p EXCEPT !.ready = TRUE, !.vol = bpb(got, req.l)[1]] /\ req' = NoReq
      BY <1>6, <2>1 DEF AfterFs, p
    <3>2. got = Bpb /\ bpb(got, req.l)[1] = [first |-> req.l, sectors |-> VolSectors]
      BY <2>1 DEF bpb
    <3>3. req.l \in {0, PartStart}
      BY <1>6, ReqKinds
    <3>4. bpb(got, req.l)[1] \in Volumes
      BY <3>2, <3>3 DEF Volumes
    <3>5. fsport' \in Ports /\ fsport'.attempted
      BY <1>2, <3>1, <3>4 DEF Ports
    <3> QED
      BY <1>3, <1>6, <3>1, <3>5 DEF FsFits, Reqs, NoReq
  <2>2. CASE bpb(got, req.l) = <<>>
    <3>1. /\ fsport' = p
          /\ req' = IF got = Mbr /\ req.l = 0 THEN [req EXCEPT !.l = PartStart] ELSE NoReq
      BY <1>6, <2>2 DEF AfterFs, p
    <3>2. req \in [kind : {"probe"}, l : {0, PartStart}]
      BY <1>6, ReqKinds
    <3>3. req' \in Reqs /\ req'.kind \in {"probe", "none"}
      BY <3>1, <3>2, SdConstants DEF Reqs, NoReq
    <3> QED
      BY <1>2, <1>3, <1>6, <3>1, <3>3 DEF FsFits
  <2> QED
    BY <2>1, <2>2
<1>7. CASE st = "ok" /\ req.kind \in {"read", "write"}
  <2>1. /\ fsport' = p
        /\ req' = IF req.left = 1 THEN NoReq ELSE [req EXCEPT !.l = @ + 1, !.left = @ - 1]
    BY <1>7 DEF AfterFs, p
  <2>2. /\ req \in [kind : {"read", "write"}, l : Lbas, left : Nat \ {0}, v : Contents]
        /\ fsport.vol.first <= req.l
        /\ req.l + req.left <= fsport.vol.first + fsport.vol.sectors
    BY <1>7, ReqKinds DEF FsFits
  <2>3. /\ fsport.vol.first \in {0, PartStart} /\ fsport.vol.sectors \in {0, VolSectors}
        /\ fsport.vol.first \in Nat /\ fsport.vol.sectors \in Nat /\ VolSectors \in Nat
        /\ req.l \in Nat /\ req.left \in Nat /\ req.left >= 1
    <3>1. req.l \in Lbas /\ req.left \in Nat \ {0}
      BY <2>2
    <3>2. fsport.vol.first \in {0, PartStart} /\ fsport.vol.sectors \in {0, VolSectors}
      BY <1>1 DEF Volumes
    <3>3. req.l \in Nat /\ PartStart \in Nat /\ VolSectors \in Nat
      BY <3>1, SdConstants
    <3> QED
      BY <3>1, <3>2, <3>3
  <2>4. CASE req.left = 1
    BY <1>2, <1>3, <1>7, <2>1, <2>4 DEF FsFits, Reqs, NoReq
  <2>5. CASE req.left # 1
    <3> DEFINE l == req.l + 1
               n == req.left - 1
    <3>1. req' = [req EXCEPT !.l = l, !.left = n]
      BY <2>1, <2>5
    <3>2. /\ l \in Nat /\ n \in Nat \ {0} /\ fsport.vol.first <= l
          /\ l + n <= fsport.vol.first + fsport.vol.sectors
          /\ l < fsport.vol.first + VolSectors
      BY <2>2, <2>3, <2>5
    <3>3. l \in Lbas
      BY <2>3, <3>2, SdConstants
    <3> HIDE DEF l, n
    <3>4. /\ req' \in Reqs /\ req'.kind = req.kind /\ req'.l = l /\ req'.left = n /\ req' # NoReq
      BY <2>2, <3>1, <3>2, <3>3 DEF Reqs, NoReq
    <3> QED
      BY <1>2, <1>3, <1>7, <2>1, <3>2, <3>4 DEF FsFits
  <2> QED
    BY <2>4, <2>5
<1> QED
  BY <1>4, <1>5, <1>6, <1>7, ReqKinds

\* What SdHonest asks of a call that ends well.
Tells(ops, got) ==
    /\ \A i \in DOMAIN ops : ops[i].c = "write" => media[ops[i].l] = ops[i].v
    /\ \A i \in DOMAIN ops : ops[i].c = "read" => got = media[ops[Len(ops)].l]

\* finish changes the readiness of the card only.
LEMMA FinishIs ==
    ASSUME NEW s \in Svcs, NEW st
    PROVE  /\ finish(s, st) \in Svcs /\ finish(s, st).owned = s.owned
           /\ finish(s, st).since = s.since /\ (finish(s, st).ready => s.ready)
           /\ st \in {ErrIo, ErrTimeout} => ~finish(s, st).ready
BY DEF finish, Svcs

\* A service call ends: the mutex is released and the core is at rest.
LEMMA SdDoneKeeps ==
    ASSUME SdInv, call # NoCall, NEW s \in Svcs, s.owned = svc.owned, NEW st, NEW got,
           SdDone(s, st, got), core' \in Cores, core'.cmd = NoCmd, media' = media,
           st \notin {ErrIo, ErrTimeout} => Knows(s, core'),
           st = "ok" => Tells(call.ops, got)
    PROVE  SdInv'
<1>1. /\ svc' = finish(s, st) /\ call' = NoCall
      /\ result' = [st |-> st, ops |-> call.ops, got |-> got]
  BY DEF SdDone
<1>2. /\ svc' \in Svcs /\ svc'.owned = svc.owned /\ svc'.since = s.since
      /\ st \in {ErrIo, ErrTimeout} => ~svc'.ready
  BY <1>1, FinishIs
<1>3. NoCall.who = "none" /\ NoCmd.c = "none"
  BY DEF NoCall, NoCmd
<1>4. SdTypeOK'
  BY <1>1, <1>2 DEF SdInv, SdTypeOK
<1>5. Driving' /\ Intact'
  BY <1>1, <1>3 DEF Driving, Intact
<1>6. Fresh'
  BY <1>1, <1>2 DEF Fresh, Knows
<1>7. FsFits'
  <2>1. CASE call.who = "fs"
    <3>1. AfterFs(st, got) /\ FsFits /\ ~broken /\ req # NoReq
      BY <2>1 DEF SdDone, SdInv, Owned
    <3> QED
      BY <3>1, AfterFsKeeps
  <2>2. CASE call.who # "fs"
    BY <2>2 DEF SdDone, SdInv, FsFits
  <2> QED
    BY <2>1, <2>2
<1>8. Owned'
  BY <1>1, <1>3 DEF Owned
<1>9. SdHonest'
  <2>1. result'.st = st /\ result'.ops = call.ops /\ result'.got = got
    BY <1>1
  <2>2. st = "ok" =>
          /\ \A i \in DOMAIN call.ops : call.ops[i].c = "write" =>
                 media'[call.ops[i].l] = call.ops[i].v
          /\ \A i \in DOMAIN call.ops : call.ops[i].c = "read" =>
                 got = media'[call.ops[Len(call.ops)].l]
    BY DEF Tells
  <2> QED
    BY <2>1, <2>2 DEF SdHonest
<1> QED
  BY <1>4, <1>5, <1>6, <1>7, <1>8, <1>9 DEF SdInv

\* The initialisation ends: done, refused, or a block length to set.
LEMMA InitDoneKeeps == ASSUME SdInv, InitDone PROVE SdInv'
<1>1. /\ call # NoCall /\ call \in SdCalls /\ call.ph = "init" /\ Op \in SdCommands
      /\ call.ops \in Plans /\ call.at \in DOMAIN call.ops
      /\ core' = [core EXCEPT !.cmd = NoCmd, !.up = TRUE] /\ media' = media
  BY CallKinds DEF InitDone
<1>2. core \in Cores /\ svc \in Svcs /\ core.reply \in SdReplies /\ ~core.used
  BY <1>1 DEF SdInv, SdTypeOK, Cores, Fresh
<1>3. core' \in Cores /\ core'.cmd = NoCmd /\ core'.up /\ ~core'.used
  BY <1>1, <1>2 DEF Cores
<1>4. CASE Op.c = "init"
  <2> DEFINE s == [svc EXCEPT !.ocr = core.reply]
             t == [s EXCEPT !.ready = TRUE]
  <2>1. s \in Svcs /\ s.owned = svc.owned /\ t \in Svcs /\ t.owned = svc.owned
    BY <1>2 DEF Svcs
  <2>2. DOMAIN call.ops = {1} /\ call.at = 1 /\ call.ops[1].c = "init"
    BY <1>1, <1>4 DEF Plans, GoodPlan, Op
  <2>3. Tells(call.ops, Junk)
    BY <2>2 DEF Tells
  <2>4. ASSUME NEW u \in Svcs, u.owned = svc.owned, NEW st, SdDone(u, st, Junk)
        PROVE  SdInv'
    BY <1>1, <1>3, <2>3, <2>4, SdDoneKeeps DEF Knows
  <2>5. CASE core.reply = "sdsc" /\ ~svc.isolated
    <3> DEFINE o == SdCommand("blocklen", 0, "init")
    <3>1. /\ svc' = s /\ call' = [call EXCEPT !.ph = "next", !.ops = <<o>>]
          /\ UNCHANGED <<fsport, req, result, broken>>
      BY <1>4, <2>5 DEF InitDone
    <3>2. o \in SdCommands /\ o.c = "blocklen"
      BY SdConstants DEF SdCommand, SdCommands, SdKinds
    <3> HIDE DEF o, s
    <3>3. <<o>> \in Plans /\ Len(<<o>>) = 1 /\ <<o>>[1] = o /\ DOMAIN <<o>> = {1}
      BY <3>2, SinglePlan
    <3>4. /\ call' \in SdCalls /\ call'.who = call.who /\ call'.ops = <<o>>
          /\ call'.at = 1 /\ call'.ph = "next" /\ call' # NoCall
      BY <1>1, <2>2, <3>1, <3>3 DEF SdCalls, SdPhases, NoCall
    <3>5. Op' = o
      BY <3>3, <3>4 DEF Op
    <3>6. 1 \in 1 .. 1 /\ 1 .. 1 - 1 = {} /\ NoCmd.c = "none"
      BY DEF NoCmd
    <3>7. SdTypeOK' /\ FsFits' /\ SdHonest'
      BY <1>1, <1>3, <2>1, <3>1, <3>4 DEF SdInv, SdTypeOK, FsFits, SdHonest
    <3>8. Driving' /\ Intact'
      BY <1>3, <3>3, <3>4, <3>6 DEF Driving, Intact
    <3>9. Fresh'
      BY <1>3, <3>4, <3>5 DEF Fresh, Knows
    <3>10. Owned'
      BY <2>1, <3>1, <3>2, <3>3, <3>4 DEF SdInv, Owned
    <3> QED
      BY <3>7, <3>8, <3>9, <3>10 DEF SdInv
  <2>6. CASE core.reply = "sdsc" /\ svc.isolated
    <3>1. SdDone(s, "unsupported", Junk)
      BY <1>4, <2>6 DEF InitDone
    <3> QED
      BY <2>1, <2>4, <3>1
  <2>7. CASE core.reply # "sdsc"
    <3>1. SdDone(t, "ok", Junk)
      BY <1>4, <2>7 DEF InitDone
    <3> QED
      BY <2>1, <2>4, <3>1
  <2> QED
    BY <2>5, <2>6, <2>7
<1>5. CASE Op.c # "init" /\ core.reply = svc.ocr
  <2>1. /\ svc' = [svc EXCEPT !.since = FALSE] /\ call' = [call EXCEPT !.ph = "prepared"]
        /\ UNCHANGED <<fsport, req, result, broken>>
    BY <1>5 DEF InitDone
  <2>2. svc' \in Svcs /\ svc'.owned = svc.owned /\ ~svc'.since
    BY <1>2, <2>1 DEF Svcs
  <2>3. /\ call' \in SdCalls /\ call'.who = call.who /\ call'.ops = call.ops
        /\ call'.at = call.at /\ call'.ph = "prepared" /\ call' # NoCall
    BY <1>1, <2>1 DEF SdCalls, SdPhases, NoCall
  <2>4. Drives
    BY <1>1, <1>3, <2>1, <2>2, <2>3 DEF Drives
  <2>5. Driving' /\ Fresh'
    BY <1>1, <1>3, <2>2, <2>3 DEF SdInv, Driving, Fresh, Knows
  <2>6. Intact'
    BY <1>1, <1>3, <2>3 DEF SdInv, Intact, NoCmd
  <2> QED
    BY <2>3, <2>4, <2>5, <2>6, DrivesKeeps DEF SdInv
<1>6. CASE Op.c # "init" /\ core.reply # svc.ocr
  <2>1. SdDone(svc, ErrIo, Junk)
    BY <1>6 DEF InitDone
  <2>2. ErrIo # "ok"
    BY DEF ErrIo
  <2> QED
    BY <1>1, <1>2, <1>3, <2>1, <2>2, SdDoneKeeps
<1> QED
  BY <1>4, <1>5, <1>6

\* Once the last command of a good plan has been compared, the card holds all
\* that the plan wrote.
LEMMA PlanTells ==
    ASSUME NEW ops \in Plans, NEW got,
           \A i \in DOMAIN ops : ops[i].c = "read" =>
               ops[i].v \in {AnyContent, media[ops[i].l]},
           ops[Len(ops)].c = "read" => got = media[ops[Len(ops)].l]
    PROVE  Tells(ops, got)
<1>1. ops \in Seq(SdCommands) /\ ops # <<>> /\ GoodPlan(ops)
  BY DEF Plans
<1>2. Len(ops) \in DOMAIN ops /\ \A i \in DOMAIN ops : i = Len(ops) \/ i < Len(ops)
  BY <1>1
<1>3. ASSUME NEW i \in DOMAIN ops, ops[i].c = "read"
      PROVE  got = media[ops[Len(ops)].l]
  BY <1>1, <1>2, <1>3 DEF GoodPlan
<1>4. ASSUME NEW i \in DOMAIN ops, ops[i].c = "write"
      PROVE  media[ops[i].l] = ops[i].v
  <2>1. PICK j \in DOMAIN ops :
          ops[j].c = "read" /\ ops[j].l = ops[i].l /\ ops[j].v = ops[i].v
    BY <1>1, <1>4 DEF GoodPlan
  <2>2. ops[i].v # AnyContent
    BY <1>1, <1>4, SdConstants DEF GoodPlan
  <2>3. ops[j].v \in {AnyContent, media[ops[j].l]}
    BY <2>1
  <2> QED
    BY <2>1, <2>2, <2>3
<1> QED
  BY <1>3, <1>4 DEF Tells

\* A command ends: the next one of the plan, or the end of the call.
LEMMA CommandDoneKeeps == ASSUME SdInv, CommandDone PROVE SdInv'
<1> DEFINE good == core.reply # "bad" /\ (Op.c = "read" => core.crc)
           st == IF good /\ compare(Op, core.buf) THEN "ok" ELSE ErrIo
           s == [svc EXCEPT !.ready = @ \/ (Op.v = "init" /\ st = "ok")]
<1>1. /\ call # NoCall /\ call \in SdCalls /\ call.ph = "cmd" /\ Op \in SdCommands
      /\ call.ops \in Plans /\ call.at \in 1 .. Len(call.ops) /\ Len(call.ops) \in Nat
      /\ DOMAIN call.ops = 1 .. Len(call.ops)
      /\ Complete /\ media' = media
  BY CallKinds DEF CommandDone
<1>2. /\ core' = IF good THEN [core EXCEPT !.cmd = NoCmd] ELSE Abort
      /\ IF st = "ok" /\ call.at < Len(call.ops)
         THEN /\ call' = [call EXCEPT !.at = @ + 1, !.ph = "next"]
              /\ UNCHANGED <<svc, fsport, req, result, broken>>
         ELSE SdDone(s, st, core.buf)
  BY DEF CommandDone
<1>3. core \in Cores /\ svc \in Svcs /\ core.cmd = Op /\ core.up /\ svc.since
  BY <1>1 DEF SdInv, SdTypeOK, Driving, Fresh
<1>4. core' \in Cores /\ core'.cmd = NoCmd /\ (st = "ok" => core'.up)
  <2>1. CASE good
    BY <1>2, <1>3, <2>1 DEF Cores
  <2>2. CASE ~good
    BY <1>2, <2>2, AbortIs DEF ErrIo
  <2> QED
    BY <2>1, <2>2
<1>5. st = "ok" => good /\ compare(Op, core.buf)
  BY DEF ErrIo
<1>6. st = "ok" /\ Op.c = "read" => core.buf = media[Op.l] /\ Op.v \in {AnyContent, media[Op.l]}
  <2> SUFFICES ASSUME st = "ok", Op.c = "read"
               PROVE  core.buf = media[Op.l] /\ Op.v \in {AnyContent, media[Op.l]}
    OBVIOUS
  <2>1. "rx" \in core.sig /\ core.crc
    BY <1>1, <1>3, <1>5 DEF Complete, Needed
  <2>2. core.buf = media[Op.l]
    BY <1>3, <2>1 DEF SdInv, Intact
  <2> QED
    BY <1>5, <2>2 DEF compare
<1>7. st = "ok" => \A i \in 1 .. call.at : call.ops[i].c = "read" =>
          call.ops[i].v \in {AnyContent, media[call.ops[i].l]}
  <2>1. \A i \in 1 .. call.at : i = call.at \/ i \in 1 .. call.at - 1
    BY <1>1
  <2> QED
    BY <1>1, <1>6, <2>1 DEF SdInv, Intact, Op
<1>8. s \in Svcs /\ s.owned = svc.owned /\ s.since = svc.since
  BY <1>3 DEF Svcs
<1>9. st \in {"ok", ErrIo}
  OBVIOUS
<1> HIDE DEF good, s, st
<1>10. CASE st = "ok" /\ call.at < Len(call.ops)
  <2> DEFINE n == call.at + 1
  <2>1. call' = [call EXCEPT !.at = n, !.ph = "next"] /\ UNCHANGED <<svc, fsport, req, result, broken>>
    BY <1>2, <1>10
  <2>2. n \in 1 .. Len(call.ops) /\ n \in Nat /\ n - 1 = call.at /\ n # 1
    BY <1>1, <1>10
  <2> HIDE DEF n
  <2>3. /\ call' \in SdCalls /\ call'.who = call.who /\ call'.ops = call.ops
        /\ call'.at = n /\ call'.ph = "next" /\ call' # NoCall
    BY <1>1, <2>1, <2>2 DEF SdCalls, SdPhases, NoCall
  <2>4. Drives
    BY <1>1, <1>3, <1>4, <2>1, <2>3 DEF Drives
  <2>5. Driving'
    BY <1>4, <2>2, <2>3 DEF Driving
  <2>6. Fresh'
    BY <1>3, <1>4, <1>10, <2>1, <2>3 DEF Fresh, Knows
  <2>7. Intact'
    BY <1>1, <1>4, <1>7, <1>10, <2>2, <2>3 DEF Intact, NoCmd
  <2> QED
    BY <2>3, <2>4, <2>5, <2>6, <2>7, DrivesKeeps DEF SdInv
<1>11. CASE ~(st = "ok" /\ call.at < Len(call.ops))
  <2>1. SdDone(s, st, core.buf)
    BY <1>2, <1>11
  <2>2. ASSUME st = "ok" PROVE Tells(call.ops, core.buf)
    <3>1. call.at = Len(call.ops)
      BY <1>1, <1>11, <2>2
    <3>2. call.ops[Len(call.ops)] = Op
      BY <3>1 DEF Op
    <3>3. \A i \in DOMAIN call.ops : call.ops[i].c = "read" =>
              call.ops[i].v \in {AnyContent, media[call.ops[i].l]}
      BY <1>1, <1>7, <2>2, <3>1
    <3> QED
      BY <1>1, <1>6, <2>2, <3>2, <3>3, PlanTells
  <2>3. st \notin {ErrIo, ErrTimeout} => Knows(s, core')
    BY <1>3, <1>4, <1>8, <1>9 DEF Knows
  <2> QED
    BY <1>1, <1>4, <1>8, <2>1, <2>2, <2>3, SdDoneKeeps
<1> QED
  BY <1>10, <1>11

\* A command is given up.
LEMMA CommandFailsKeeps == ASSUME SdInv, CommandFails PROVE SdInv'
<1>1. PICK st \in {ErrIo, ErrTimeout} : SdDone(svc, st, Junk)
  BY DEF CommandFails
<1>2. call # NoCall /\ core' = Abort /\ media' = media /\ svc \in Svcs
  BY DEF CommandFails, SdInv, SdTypeOK
<1>3. core' \in Cores /\ core'.cmd = NoCmd
  BY <1>2, AbortIs
<1>4. st # "ok"
  BY DEF ErrIo, ErrTimeout
<1> QED
  BY <1>1, <1>2, <1>3, <1>4, SdDoneKeeps

\* The card and the core answer a command: only the signals, the reply and the
\* data change.
Answers ==
    /\ core' \in Cores
    /\ core'.cmd = core.cmd /\ core'.up = core.up /\ core'.used = core.used
    /\ UNCHANGED <<svc, call, fsport, req, result, broken>>

\* What every answer of card and core keeps.
LEMMA AnswersKeeps ==
    ASSUME SdInv, Answers, media' \in [Lbas -> SdContents], Intact', SdHonest'
    PROVE  SdInv'
<1>1. SdTypeOK'
  BY DEF SdInv, SdTypeOK, Answers
<1>2. Op' = Op
  BY DEF Answers, Op
<1>3. Driving'
  BY <1>2 DEF SdInv, Driving, Answers
<1>4. Fresh'
  BY <1>2 DEF SdInv, Fresh, Knows, Answers
<1>5. FsFits' /\ Owned'
  BY DEF SdInv, FsFits, Owned, Answers
<1> QED
  BY <1>1, <1>3, <1>4, <1>5 DEF SdInv

\* The core signals an interrupt, a completion or an error.
LEMMA CardSignalsKeeps == ASSUME SdInv, CardSignals PROVE SdInv'
<1>1. PICK f \in {"irq", "tx", "err"} : core' = [core EXCEPT !.sig = @ \cup {f}]
  BY DEF CardSignals
<1>2. core \in Cores /\ UNCHANGED <<media, svc, call, fsport, req, result, broken>>
  BY DEF CardSignals, SdInv, SdTypeOK
<1>3. /\ core' \in Cores /\ core'.cmd = core.cmd /\ core'.up = core.up /\ core'.used = core.used
      /\ core'.crc = core.crc /\ core'.buf = core.buf /\ core'.sig = core.sig \cup {f}
  BY <1>1, <1>2 DEF Cores, SdSignals
<1>4. Intact' /\ SdHonest'
  BY <1>2, <1>3 DEF SdInv, Intact, SdHonest
<1> QED
  BY <1>2, <1>3, <1>4, AnswersKeeps DEF Answers, SdInv, SdTypeOK

\* The data of a read arrive, intact or not.
LEMMA CardSendsKeeps == ASSUME SdInv, CardSends PROVE SdInv'
<1>1. PICK good \in BOOLEAN :
        core' = [core EXCEPT !.sig = @ \cup {"rx"}, !.crc = good,
                   !.buf = IF good THEN media[core.cmd.l] ELSE Junk]
  BY DEF CardSends
<1>2. /\ core \in Cores /\ core.cmd.c = "read"
      /\ UNCHANGED <<media, svc, call, fsport, req, result, broken>>
  BY DEF CardSends, SdInv, SdTypeOK
<1>3. core.cmd.l \in Lbas
  BY <1>2 DEF Cores, SdCommands, NoCmd
<1>4. media[core.cmd.l] \in SdContents /\ Junk \in SdContents
  BY <1>3 DEF SdInv, SdTypeOK, SdContents
<1>5. /\ core' \in Cores /\ core'.cmd = core.cmd /\ core'.up = core.up /\ core'.used = core.used
      /\ core'.crc = good /\ core'.buf = IF good THEN media[core.cmd.l] ELSE Junk
  BY <1>1, <1>2, <1>4 DEF Cores, SdSignals
<1>6. Intact' /\ SdHonest'
  BY <1>2, <1>5 DEF SdInv, Intact, SdHonest
<1> QED
  BY <1>2, <1>5, <1>6, AnswersKeeps DEF Answers, SdInv, SdTypeOK

\* Only a write changes the card, in its own block, and then no block of this
\* call has been read yet.
LEMMA RepliesWrite ==
    ASSUME SdInv, CardReplies
    PROVE  /\ media' \in [Lbas -> SdContents]
           /\ media' # media => call # NoCall /\ call.ph = "cmd" /\ Op.c = "write"
           /\ \A l \in Lbas : media'[l] # media[l] => l = Op.l
<1>1. PICK good \in BOOLEAN :
        LET w == core.cmd.c = "write" IN
        \/ good /\ media' = IF w THEN [media EXCEPT ![core.cmd.l] = core.cmd.v] ELSE media
        \/ ~good /\ media' \in {media, IF w THEN [media EXCEPT ![core.cmd.l] = Junk] ELSE media}
  BY DEF CardReplies
<1>2. media \in [Lbas -> SdContents] /\ core \in Cores
  BY DEF SdInv, SdTypeOK
<1>3. CASE core.cmd.c # "write"
  BY <1>1, <1>2, <1>3
<1>4. CASE core.cmd.c = "write"
  <2>1. core.cmd # NoCmd /\ core.cmd \in SdCommands /\ core.cmd.l \in Lbas
    BY <1>2, <1>4 DEF Cores, SdCommands, NoCmd
  <2>2. call # NoCall /\ call.ph \in SdPhases
    BY <2>1, CallKinds DEF SdInv, Driving, SdCalls
  <2>3. call.ph = "cmd" /\ core.cmd = Op
    BY <1>4, <2>1, <2>2 DEF SdInv, Driving, SdPhases, SdCommand
  <2>4. /\ call.ops \in Plans /\ call.at \in DOMAIN call.ops
    BY <2>2, CallKinds
  <2>5. core.cmd.v \in Contents
    BY <1>4, <2>3, <2>4 DEF Plans, GoodPlan, Op
  <2>6. PICK v \in SdContents : media' \in {media, [media EXCEPT ![core.cmd.l] = v]}
    BY <1>1, <1>4, <2>5 DEF SdContents
  <2> QED
    BY <1>2, <1>4, <2>1, <2>2, <2>3, <2>6
<1> QED
  BY <1>3, <1>4

\* The reply arrives; a write takes effect, is lost or spoils the block.
LEMMA CardRepliesKeeps == ASSUME SdInv, CardReplies PROVE SdInv'
<1>1. /\ media' \in [Lbas -> SdContents]
      /\ media' # media => call # NoCall /\ call.ph = "cmd" /\ Op.c = "write"
  BY RepliesWrite
<1>2. PICK r \in SdReplies : core' = [core EXCEPT !.sig = @ \cup {"reply"}, !.reply = r]
  BY DEF CardReplies, SdReplies
<1>3. core \in Cores /\ UNCHANGED <<svc, call, fsport, req, result, broken>>
  BY DEF CardReplies, SdInv, SdTypeOK
<1>4. /\ core' \in Cores /\ core'.cmd = core.cmd /\ core'.up = core.up /\ core'.used = core.used
      /\ core'.crc = core.crc /\ core'.buf = core.buf /\ core'.sig = core.sig \cup {"reply"}
  BY <1>2, <1>3 DEF Cores, SdSignals
<1>5. CASE media' = media
  <2>1. Intact' /\ SdHonest'
    BY <1>3, <1>4, <1>5 DEF SdInv, Intact, SdHonest
  <2> QED
    BY <1>1, <1>3, <1>4, <2>1, AnswersKeeps DEF Answers
<1>6. CASE media' # media
  <2>1. call # NoCall /\ call.ph = "cmd" /\ Op.c = "write" /\ core.cmd = Op
    BY <1>1, <1>6 DEF SdInv, Driving
  <2>2. SdHonest'
    BY <1>3, <2>1 DEF SdHonest
  <2>3. ASSUME NEW i \in 1 .. call.at - 1, call.ops[i].c = "read" PROVE FALSE
    <3>1. call.ops \in Plans /\ call.at \in 1 .. Len(call.ops) /\ Len(call.ops) \in Nat
          /\ DOMAIN call.ops = 1 .. Len(call.ops)
      BY <2>1, CallKinds
    <3>2. i \in DOMAIN call.ops /\ call.at \in DOMAIN call.ops /\ i < call.at
      BY <3>1
    <3>3. Op.c = "read"
      BY <2>3, <3>1, <3>2 DEF Plans, GoodPlan, Op
    <3> QED
      BY <2>1, <3>3
  <2>4. Intact'
    BY <1>3, <1>4, <2>1, <2>3 DEF Intact
  <2> QED
    BY <1>1, <1>3, <1>4, <2>2, <2>4, AnswersKeeps DEF Answers
<1> QED
  BY <1>5, <1>6

\* Every step keeps the invariant.
LEMMA SdKeeps == ASSUME SdInv, [SdNext]_sdvars PROVE SdInv'
<1>1. CASE UNCHANGED sdvars
  BY <1>1, ShellKeeps DEF sdvars
<1>2. CASE ShellLooks \/ RawRefused
  BY <1>2, ShellKeeps DEF ShellLooks, RawRefused
<1> QED
  BY <1>1, <1>2, RawCallKeeps, RawInitKeeps, FsClaimKeeps, FsRequestKeeps, FsBlockKeeps,
     FsLockTimeoutKeeps, StartInitKeeps, StartCommandKeeps, InitDoneKeeps, CommandDoneKeeps,
     CommandFailsKeeps, CardSignalsKeeps, CardRepliesKeeps, CardSendsKeeps DEF SdNext

(* The SD service tells the truth: when a call of the console or of FatFs  *)
(* ends well, every block it wrote is on the card and the data it returns  *)
(* are the card's, whatever the card, the core and its DMA did meanwhile.  *)
THEOREM SdIsHonest == SdSpec => []SdHonest
<1>1. SdInit => SdInv
  BY SdStarts
<1>2. SdInv /\ [SdNext]_sdvars => SdInv'
  BY SdKeeps
<1>3. SdInv => SdHonest
  BY DEF SdInv
<1> QED
  BY <1>1, <1>2, <1>3, PTL DEF SdSpec

\* A step of the file system that starts a call starts it with no error before.
LEMMA NoCallAfterFailure ==
    ASSUME SdInv, [SdNext]_sdvars, broken, call = NoCall, call'.who = "fs"
    PROVE  FALSE
<1>1. FsFits /\ fsport.attempted /\ req = NoReq /\ req.kind = "none" /\ NoCall.who = "none"
  BY DEF SdInv, FsFits, NoReq, NoCall
<1>2. ~FsClaim /\ ~FsBlock
  BY <1>1 DEF FsClaim, FsBlock
<1>3. ~RawCall /\ ~RawInit
  <2>1. ASSUME NEW ops, StartCall("raw", ops) PROVE FALSE
    BY <2>1 DEF StartCall
  <2> QED
    BY <2>1 DEF RawCall, RawInit
<1>4. ~StartInit /\ ~StartCommand /\ ~InitDone /\ ~CommandDone /\ ~CommandFails
  BY DEF StartInit, StartCommand, InitDone, CommandDone, CommandFails
<1>5. call' # call
  BY <1>1
<1> QED
  BY <1>2, <1>3, <1>4, <1>5 DEF SdNext, sdvars, ShellLooks, RawRefused, FsRequest, FsLockTimeout,
     CardSignals, CardReplies, CardSends

(* "I/O stopped ... restart required" is kept: after an error of the file  *)
(* system has been reported, no call of the file system reaches the card.  *)
THEOREM FailureIsFinal == SdSpec => StopsAfterFailure
<1>1. SdInit => SdInv
  BY SdStarts
<1>2. SdInv /\ [SdNext]_sdvars => SdInv'
  BY SdKeeps
<1>3. SdInv /\ [SdNext]_sdvars => [broken => ~(call = NoCall /\ call'.who = "fs")]_sdvars
  BY NoCallAfterFailure
<1> QED
  BY <1>1, <1>2, <1>3, PTL DEF SdSpec, StopsAfterFailure

\* The card changes only through its owner and inside the volume.
LEMMA OwnerWrites ==
    ASSUME SdInv, [SdNext]_sdvars, media' # media, svc.owned
    PROVE  /\ call.who = "fs"
           /\ \A l \in Lbas : media'[l] # media[l] =>
                 fsport.vol.first <= l /\ l < fsport.vol.first + fsport.vol.sectors
<1>1. CardReplies
  BY DEF SdNext, sdvars, ShellLooks, RawCall, RawInit, RawRefused, FsClaim, FsRequest, FsBlock,
     FsLockTimeout, StartInit, StartCommand, InitDone, CommandDone, CommandFails, CardSignals,
     CardSends
<1>2. call # NoCall /\ Op.c = "write" /\ \A l \in Lbas : media'[l] # media[l] => l = Op.l
  BY <1>1, RepliesWrite
<1>3. call.who = "fs" /\ call.at \in DOMAIN call.ops
  BY <1>2, CallKinds DEF SdInv, Owned
<1>4. req.kind = "write" /\ Op.l = req.l
  BY <1>2, <1>3 DEF SdInv, Owned, Op
<1>5. /\ fsport.vol.first <= req.l
      /\ req.l + req.left <= fsport.vol.first + fsport.vol.sectors
      /\ req.l \in Lbas /\ req.left \in Nat \ {0} /\ fsport.vol \in Volumes
  BY <1>4, ReqKinds DEF SdInv, FsFits, Ports
<1>6. fsport.vol.first \in Nat /\ fsport.vol.sectors \in Nat /\ req.l \in Nat
  <2>1. fsport.vol.first \in {0, PartStart} /\ fsport.vol.sectors \in {0, VolSectors}
    BY <1>5 DEF Volumes
  <2> QED
    BY <1>5, <2>1, SdConstants
<1>7. fsport.vol.first <= req.l /\ req.l < fsport.vol.first + fsport.vol.sectors
  BY <1>5, <1>6
<1> QED
  BY <1>2, <1>3, <1>4, <1>7

\* A command reaches a core that is up and, in the isolated profile, fresh.
LEMMA CommandsFreshCore ==
    ASSUME SdInv, [SdNext]_sdvars, core.cmd # core'.cmd, core'.cmd.c \notin {"none", "init"}
    PROVE  core.up /\ (svc.isolated => ~core.used)
<1>1. core \in Cores /\ NoCmd.c = "none" /\ SdCommand("init", 0, "none").c = "init"
  BY DEF SdInv, SdTypeOK, NoCmd, SdCommand
<1>2. Abort.cmd = NoCmd
  BY AbortIs
<1>3. ~StartInit /\ ~InitDone /\ ~CommandDone /\ ~CommandFails
  <2>1. ~StartInit
    BY <1>1, AbortIs DEF StartInit, Cores
  <2>2. ~InitDone
    BY <1>1 DEF InitDone, Cores
  <2>3. ~CommandDone
    BY <1>1, <1>2 DEF CommandDone, Cores
  <2>4. ~CommandFails
    BY <1>1, <1>2 DEF CommandFails
  <2> QED
    BY <2>1, <2>2, <2>3, <2>4
<1>4. ~CardSignals /\ ~CardReplies /\ ~CardSends
  BY <1>1 DEF CardSignals, CardReplies, CardSends, Cores
<1>5. StartCommand
  BY <1>3, <1>4 DEF SdNext, sdvars, ShellLooks, RawCall, RawInit, RawRefused, FsClaim, FsRequest,
     FsBlock, FsLockTimeout
<1>6. Knows(svc, core) /\ (svc.isolated => ~svc.since)
  BY <1>5 DEF SdInv, Fresh, StartCommand, prepare_command
<1> QED
  BY <1>6 DEF Knows

(* Once FatFs has claimed the card, only its own requests change it, and   *)
(* only inside the volume; and every command finds a core that has been    *)
(* initialised, in the isolated profile since the previous command.        *)
THEOREM CardIsGuarded == SdSpec => CoreAccess
<1>1. SdInit => SdInv
  BY SdStarts
<1>2. SdInv /\ [SdNext]_sdvars => SdInv'
  BY SdKeeps
<1>3. SdInv /\ [SdNext]_sdvars =>
        [media' # media /\ svc.owned =>
           /\ call.who = "fs"
           /\ \A l \in Lbas : media'[l] # media[l] =>
                 fsport.vol.first <= l /\ l < fsport.vol.first + fsport.vol.sectors]_sdvars
  BY OwnerWrites
<1>4. SdInv /\ [SdNext]_sdvars =>
        [core.cmd # core'.cmd /\ core'.cmd.c \notin {"none", "init"} =>
           core.up /\ (svc.isolated => ~core.used)]_sdvars
  BY CommandsFreshCore
<1> QED
  BY <1>1, <1>2, <1>3, <1>4, PTL DEF SdSpec, CoreAccess, MediaOwnership, FreshCore

----------------------------------------------------------------------------
(* The SD card of the processor.                                           *)

CardValues == RawContents \cup {"old", "none", "unknown"}
XferStages == {"none", "cmd", "buffer", "copy", "end"}
Transfers == [kind : {"none", "read", "write"}, s : Nat, v : CardValues, stage : XferStages]
Controllers == [inhibit : SUBSET {"cmd", "data"}, st : SUBSET {"cc", "buf", "tc", "err"},
                x : Transfers]
Ios == [kind : {"read", "write"}, s : Nat, v : RawContents, left : Nat \ {0},
        pc : {"issue", "cmd", "buffer", "end"}, file : {"raw", "fat"}]

CardTypeOK ==
    /\ card \in [Sectors -> CardValues] /\ expected \in [Sectors -> CardValues]
    /\ hc \in Controllers /\ io \in {NoIo} \cup Ios
    /\ fat.start \in Nat /\ fat.count \in Nat /\ fat.start + fat.count <= CardSectors

\* A request stays inside the card, and inside the partition it came in by.
IoFits ==
    io # NoIo =>
        /\ io.s + io.left <= CardSectors
        /\ io.file = "fat" => fat.start <= io.s /\ io.s + io.left <= fat.start + fat.count

\* A sector has been commanded for the request and not given up.
Active == io # NoIo /\ io.pc # "issue"

\* While a transfer is under way the inhibit bits keep the next one out; a
\* transfer the request waits for is the request's own, and its status bits
\* say how far it is.
TransferFits ==
    /\ hc.x.stage # "none" => hc.inhibit # {} /\ hc.x.s \in Sectors
    /\ Active =>
          /\ hc.x.kind = io.kind /\ hc.x.s = io.s /\ hc.x.v = io.v
          /\ "buf" \in hc.st => hc.x.stage = "copy" /\ hc.inhibit # {}
          /\ "tc" \in hc.st => hc.x.stage = "none" /\ (io.kind = "write" => card[io.s] = io.v)

\* What an abandoned write may still change is not relied on.
LateIsUnknown ==
    ~Active /\ hc.x.stage # "none" /\ hc.x.kind = "write" => expected[hc.x.s] = "unknown"

\* What is relied on is on the card, the sector under way excepted.
Kept ==
    \A s \in Sectors :
        \/ expected[s] \in {"unknown", card[s]}
        \/ Active /\ io.kind = "write" /\ io.s = s

CardInv == CardTypeOK /\ IoFits /\ TransferFits /\ LateIsUnknown /\ Kept

\* A request in progress, and the sector it is at.
LEMMA IoKinds ==
    ASSUME CardInv
    PROVE  /\ io # NoIo =>
                /\ io \in Ios /\ io.s \in Nat /\ io.left \in Nat /\ io.left >= 1
                /\ io.s \in Sectors /\ io.v \in RawContents /\ io.kind \in {"read", "write"}
                /\ io.pc \in {"issue", "cmd", "buffer", "end"}
           /\ hc \in Controllers /\ hc.x \in Transfers
<1>1. ASSUME io # NoIo
      PROVE  /\ io \in Ios /\ io.s \in Nat /\ io.left \in Nat /\ io.left >= 1
             /\ io.v \in RawContents /\ io.kind \in {"read", "write"}
             /\ io.pc \in {"issue", "cmd", "buffer", "end"}
  BY <1>1 DEF CardInv, CardTypeOK, Ios
<1>2. io # NoIo => io.s \in Sectors
  <2>1. CardSectors \in Nat
    BY CardAssumption
  <2> QED
    BY <1>1, <2>1 DEF CardInv, IoFits, Sectors
<1>3. hc \in Controllers /\ hc.x \in Transfers
  BY DEF CardInv, CardTypeOK, Controllers
<1> QED
  BY <1>1, <1>2, <1>3

\* The card after its initialisation satisfies the invariant; the
\* partition found in the table lies on the card.
LEMMA CardStarts == CardInit => CardInv
<1> SUFFICES ASSUME CardInit PROVE CardInv
  OBVIOUS
<1>1. PICK t \in Tables : fat = Partition(t) /\ fat.count # 0
  BY DEF CardInit
<1>2. t \in Seq([fat : BOOLEAN, start : Nat, count : Nat]) /\ CardSectors \in Nat
  BY CardAssumption
<1> DEFINE ok == {i \in DOMAIN t : Fits(t[i])}
<1>3. ok # {}
  BY <1>1 DEF Partition
<1>4. ok \subseteq Nat
  BY <1>2
<1>5. \E i \in ok : \A j \in ok : i <= j
  BY <1>3, <1>4, FirstExists
<1>6. PICK i \in ok : fat = t[i]
  <2> DEFINE k == CHOOSE i \in ok : \A j \in ok : i <= j
  <2>1. k \in ok
    BY <1>5
  <2>2. fat = t[k]
    BY <1>1, <1>3 DEF Partition
  <2> QED
    BY <2>1, <2>2
<1>7. t[i] \in [fat : BOOLEAN, start : Nat, count : Nat] /\ Fits(t[i])
  <2>1. i \in DOMAIN t /\ Fits(t[i])
    OBVIOUS
  <2> DEFINE E == [fat : BOOLEAN, start : Nat, count : Nat]
  <2>2. ASSUME t \in Seq(E) PROVE \A k \in DOMAIN t : t[k] \in E
    <3> HIDE DEF E
    <3> QED
      BY <2>2
  <2> QED
    BY <1>2, <2>1, <2>2
<1>8. fat.start \in Nat /\ fat.count \in Nat
  BY <1>6, <1>7
<1>9. fat.start + fat.count <= CardSectors
  BY <1>2, <1>6, <1>7, <1>8 DEF Fits
<1>10. hc \in Controllers /\ hc.x = NoXfer /\ NoXfer.stage = "none"
  BY DEF CardInit, Controllers, Transfers, NoXfer, CardValues, XferStages
<1>11. CardTypeOK
  BY <1>8, <1>9, <1>10 DEF CardInit, CardTypeOK, CardValues
<1>12. ~Active /\ IoFits /\ TransferFits /\ LateIsUnknown
  BY <1>10 DEF CardInit, Active, IoFits, TransferFits, LateIsUnknown
<1>13. Kept
  BY DEF CardInit, Kept
<1> QED
  BY <1>11, <1>12, <1>13 DEF CardInv

\* A request is clipped to the file it came in by.
LEMMA RequestKeeps == ASSUME CardInv, Request PROVE CardInv'
<1>1. PICK file \in {"raw", "fat"}, kind \in {"read", "write"},
           pos \in Sectors, n \in 1 .. MaxRun, v \in RawContents :
        /\ pos < View(file).count
        /\ io' = [kind |-> kind, s |-> View(file).start + pos, v |-> v, pc |-> "issue",
                  left |-> ClippedCount(View(file), pos, n), file |-> file]
  BY DEF Request
<1>2. io = NoIo /\ UNCHANGED <<card, expected, fat, hc>>
  BY DEF Request
<1> DEFINE low == View(file).start
           count == View(file).count
           m == ClippedCount(View(file), pos, n)
<1>3. /\ CardSectors \in Nat /\ pos \in Nat /\ n \in Nat /\ n >= 1
  BY CardAssumption DEF Sectors
<1>4. /\ low \in Nat /\ count \in Nat /\ low + count <= CardSectors
      /\ file = "fat" => low = fat.start /\ count = fat.count
  BY <1>3 DEF CardInv, CardTypeOK, View
<1>5. m \in Nat /\ m >= 1 /\ m <= count - pos
  BY <1>1, <1>3, <1>4 DEF ClippedCount
<1> HIDE DEF low, count, m
<1>6. io' = [kind |-> kind, s |-> low + pos, v |-> v, pc |-> "issue", left |-> m, file |-> file]
  BY <1>1 DEF low, m
<1>7. low + pos \in Nat /\ m \in Nat \ {0}
  BY <1>3, <1>4, <1>5
<1>8. /\ io' \in Ios /\ io' # NoIo /\ io'.pc = "issue" /\ io'.s = low + pos /\ io'.left = m
      /\ io'.file = file
  BY <1>6, <1>7 DEF Ios, NoIo
<1>9. IoFits'
  <2>1. io'.s + io'.left <= CardSectors
    BY <1>3, <1>4, <1>5, <1>8
  <2>2. low <= io'.s /\ io'.s + io'.left <= low + count
    BY <1>3, <1>4, <1>5, <1>8
  <2> QED
    BY <1>2, <1>4, <1>8, <2>1, <2>2 DEF IoFits
<1>10. ~Active /\ ~Active'
  BY <1>2, <1>8 DEF Active
<1>11. CardTypeOK'
  BY <1>2, <1>8 DEF CardInv, CardTypeOK
<1>12. TransferFits' /\ LateIsUnknown' /\ Kept'
  BY <1>2, <1>10 DEF CardInv, TransferFits, LateIsUnknown, Kept
<1> QED
  BY <1>9, <1>11, <1>12 DEF CardInv

\* The command of a sector is issued; earlier status bits are gone.
LEMMA IssueKeeps == ASSUME CardInv, Issue PROVE CardInv'
<1>1. /\ io # NoIo /\ io.pc = "issue" /\ hc.inhibit = {} /\ io.s \in Sectors
      /\ hc' = [inhibit |-> {"cmd", "data"}, st |-> {},
                x |-> [kind |-> io.kind, s |-> io.s, v |-> io.v, stage |-> "cmd"]]
      /\ io' = [io EXCEPT !.pc = "cmd"] /\ UNCHANGED <<card, expected, fat>>
  BY DEF Issue, sd_clear_status
<1>2. /\ io \in Ios /\ io.s \in Nat /\ io.v \in RawContents /\ io.kind \in {"read", "write"}
  BY <1>1, IoKinds
<1>3. /\ io' \in Ios /\ io' # NoIo /\ io'.pc = "cmd" /\ io'.s = io.s /\ io'.left = io.left
      /\ io'.kind = io.kind /\ io'.v = io.v /\ io'.file = io.file
  BY <1>1, <1>2 DEF Ios, NoIo
<1>4. [kind |-> io.kind, s |-> io.s, v |-> io.v, stage |-> "cmd"] \in Transfers
  BY <1>2 DEF Transfers, CardValues, XferStages
<1>5. /\ hc' \in Controllers /\ hc'.inhibit # {} /\ hc'.st = {} /\ hc'.x.stage = "cmd"
      /\ hc'.x.kind = io.kind /\ hc'.x.s = io.s /\ hc'.x.v = io.v
  BY <1>1, <1>4 DEF Controllers
<1>6. CardTypeOK' /\ IoFits'
  BY <1>1, <1>3, <1>5 DEF CardInv, CardTypeOK, IoFits
<1>7. ~Active /\ Active'
  BY <1>1, <1>3 DEF Active
<1>8. TransferFits' /\ LateIsUnknown'
  BY <1>1, <1>3, <1>5, <1>7 DEF TransferFits, LateIsUnknown
<1>9. Kept'
  BY <1>1, <1>7 DEF CardInv, Kept
<1> QED
  BY <1>6, <1>8, <1>9 DEF CardInv

\* The controller and the waits change only the status bits and the stage.
HcMoves(st, stg, inh) ==
    hc' = [hc EXCEPT !.st = st, !.x.stage = stg, !.inhibit = inh]

\* The controller after such a move.
LEMMA HcIs ==
    ASSUME hc \in Controllers, NEW st \in SUBSET {"cc", "buf", "tc", "err"},
           NEW stg \in XferStages, NEW inh \in SUBSET {"cmd", "data"},
           HcMoves(st, stg, inh)
    PROVE  /\ hc' \in Controllers /\ hc'.st = st /\ hc'.x.stage = stg /\ hc'.inhibit = inh
           /\ hc'.x.kind = hc.x.kind /\ hc'.x.s = hc.x.s /\ hc'.x.v = hc.x.v
<1>1. hc.x \in Transfers
  BY DEF Controllers
<1>2. hc' = [hc EXCEPT !.st = st, !.x = [hc.x EXCEPT !.stage = stg], !.inhibit = inh]
  BY DEF HcMoves, Controllers
<1>3. /\ [hc.x EXCEPT !.stage = stg] \in Transfers
      /\ [hc.x EXCEPT !.stage = stg].stage = stg
      /\ [hc.x EXCEPT !.stage = stg].kind = hc.x.kind
      /\ [hc.x EXCEPT !.stage = stg].s = hc.x.s /\ [hc.x EXCEPT !.stage = stg].v = hc.x.v
  BY <1>1 DEF Transfers
<1> QED
  BY <1>2, <1>3 DEF Controllers

\* The command is accepted, or the buffer copied: the request waits for the
\* next bit of its own transfer.
LEMMA WaitKeeps ==
    ASSUME CardInv, Active, Proceed, io.pc # "end"
    PROVE  CardInv'
<1>1. /\ io \in Ios /\ io.pc \in {"cmd", "buffer"} /\ hc \in Controllers
      /\ UNCHANGED <<card, expected, fat>>
  BY IoKinds DEF Proceed, Active
<1>2. PICK nxt \in {"buffer", "end"}, bit \in {"cc", "buf"} :
        /\ io' = [io EXCEPT !.pc = nxt]
        /\ bit = "cc" => HcMoves(hc.st \ {"cc"}, hc.x.stage, hc.inhibit)
        /\ bit = "buf" => "buf" \in hc.st /\ HcMoves(hc.st \ {"buf"}, "end", hc.inhibit)
  <2>1. CASE io.pc = "cmd"
    <3>1. io' = [io EXCEPT !.pc = "buffer"] /\ hc' = [hc EXCEPT !.st = @ \ {"cc"}]
      BY <2>1 DEF Proceed
    <3>2. HcMoves(hc.st \ {"cc"}, hc.x.stage, hc.inhibit)
      BY <1>1, <3>1 DEF HcMoves, Controllers, Transfers
    <3> QED
      BY <3>1, <3>2
  <2>2. CASE io.pc = "buffer"
    <3>1. /\ io' = [io EXCEPT !.pc = "end"] /\ "buf" \in hc.st
          /\ hc' = [hc EXCEPT !.st = @ \ {"buf"}, !.x.stage = "end"]
      BY <2>2 DEF Proceed, Wanted
    <3>2. HcMoves(hc.st \ {"buf"}, "end", hc.inhibit)
      BY <1>1, <3>1 DEF HcMoves, Controllers
    <3> QED
      BY <3>1, <3>2
  <2> QED
    BY <1>1, <2>1, <2>2
<1>3. /\ io' \in Ios /\ io' # NoIo /\ io'.pc # "issue" /\ io'.s = io.s /\ io'.left = io.left
      /\ io'.kind = io.kind /\ io'.v = io.v /\ io'.file = io.file
  BY <1>1, <1>2 DEF Ios, NoIo
<1>4. hc.x.stage \in XferStages /\ hc.inhibit \in SUBSET {"cmd", "data"}
      /\ hc.st \in SUBSET {"cc", "buf", "tc", "err"} /\ "end" \in XferStages
  BY <1>1 DEF Controllers, Transfers, XferStages
<1>5. /\ hc' \in Controllers /\ hc'.st = hc.st \ {bit} /\ hc'.inhibit = hc.inhibit
      /\ hc'.x.stage = IF bit = "cc" THEN hc.x.stage ELSE "end"
      /\ hc'.x.kind = hc.x.kind /\ hc'.x.s = hc.x.s /\ hc'.x.v = hc.x.v
  <2>1. CASE bit = "cc"
    BY <1>1, <1>2, <1>4, <2>1, HcIs
  <2>2. CASE bit = "buf"
    BY <1>1, <1>2, <1>4, <2>2, HcIs
  <2> QED
    BY <2>1, <2>2
<1>6. bit = "buf" => hc.x.stage = "copy" /\ "tc" \notin hc.st /\ hc.inhibit # {}
  BY <1>2 DEF CardInv, TransferFits
<1>7. CardTypeOK' /\ IoFits'
  BY <1>1, <1>3, <1>5 DEF CardInv, CardTypeOK, IoFits, Active
<1>8. Active'
  BY <1>3 DEF Active
<1>9. TransferFits'
  BY <1>1, <1>3, <1>5, <1>6 DEF CardInv, TransferFits
<1>10. LateIsUnknown' /\ Kept'
  BY <1>1, <1>3, <1>8 DEF CardInv, LateIsUnknown, Kept
<1> QED
  BY <1>7, <1>9, <1>10 DEF CardInv

\* The transfer has ended: the sector holds what was written.
LEMMA SectorDoneKeeps ==
    ASSUME CardInv, Active, Proceed, io.pc = "end"
    PROVE  CardInv'
<1>1. /\ io \in Ios /\ io.s \in Sectors /\ io.s \in Nat /\ io.left \in Nat /\ io.left >= 1
      /\ io.v \in RawContents /\ hc \in Controllers /\ UNCHANGED <<card, fat>>
  BY IoKinds DEF Proceed, Active
<1>2. /\ "tc" \in hc.st /\ hc' = [hc EXCEPT !.st = @ \ {"tc"}]
      /\ io' = IF io.left = 1 THEN NoIo
               ELSE [io EXCEPT !.pc = "issue", !.s = @ + 1, !.left = @ - 1]
      /\ expected' = IF io.kind = "write" THEN [expected EXCEPT ![io.s] = io.v] ELSE expected
  BY DEF Proceed, Wanted
<1>3. hc' \in Controllers /\ hc'.x = hc.x /\ hc'.inhibit = hc.inhibit
  BY <1>1, <1>2 DEF Controllers
<1>4. hc.x.stage = "none" /\ (io.kind = "write" => card[io.s] = io.v)
  BY <1>2 DEF CardInv, TransferFits
<1>5. io' \in {NoIo} \cup Ios /\ IoFits' /\ ~Active'
  <2>1. CASE io.left = 1
    BY <1>2, <2>1 DEF IoFits, Active
  <2>2. CASE io.left # 1
    <3> DEFINE s == io.s + 1
               n == io.left - 1
    <3>1. io' = [io EXCEPT !.pc = "issue", !.s = s, !.left = n]
      BY <1>2, <2>2
    <3>2. s \in Nat /\ n \in Nat \ {0} /\ s + n = io.s + io.left /\ io.s <= s
      BY <1>1, <2>2
    <3> HIDE DEF s, n
    <3>3. /\ io' \in Ios /\ io' # NoIo /\ io'.pc = "issue" /\ io'.s = s /\ io'.left = n
          /\ io'.file = io.file
      BY <1>1, <3>1, <3>2 DEF Ios, NoIo
    <3>4. /\ io.s + io.left <= CardSectors /\ fat.start \in Nat
          /\ io.file = "fat" => fat.start <= io.s /\ io.s + io.left <= fat.start + fat.count
      BY DEF CardInv, CardTypeOK, IoFits, Active
    <3>5. s + n <= CardSectors
      BY <3>2, <3>4
    <3>6. io.file = "fat" => fat.start <= s /\ s + n <= fat.start + fat.count
      BY <1>1, <3>2, <3>4
    <3> QED
      BY <1>1, <3>3, <3>5, <3>6 DEF IoFits, Active
  <2> QED
    BY <2>1, <2>2
<1>6. expected' \in [Sectors -> CardValues]
  BY <1>1, <1>2 DEF CardInv, CardTypeOK, CardValues
<1>7. CardTypeOK'
  BY <1>1, <1>3, <1>5, <1>6 DEF CardInv, CardTypeOK
<1>8. TransferFits' /\ LateIsUnknown'
  BY <1>3, <1>4, <1>5 DEF TransferFits, LateIsUnknown
<1>9. Kept'
  <2> SUFFICES ASSUME NEW s \in Sectors PROVE expected'[s] \in {"unknown", card[s]}
    BY <1>1 DEF Kept
  <2>1. expected[s] \in {"unknown", card[s]} \/ (io.kind = "write" /\ io.s = s)
    BY DEF CardInv, Kept
  <2>2. CASE io.kind = "write" /\ io.s = s
    BY <1>1, <1>2, <1>4, <2>2 DEF CardInv, CardTypeOK
  <2>3. CASE ~(io.kind = "write" /\ io.s = s)
    BY <1>1, <1>2, <2>1, <2>3 DEF CardInv, CardTypeOK
  <2> QED
    BY <2>2, <2>3
<1> QED
  BY <1>5, <1>7, <1>8, <1>9 DEF CardInv

\* A wait ends with the bit it was for.
LEMMA ProceedKeeps == ASSUME CardInv, Proceed PROVE CardInv'
<1>1. Active
  BY DEF Proceed, Active
<1> QED
  BY <1>1, WaitKeeps, SectorDoneKeeps

\* A wait is given up: what the transfer may still do is not relied on.
LEMMA BreakKeeps == ASSUME CardInv, Break PROVE CardInv'
<1>1. /\ io # NoIo /\ io \in Ios /\ io.s \in Sectors /\ hc \in Controllers
      /\ io' = NoIo /\ UNCHANGED <<card, fat>>
      /\ expected' = IF io.kind = "write" /\ io.pc # "issue"
                     THEN [expected EXCEPT ![io.s] = "unknown"] ELSE expected
      /\ hc' = hc \/ hc' = [hc EXCEPT !.st = {}]
  BY IoKinds DEF Break, GiveUp
<1>2. hc' \in Controllers /\ hc'.x = hc.x /\ hc'.inhibit = hc.inhibit
  BY <1>1 DEF Controllers
<1>3. ~Active' /\ IoFits'
  BY <1>1 DEF Active, IoFits
<1>4. expected \in [Sectors -> CardValues] /\ expected' \in [Sectors -> CardValues]
  BY <1>1 DEF CardInv, CardTypeOK, CardValues
<1>5. \A s \in Sectors : expected'[s] = IF Active /\ io.kind = "write" /\ io.s = s
                                        THEN "unknown" ELSE expected[s]
  BY <1>1, <1>4 DEF Active
<1>6. CardTypeOK'
  BY <1>1, <1>2, <1>4 DEF CardInv, CardTypeOK
<1>7. TransferFits'
  BY <1>2, <1>3 DEF CardInv, TransferFits
<1>8. LateIsUnknown'
  <2> SUFFICES ASSUME hc.x.stage # "none", hc.x.kind = "write"
               PROVE  expected'[hc.x.s] = "unknown"
    BY <1>2 DEF LateIsUnknown
  <2>1. hc.x.s \in Sectors
    BY DEF CardInv, TransferFits
  <2>2. Active => io.kind = "write" /\ io.s = hc.x.s
    BY DEF CardInv, TransferFits
  <2> QED
    BY <1>5, <2>1, <2>2 DEF CardInv, LateIsUnknown
<1>9. Kept'
  BY <1>1, <1>5 DEF CardInv, Kept
<1> QED
  BY <1>3, <1>6, <1>7, <1>8, <1>9 DEF CardInv

\* The controller moves on, for a request or after it was given up.
LEMMA ControllerKeeps ==
    ASSUME CardInv, CommandEnds \/ BufferReady \/ TransferEnds \/ TransferFails
    PROVE  CardInv'
<1>1. /\ hc \in Controllers /\ hc.x \in Transfers /\ hc.x.stage \in XferStages
      /\ hc.st \in SUBSET {"cc", "buf", "tc", "err"} /\ UNCHANGED <<expected, fat, io>>
  BY IoKinds DEF CommandEnds, BufferReady, TransferEnds, TransferFails, Controllers, Transfers
<1>2. PICK bit \in {"cc", "buf", "tc", "err"}, stg \in {"none", "buffer", "copy"},
           inh \in {{}, {"data"}} :
        /\ HcMoves(hc.st \cup {bit}, stg, inh)
        /\ stg # "none" => inh # {}
        /\ bit = "cc" => hc.x.stage = "cmd" /\ stg = "buffer"
        /\ bit = "buf" => hc.x.stage = "buffer" /\ stg = "copy"
        /\ bit \in {"tc", "err"} => stg = "none"
        /\ bit = "tc" => /\ hc.x.stage = "end"
                         /\ card' = IF hc.x.kind = "write"
                                    THEN [card EXCEPT ![hc.x.s] = hc.x.v] ELSE card
        /\ bit = "err" => hc.x.stage \notin {"none", "copy"}
        /\ \/ card' = card
           \/ hc.x.stage = "end" /\ hc.x.kind = "write" /\ card' = [card EXCEPT ![hc.x.s] = hc.x.v]
  <2>1. CASE CommandEnds
    BY <1>1, <2>1 DEF CommandEnds, Set, HcMoves
  <2>2. CASE BufferReady
    BY <1>1, <2>2 DEF BufferReady, Set, HcMoves
  <2>3. CASE TransferEnds
    <3>1. /\ HcMoves(hc.st \cup {"tc"}, "none", {}) /\ hc.x.stage = "end"
          /\ card' = IF hc.x.kind = "write" THEN [card EXCEPT ![hc.x.s] = hc.x.v] ELSE card
      BY <1>1, <2>3 DEF TransferEnds, Set, HcMoves
    <3> QED
      BY <3>1
  <2>4. CASE TransferFails
    <3>1. PICK inh \in {{}, {"data"}} : HcMoves(hc.st \cup {"err"}, "none", inh)
      BY <1>1, <2>4 DEF TransferFails, Set, HcMoves
    <3>2. hc.x.stage \notin {"none", "copy"}
      BY <2>4 DEF TransferFails
    <3>3. \/ card' = card
          \/ hc.x.stage = "end" /\ hc.x.kind = "write" /\ card' = [card EXCEPT ![hc.x.s] = hc.x.v]
      BY <2>4 DEF TransferFails
    <3> QED
      BY <3>1, <3>2, <3>3
  <2> QED
    BY <2>1, <2>2, <2>3, <2>4
<1>3. hc.x.stage # "none" /\ hc.x.s \in Sectors /\ hc.x.v \in CardValues
  BY <1>1, <1>2 DEF CardInv, TransferFits, Transfers
<1>4. /\ hc' \in Controllers /\ hc'.st = hc.st \cup {bit} /\ hc'.x.stage = stg
      /\ hc'.inhibit = inh
      /\ hc'.x.kind = hc.x.kind /\ hc'.x.s = hc.x.s /\ hc'.x.v = hc.x.v
  <2>1. /\ stg \in XferStages /\ inh \in SUBSET {"cmd", "data"}
        /\ hc.st \cup {bit} \in SUBSET {"cc", "buf", "tc", "err"}
    BY <1>1 DEF XferStages
  <2> QED
    BY <1>1, <1>2, <2>1, HcIs
<1>5. card \in [Sectors -> CardValues] /\ card' \in [Sectors -> CardValues]
  BY <1>2, <1>3 DEF CardInv, CardTypeOK
<1>6. \A s \in Sectors : card'[s] = card[s] \/ (hc.x.kind = "write" /\ s = hc.x.s)
  BY <1>2, <1>3, <1>5
<1>7. CardTypeOK' /\ IoFits'
  BY <1>1, <1>4, <1>5 DEF CardInv, CardTypeOK, IoFits
<1>8. Active' = Active
  BY <1>1 DEF Active
<1>9. TransferFits'
  <2>1. hc'.x.stage # "none" => hc'.inhibit # {} /\ hc'.x.s \in Sectors
    BY <1>2, <1>3, <1>4
  <2>2. ASSUME Active
        PROVE  /\ hc.x.kind = io.kind /\ hc.x.s = io.s /\ hc.x.v = io.v
               /\ "buf" \in hc.st => hc.x.stage = "copy"
               /\ "tc" \notin hc.st
    BY <1>3, <2>2 DEF CardInv, TransferFits
  <2>3. ASSUME Active, "buf" \in hc'.st PROVE hc'.x.stage = "copy" /\ hc'.inhibit # {}
    BY <1>2, <1>4, <2>2, <2>3
  <2>4. ASSUME Active, "tc" \in hc'.st
        PROVE  hc'.x.stage = "none" /\ (io.kind = "write" => card'[io.s] = io.v)
    BY <1>2, <1>3, <1>4, <1>5, <2>2, <2>4
  <2> QED
    BY <1>1, <1>4, <1>8, <2>1, <2>2, <2>3, <2>4 DEF TransferFits
<1>10. LateIsUnknown'
  BY <1>1, <1>3, <1>4, <1>8 DEF CardInv, LateIsUnknown
<1>11. Kept'
  <2> SUFFICES ASSUME NEW s \in Sectors
               PROVE  expected[s] \in {"unknown", card'[s]}
                      \/ (Active /\ io.kind = "write" /\ io.s = s)
    BY <1>1, <1>8 DEF Kept
  <2>1. CASE card'[s] = card[s]
    BY <2>1 DEF CardInv, Kept
  <2>2. CASE hc.x.kind = "write" /\ s = hc.x.s
    BY <1>3, <2>2 DEF CardInv, LateIsUnknown, TransferFits
  <2> QED
    BY <1>6, <2>1, <2>2
<1> QED
  BY <1>7, <1>9, <1>10, <1>11 DEF CardInv

\* Every step keeps the invariant.
LEMMA CardKeeps == ASSUME CardInv, [CardNext]_rawvars PROVE CardInv'
<1>1. CASE UNCHANGED rawvars
  BY <1>1 DEF rawvars, CardInv, CardTypeOK, IoFits, TransferFits, LateIsUnknown, Kept, Active
<1> QED
  BY <1>1, RequestKeeps, IssueKeeps, ProceedKeeps, BreakKeeps, ControllerKeeps DEF CardNext

\* The invariant implies what the run checks.
LEMMA CardInvKeeps == CardInv => CardKeepsWrites
<1> SUFFICES ASSUME CardInv PROVE CardKeepsWrites
  OBVIOUS
<1>1. CASE io = NoIo
  BY <1>1 DEF CardInv, Kept, Active, CardKeepsWrites
<1>2. CASE io # NoIo
  <2>1. io.s \in Nat /\ io.left \in Nat /\ io.left >= 1 /\ fat.start \in Nat /\ fat.count \in Nat
    BY <1>2, IoKinds DEF CardInv, CardTypeOK
  <2>2. io.file = "fat" => fat.start <= io.s /\ io.s + io.left <= fat.start + fat.count
    BY <1>2 DEF CardInv, IoFits
  <2>3. io.file = "fat" => fat.start <= io.s /\ io.s < fat.start + fat.count
    BY <2>1, <2>2
  <2> QED
    BY <1>2, <2>3 DEF CardKeepsWrites
<1> QED
  BY <1>1, <1>2

(* Between requests the card of the processor holds what was last written  *)
(* through either file, late ends of abandoned transfers included, and the *)
(* FAT file never leaves its partition.                                    *)
THEOREM CardIsKept == CardSpec => []CardKeepsWrites
<1>1. CardInit => CardInv
  BY CardStarts
<1>2. CardInv /\ [CardNext]_rawvars => CardInv'
  BY CardKeeps
<1>3. CardInv => CardKeepsWrites
  BY CardInvKeeps
<1> QED
  BY <1>1, <1>2, <1>3, PTL DEF CardSpec

----------------------------------------------------------------------------
(* The serial flash.                                                       *)

\* The clients of an image stay where its opcodes reach.
Unaliased == \A i \in Images : \A pos \in 0 .. WindowBlocks - 1 :
                 pos < Reach[i] => BaseBlock + pos < Span[i]

FlashValues == Patterns \cup {Erased, TornBlock, Boot, Fat, TestPattern}
Places == 0 .. SectorBlocks - 1
Copies == [Places -> FlashValues]
FlashCmds == [k : {"erase", "program", "verify", "done"}, i : Places, v : FlashValues]
FlashJobs == [op : {"write", "test"}, at : Nat, pos : Nat, left : Nat, v : FlashValues,
              plan : Seq(FlashCmds), backup : {QspiIdle} \cup Copies]

FlashTypeOK ==
    /\ image \in Images /\ flash \in [AllBlocks -> FlashValues]
    /\ known \in [AllBlocks -> FlashValues \cup {Unknown}]
    /\ qspijob \in {QspiIdle} \cup FlashJobs
    /\ qspijob.op = "write" => qspijob.left >= 1 /\ qspijob.pos + qspijob.left <= Reach[image]

\* A place nobody is rewriting holds what is known of it.
Holds(b) == known[b] \in {Unknown, flash[b]}

\* The command that is d commands away from the end of a plan that leaves the
\* copy c on the chip; the self-test's three come before the rewriting.
CmdAt(c, d) ==
    CASE d = 0 -> Done
      [] d \in 1 .. SectorBlocks -> Cmd("program", SectorBlocks - d, c[SectorBlocks - d])
      [] d = SectorBlocks + 1 -> EraseCmd
      [] d = SectorBlocks + 2 -> Cmd("verify", 0, TestPattern)
      [] d = SectorBlocks + 3 -> Cmd("program", 0, TestPattern)
      [] d = SectorBlocks + 4 -> EraseCmd
Shape(plan, c) ==
    /\ plan \in Seq(FlashCmds) /\ Len(plan) \in 1 .. SectorBlocks + 5
    /\ \A k \in 1 .. Len(plan) : plan[k] = CmdAt(c, Len(plan) - k)

\* An erase sector the image's opcodes can address.
Sectored(a) ==
    /\ a \in Nat /\ a % SectorBlocks = 0 /\ a + SectorBlocks <= Span[image]
Around(a) == a .. a + SectorBlocks - 1

\* The copy agrees with what is known of the sector but for the block being
\* written, and the chip with the copy as far as it has been programmed.
Aimed(c) ==
    \A i \in Places :
        IF qspijob.op = "write" /\ qspijob.at + i = BaseBlock + qspijob.pos
        THEN c[i] = qspijob.v
        ELSE known[qspijob.at + i] \in {Unknown, c[i]}
Written(c) ==
    LET L == Len(qspijob.plan) IN
    L <= SectorBlocks + 1 =>
        \A i \in Places :
            flash[qspijob.at + i] = IF i + L <= SectorBlocks THEN c[i] ELSE Erased

\* A rewrite in progress: its sector is aligned and within reach, and some
\* copy of it agrees with the plan, with what is known and with the chip.
Rewriting ==
    /\ Sectored(qspijob.at)
    /\ qspijob.op = "write" =>
          /\ qspijob.pos < WindowBlocks /\ Len(qspijob.plan) <= SectorBlocks + 2
          /\ BaseBlock + qspijob.pos \in Around(qspijob.at)
    /\ \A b \in AllBlocks \ Around(qspijob.at) : Holds(b)
    /\ \E c \in Copies :
          /\ qspijob.op = "test" => qspijob.backup = c
          /\ Shape(qspijob.plan, c) /\ Aimed(c) /\ Written(c)

AtWork == qspijob # QspiIdle /\ qspijob.plan # <<>>
\* Outside a rewrite the chip holds everything that is known.
FlashInv ==
    /\ FlashTypeOK
    /\ ~AtWork => \A b \in AllBlocks : Holds(b)
    /\ AtWork => Rewriting

\* Sizes of the chip.
LEMMA FlashConstants ==
    ASSUME image \in Images
    PROVE  /\ SectorBlocks \in Nat /\ SectorBlocks >= 1 /\ FlashBlocks \in Nat /\ FlashBlocks >= 1
           /\ BaseBlock \in Nat /\ WindowBlocks \in Nat
           /\ BaseBlock + WindowBlocks <= FlashBlocks
           /\ Span[image] \in Nat /\ Span[image] >= 1 /\ Span[image] <= FlashBlocks
           /\ Span[image] % SectorBlocks = 0 /\ FlashBlocks % SectorBlocks = 0
           /\ Reach[image] \in Nat /\ image \in {"freertos", "neutrino"}
           /\ 0 \in Places
<1>1. Span[image] \in Nat \ {0} /\ SectorBlocks \in Nat \ {0} /\ FlashBlocks \in Nat \ {0}
  BY QspiAssumption
<1>2. /\ SectorBlocks >= 1 /\ FlashBlocks >= 1 /\ Span[image] >= 1 /\ 0 \in Places
  BY <1>1 DEF Places
<1> QED
  BY <1>1, <1>2, QspiAssumption

\* The blocks of an erase sector, and where the chip finds them.
LEMMA SectorIs ==
    ASSUME image \in Images, NEW a, Sectored(a)
    PROVE  /\ Around(a) \subseteq AllBlocks /\ SectorOf(Chip(a)) = Around(a) /\ Chip(a) = a
           /\ \A i \in Places : a + i \in Around(a) /\ Chip(a + i) = a + i
           /\ \A b \in Around(a) : b - a \in Places /\ a + (b - a) = b
<1> DEFINE n == SectorBlocks
           m == Span[image]
<1>1. /\ a \in Nat /\ a % n = 0 /\ a + n <= m /\ n \in Nat \ {0} /\ m \in Nat \ {0}
      /\ m <= FlashBlocks /\ FlashBlocks \in Nat
  BY FlashConstants DEF Sectored
<1>2. \A i \in Places : a + i \in Around(a) /\ a + i \in 0 .. m - 1
  BY <1>1 DEF Places, Around
<1>3. ASSUME NEW x \in 0 .. m - 1 PROVE x % m = x
  BY <1>1, InRing
<1>4. \A i \in Places : Chip(a + i) = a + i
  BY <1>2, <1>3 DEF Chip
<1>5. a \in 0 .. m - 1
  BY <1>1
<1>6. Chip(a) = a
  BY <1>3, <1>5 DEF Chip
<1>7. Around(a) \subseteq AllBlocks
  BY <1>1 DEF Around, AllBlocks
<1>8. \A b \in Around(a) : b - a \in Places /\ a + (b - a) = b
  BY <1>1 DEF Around, Places
<1>9. ASSUME NEW b \in AllBlocks PROVE b \in SectorOf(a) <=> b \in Around(a)
  <2>1. b \in Nat
    BY <1>1 DEF AllBlocks
  <2> DEFINE qa == a \div n
             qb == b \div n
             r == b % n
  <2>2. /\ qa \in Nat /\ qb \in Nat /\ r \in 0 .. n - 1
        /\ b = n * qb + r
    BY <1>1, <2>1, DivMod
  <2>3. a = n * qa + (a % n)
    BY <1>1, DivMod
  <2>4. a = n * qa
    <3> HIDE DEF qa
    <3>1. n * qa \in Int
      BY <1>1, <2>2, Z3
    <3> QED
      BY <1>1, <2>3, <3>1
  <2>5. b \in SectorOf(a) <=> qb = qa
    BY DEF SectorOf
  <2> HIDE DEF qa, qb, r
  <2>6. n * qa \in Int /\ n * qb \in Int
    BY <1>1, <2>2, Z3
  <2>7. qb = qa => b \in Around(a)
    BY <1>1, <2>2, <2>4, <2>6 DEF Around
  <2>8. ASSUME b \in Around(a), qb >= qa + 1 PROVE FALSE
    <3>1. n * qb >= n * qa + n
      BY <1>1, <2>2, <2>8, ProductStep
    <3> QED
      BY <1>1, <2>2, <2>4, <2>6, <2>8, <3>1 DEF Around
  <2>9. ASSUME b \in Around(a), qa >= qb + 1 PROVE FALSE
    <3>1. n * qa >= n * qb + n
      BY <1>1, <2>2, <2>9, ProductStep
    <3> QED
      BY <1>1, <2>2, <2>4, <2>6, <2>9, <3>1 DEF Around
  <2>10. b \in Around(a) => qb = qa
    BY <2>2, <2>8, <2>9
  <2> QED
    BY <2>5, <2>7, <2>10
<1>10. SectorOf(a) \subseteq AllBlocks
  BY DEF SectorOf
<1>11. SectorOf(a) = Around(a)
  BY <1>7, <1>9, <1>10
<1> QED
  BY <1>2, <1>4, <1>6, <1>7, <1>8, <1>11

\* A product below a product has the smaller quotient.
LEMMA BelowMultiple ==
    ASSUME NEW n \in Nat \ {0}, NEW b \in Nat, NEW m \in Nat, m % n = 0, b < m
    PROVE  b - (b % n) \in Nat /\ (b - (b % n)) % n = 0 /\ b - (b % n) + n <= m
           /\ b % n \in 0 .. n - 1
<1> DEFINE qb == b \div n
           r == b % n
           qm == m \div n
<1>1. /\ qb \in Nat /\ r \in 0 .. n - 1 /\ b = n * qb + r
  BY DivMod
<1>2. qm \in Nat /\ m = n * qm + (m % n)
  BY DivMod
<1>3. n * qb \in Nat /\ n * qm \in Nat
  <2> HIDE DEF qb, qm
  <2> QED
    BY <1>1, <1>2, Z3
<1>4. m = n * qm /\ b - r = n * qb
  <2> HIDE DEF qb, qm, r
  <2> QED
    BY <1>1, <1>2, <1>3
<1> HIDE DEF qb, qm, r
<1>5. qm >= qb + 1
  <2> SUFFICES ASSUME ~(qm >= qb + 1) PROVE FALSE
    OBVIOUS
  <2>1. qm = qb \/ qb >= qm + 1
    BY <1>1, <1>2
  <2>2. qb >= qm + 1 => n * qb >= n * qm + n
    BY <1>1, <1>2, ProductStep
  <2> QED
    BY <1>1, <1>3, <1>4, <2>1, <2>2
<1>6. n * qm >= n * qb + n
  BY <1>1, <1>2, <1>5, ProductStep
<1>7. (n * qb) % n = 0
  <2> DEFINE p == n * qb
  <2>1. p \in Nat /\ p = n * qb + 0 /\ 0 \in 0 .. n - 1
    BY <1>3
  <2> HIDE DEF p
  <2>2. p % n = 0
    BY <1>1, <2>1, ModUnique
  <2> QED
    BY <2>2 DEF p
<1>8. b - r \in Nat /\ (b - r) % n = 0 /\ b - r + n <= m
  BY <1>3, <1>4, <1>6, <1>7
<1> QED
  BY <1>1, <1>8 DEF r

\* The erase sector around a block the opcodes reach.
LEMMA FirstIs ==
    ASSUME image \in Images, NEW b \in Nat, b < Span[image]
    PROVE  Sectored(FirstOf(b)) /\ b \in Around(FirstOf(b))
<1>1. Span[image] \in Nat /\ SectorBlocks \in Nat \ {0} /\ Span[image] % SectorBlocks = 0
  BY FlashConstants
<1>2. /\ FirstOf(b) \in Nat /\ FirstOf(b) % SectorBlocks = 0
      /\ FirstOf(b) + SectorBlocks <= Span[image]
      /\ b % SectorBlocks \in 0 .. SectorBlocks - 1
  BY <1>1, BelowMultiple DEF FirstOf
<1>3. FirstOf(b) = b - (b % SectorBlocks)
  BY DEF FirstOf
<1>4. b \in Around(FirstOf(b))
  <2> DEFINE r == b % SectorBlocks
             a == FirstOf(b)
  <2>1. a = b - r /\ r \in 0 .. SectorBlocks - 1 /\ a \in Nat
    BY <1>2, <1>3
  <2> HIDE DEF r, a
  <2>2. b \in a .. a + SectorBlocks - 1
    BY <1>1, <2>1
  <2> QED
    BY <2>2 DEF Around, a
<1> QED
  BY <1>2, <1>4 DEF Sectored

\* The self-test's sector is the last one.
LEMMA TestSectorIs ==
    ASSUME image \in Images, image = "freertos"
    PROVE  Sectored(TestSector)
<1>1. /\ SectorBlocks \in Nat \ {0} /\ FlashBlocks \in Nat /\ FlashBlocks >= 1
      /\ FlashBlocks % SectorBlocks = 0 /\ Span[image] = FlashBlocks
  BY FlashConstants, QspiAssumption
<1> DEFINE n == SectorBlocks
           q == FlashBlocks \div n
<1>2. q \in Nat /\ FlashBlocks = n * q + (FlashBlocks % n)
  <2>1. ASSUME NEW m \in Nat \ {0}, NEW b \in Nat
        PROVE  b \div m \in Nat /\ b = m * (b \div m) + (b % m)
    BY DivMod
  <2> QED
    BY <1>1, <2>1
<1> HIDE DEF q
<1>3. n * q \in Int
  BY <1>1, <1>2, Z3
<1>4. FlashBlocks = n * q
  BY <1>1, <1>2, <1>3
<1>5. q # 0
  BY <1>1, <1>4
<1>6. q - 1 \in Nat /\ q >= (q - 1) + 1
  BY <1>2, <1>5
<1>7. n * q = n * (q - 1) + n
  BY <1>1, <1>2, Z3
<1>8. n * (q - 1) \in Nat
  BY <1>1, <1>6, Z3
<1>9. TestSector = n * (q - 1) + 0 /\ TestSector \in Nat /\ 0 \in 0 .. n - 1
  BY <1>1, <1>4, <1>7, <1>8 DEF TestSector
<1>10. TestSector % n = 0
  BY <1>1, <1>6, <1>9, ModUnique
<1>11. TestSector + n <= Span[image]
  BY <1>1 DEF TestSector
<1> QED
  BY <1>9, <1>10, <1>11 DEF Sectored

\* The commands of a plan and their places in it.
LEMMA CmdAtIs ==
    ASSUME image \in Images, NEW c \in Copies, NEW d \in 0 .. SectorBlocks + 4
    PROVE  /\ CmdAt(c, d) \in FlashCmds
           /\ CmdAt(c, d).k = "done" <=> d = 0
           /\ CmdAt(c, d).k = "erase" => d \in {SectorBlocks + 1, SectorBlocks + 4}
           /\ CmdAt(c, d).k = "verify" => d = SectorBlocks + 2
           /\ CmdAt(c, d).k = "program" =>
                 \/ /\ d \in 1 .. SectorBlocks /\ CmdAt(c, d).i = SectorBlocks - d
                    /\ CmdAt(c, d).v = c[SectorBlocks - d]
                 \/ d = SectorBlocks + 3
<1>1. SectorBlocks \in Nat /\ SectorBlocks >= 1 /\ 0 \in Places
  BY FlashConstants
<1>2. CASE d = 0
  BY <1>1, <1>2 DEF CmdAt, Done, Cmd, FlashCmds, FlashValues
<1>3. CASE d \in 1 .. SectorBlocks
  <2>1. SectorBlocks - d \in Places
    BY <1>1, <1>3 DEF Places
  <2>2. c[SectorBlocks - d] \in FlashValues
    BY <2>1 DEF Copies
  <2>3. CmdAt(c, d) = Cmd("program", SectorBlocks - d, c[SectorBlocks - d])
    BY <1>1, <1>3 DEF CmdAt
  <2> QED
    BY <1>1, <1>3, <2>1, <2>2, <2>3 DEF Cmd, FlashCmds
<1>4. CASE d = SectorBlocks + 1 \/ d = SectorBlocks + 4
  <2>1. CmdAt(c, d) = EraseCmd
    BY <1>1, <1>4 DEF CmdAt
  <2> QED
    BY <1>1, <1>4, <2>1 DEF EraseCmd, Cmd, FlashCmds, FlashValues
<1>5. CASE d = SectorBlocks + 2
  <2>1. CmdAt(c, d) = Cmd("verify", 0, TestPattern)
    BY <1>1, <1>5 DEF CmdAt
  <2> QED
    BY <1>1, <1>5, <2>1 DEF Cmd, FlashCmds, FlashValues
<1>6. CASE d = SectorBlocks + 3
  <2>1. CmdAt(c, d) = Cmd("program", 0, TestPattern)
    BY <1>1, <1>6 DEF CmdAt
  <2> QED
    BY <1>1, <1>6, <2>1 DEF Cmd, FlashCmds, FlashValues
<1>7. \/ d = 0 \/ d \in 1 .. SectorBlocks \/ d = SectorBlocks + 1 \/ d = SectorBlocks + 4
      \/ d = SectorBlocks + 2 \/ d = SectorBlocks + 3
  BY <1>1
<1> QED
  BY <1>2, <1>3, <1>4, <1>5, <1>6, <1>7

\* The plans the two operations make, and what is left of one after a command.
LEMMA RewriteShape ==
    ASSUME image \in Images, NEW c \in Copies
    PROVE  LET plan == RewriteCmds(c) \o <<Done>> IN
           Shape(plan, c) /\ Len(plan) = SectorBlocks + 2
<1> DEFINE n == SectorBlocks
           p == qspi_flash_program(c)
           q == <<EraseCmd>>
           r == RewriteCmds(c)
           e == <<Done>>
           plan == r \o e
<1>1. n \in Nat /\ n >= 1
  BY FlashConstants
<1>2. \A d \in 0 .. n + 4 : CmdAt(c, d) \in FlashCmds
  BY CmdAtIs
<1>3. EraseCmd = CmdAt(c, n + 1) /\ Done = CmdAt(c, 0)
  BY <1>1 DEF CmdAt
<1>4. EraseCmd \in FlashCmds /\ Done \in FlashCmds
  BY <1>1, <1>2, <1>3
<1>5. \A k \in 1 .. n : Cmd("program", k - 1, c[k - 1]) = CmdAt(c, n + 1 - k)
  <2> SUFFICES ASSUME NEW k \in 1 .. n
               PROVE  Cmd("program", k - 1, c[k - 1]) = CmdAt(c, n + 1 - k)
    OBVIOUS
  <2>1. n + 1 - k \in 1 .. n /\ n - (n + 1 - k) = k - 1 /\ n + 1 - k # 0
    BY <1>1
  <2> QED
    BY <1>1, <2>1 DEF CmdAt
<1>6. /\ p \in Seq(FlashCmds) /\ Len(p) = n
      /\ \A k \in 1 .. n : p[k] = CmdAt(c, n + 1 - k)
  <2>1. \A k \in 1 .. n : n + 1 - k \in 0 .. n + 4
    BY <1>1
  <2>2. p = [k \in 1 .. n |-> Cmd("program", k - 1, c[k - 1])]
    BY DEF qspi_flash_program
  <2>3. \A k \in 1 .. n : p[k] = CmdAt(c, n + 1 - k) /\ p[k] \in FlashCmds
    BY <1>2, <1>5, <2>1, <2>2
  <2> HIDE DEF p
  <2>4. p \in [1 .. n -> FlashCmds]
    BY <2>2, <2>3
  <2> QED
    BY <1>1, <2>3, <2>4
<1>7. q \in Seq(FlashCmds) /\ Len(q) = 1 /\ q[1] = EraseCmd
  BY <1>4
<1>8. e \in Seq(FlashCmds) /\ Len(e) = 1 /\ e[1] = Done
  BY <1>4
<1>9. r = q \o p
  BY DEF RewriteCmds
<1> HIDE DEF p, q, e, r
<1>10. /\ r \in Seq(FlashCmds) /\ Len(r) = n + 1
       /\ \A k \in 1 .. n + 1 : r[k] = CmdAt(c, n + 2 - k)
  <2>1. /\ q \o p \in Seq(FlashCmds) /\ Len(q \o p) = Len(q) + Len(p)
        /\ \A k \in 1 .. Len(q) + Len(p) :
               (q \o p)[k] = IF k <= Len(q) THEN q[k] ELSE p[k - Len(q)]
    BY <1>6, <1>7, ConcatProperties
  <2>2. /\ r \in Seq(FlashCmds) /\ Len(r) = n + 1
        /\ \A k \in 1 .. n + 1 : r[k] = IF k <= 1 THEN q[k] ELSE p[k - 1]
    BY <1>1, <1>6, <1>7, <1>9, <2>1
  <2>3. ASSUME NEW k \in 1 .. n + 1, k # 1 PROVE r[k] = CmdAt(c, n + 2 - k)
    <3>1. k - 1 \in 1 .. n /\ ~(k <= 1) /\ n + 1 - (k - 1) = n + 2 - k
      BY <1>1, <2>3
    <3> QED
      BY <1>6, <2>2, <3>1
  <2>4. r[1] = CmdAt(c, n + 2 - 1)
    <3>1. 1 \in 1 .. n + 1 /\ 1 <= 1 /\ n + 2 - 1 = n + 1
      BY <1>1
    <3> QED
      BY <1>3, <1>7, <2>2, <3>1
  <2> QED
    BY <2>2, <2>3, <2>4
<1>11. /\ plan \in Seq(FlashCmds) /\ Len(plan) = n + 2
       /\ \A k \in 1 .. n + 2 : plan[k] = CmdAt(c, n + 2 - k)
  <2>1. /\ r \o e \in Seq(FlashCmds) /\ Len(r \o e) = Len(r) + Len(e)
        /\ \A k \in 1 .. Len(r) + Len(e) :
               (r \o e)[k] = IF k <= Len(r) THEN r[k] ELSE e[k - Len(r)]
    BY <1>8, <1>10, ConcatProperties
  <2> HIDE DEF plan
  <2>2. /\ plan \in Seq(FlashCmds) /\ Len(plan) = n + 2
        /\ \A k \in 1 .. n + 2 : plan[k] = IF k <= n + 1 THEN r[k] ELSE e[k - (n + 1)]
    BY <1>1, <1>8, <1>10, <2>1 DEF plan
  <2>3. ASSUME NEW k \in 1 .. n + 2, k # n + 2 PROVE plan[k] = CmdAt(c, n + 2 - k)
    <3>1. k \in 1 .. n + 1 /\ k <= n + 1
      BY <1>1, <2>3
    <3> QED
      BY <1>10, <2>2, <3>1
  <2>4. plan[n + 2] = CmdAt(c, n + 2 - (n + 2))
    <3>1. n + 2 \in 1 .. n + 2 /\ ~(n + 2 <= n + 1) /\ n + 2 - (n + 1) = 1 /\ n + 2 - (n + 2) = 0
      BY <1>1
    <3> DEFINE z == n + 2
    <3>2. z \in 1 .. n + 2 /\ ~(z <= n + 1)
      BY <3>1
    <3> HIDE DEF z
    <3>3. plan[z] = e[z - (n + 1)]
      BY <2>2, <3>2
    <3>4. plan[n + 2] = e[1]
      BY <1>1, <3>1, <3>3 DEF z
    <3> QED
      BY <1>3, <1>8, <3>1, <3>4
  <2> QED
    BY <2>2, <2>3, <2>4
<1>12. n + 2 \in 1 .. n + 5
  BY <1>1
<1> HIDE DEF plan
<1>13. Shape(plan, c) /\ Len(plan) = n + 2
  <2>1. ASSUME NEW k \in 1 .. Len(plan) PROVE plan[k] = CmdAt(c, Len(plan) - k)
    <3>1. k \in 1 .. n + 2 /\ Len(plan) - k = n + 2 - k
      BY <1>1, <1>11
    <3>2. plan[k] = CmdAt(c, n + 2 - k)
      BY <1>11, <3>1
    <3> QED
      BY <3>1, <3>2
  <2> QED
    BY <1>11, <1>12, <2>1 DEF Shape
<1> QED
  BY <1>13 DEF plan, r, e

\* The plan of a sector that would not change.
LEMMA DoneShape ==
    ASSUME image \in Images, NEW c \in Copies
    PROVE  Shape(<<>> \o <<Done>>, c) /\ Len(<<>> \o <<Done>>) = 1
<1>1. SectorBlocks \in Nat /\ SectorBlocks >= 1
  BY FlashConstants
<1>2. Done = CmdAt(c, 0) /\ CmdAt(c, 0) \in FlashCmds
  <2>1. 0 \in 0 .. SectorBlocks + 4
    BY <1>1
  <2> QED
    <3>1. CmdAt(c, 0) \in FlashCmds
      BY <2>1, CmdAtIs
    <3> QED
      BY <1>1, <3>1 DEF CmdAt
<1> DEFINE p == <<Done>>
<1>3. <<>> \o p = p /\ p \in Seq(FlashCmds) /\ Len(p) = 1 /\ p[1] = Done
  BY <1>2
<1> HIDE DEF p
<1>4. 1 \in 1 .. SectorBlocks + 5
  BY <1>1
<1>5. ASSUME NEW k \in 1 .. Len(p) PROVE p[k] = CmdAt(c, Len(p) - k)
  <2>1. k = 1 /\ Len(p) - k = 0
    BY <1>3
  <2> QED
    BY <1>2, <1>3, <2>1
<1>6. Shape(p, c) /\ Len(p) = 1
  BY <1>3, <1>4, <1>5 DEF Shape
<1> QED
  BY <1>3, <1>6 DEF p

\* The plan of the self-test ends with the rewriting of its copy.
LEMMA TestShape ==
    ASSUME image \in Images, NEW c \in Copies
    PROVE  Shape(TestCmds(c), c) /\ Len(TestCmds(c)) = SectorBlocks + 5
<1> DEFINE n == SectorBlocks
           t == <<EraseCmd, Cmd("program", 0, TestPattern), Cmd("verify", 0, TestPattern)>>
           r == RewriteCmds(c)
           e == <<Done>>
           u == r \o e
           plan == t \o u
<1>1. n \in Nat /\ n >= 1
  BY FlashConstants
<1>2. \A d \in 0 .. n + 4 : CmdAt(c, d) \in FlashCmds
  BY CmdAtIs
<1>3. /\ EraseCmd = CmdAt(c, n + 4) /\ Cmd("program", 0, TestPattern) = CmdAt(c, n + 3)
      /\ Cmd("verify", 0, TestPattern) = CmdAt(c, n + 2) /\ Done = CmdAt(c, 0)
  BY <1>1 DEF CmdAt
<1>4. /\ EraseCmd \in FlashCmds /\ Cmd("program", 0, TestPattern) \in FlashCmds
      /\ Cmd("verify", 0, TestPattern) \in FlashCmds /\ Done \in FlashCmds
  BY <1>1, <1>2, <1>3
<1>5. /\ t \in Seq(FlashCmds) /\ Len(t) = 3 /\ t[1] = CmdAt(c, n + 4)
      /\ t[2] = CmdAt(c, n + 3) /\ t[3] = CmdAt(c, n + 2)
  BY <1>3, <1>4
<1>6. /\ u \in Seq(FlashCmds) /\ Len(u) = n + 2
      /\ \A k \in 1 .. Len(u) : u[k] = CmdAt(c, Len(u) - k)
  <2>1. Shape(u, c) /\ Len(u) = n + 2
    BY RewriteShape
  <2> QED
    BY <2>1 DEF Shape
<1>7. TestCmds(c) = plan
  <2>1. TestCmds(c) = t \o r \o e
    BY DEF TestCmds
  <2>2. r \in Seq(FlashCmds) /\ e \in Seq(FlashCmds)
    <3>1. <<EraseCmd>> \in Seq(FlashCmds) /\ e \in Seq(FlashCmds)
      BY <1>4
    <3>2. qspi_flash_program(c) \in Seq(FlashCmds)
      <4>1. \A k \in 1 .. n : Cmd("program", k - 1, c[k - 1]) \in FlashCmds
        <5> SUFFICES ASSUME NEW k \in 1 .. n PROVE Cmd("program", k - 1, c[k - 1]) \in FlashCmds
          OBVIOUS
        <5>1. k - 1 \in Places
          BY <1>1 DEF Places
        <5>2. c[k - 1] \in FlashValues
          BY <5>1 DEF Copies
        <5> QED
          BY <5>1, <5>2 DEF Cmd, FlashCmds
      <4> QED
        BY <1>1, <4>1 DEF qspi_flash_program
    <3> HIDE DEF e
    <3> QED
      BY <3>1, <3>2, ConcatProperties DEF RewriteCmds
  <2>3. t \in Seq(FlashCmds)
    BY <1>5
  <2> HIDE DEF t, r, e
  <2>4. (t \o r) \o e = t \o (r \o e)
    BY <2>2, <2>3, ConcatAssociative
  <2> QED
    BY <2>1, <2>4
<1> HIDE DEF t, u
<1>8. /\ plan \in Seq(FlashCmds) /\ Len(plan) = n + 5
      /\ \A k \in 1 .. n + 5 : plan[k] = IF k <= 3 THEN t[k] ELSE u[k - 3]
  <2>1. /\ t \o u \in Seq(FlashCmds) /\ Len(t \o u) = Len(t) + Len(u)
        /\ \A k \in 1 .. Len(t) + Len(u) :
               (t \o u)[k] = IF k <= Len(t) THEN t[k] ELSE u[k - Len(t)]
    BY <1>5, <1>6, ConcatProperties
  <2>2. Len(t) + Len(u) = n + 5
    BY <1>1, <1>5, <1>6
  <2> QED
    BY <1>1, <1>5, <2>1, <2>2
<1> HIDE DEF plan
<1>9. ASSUME NEW k \in 1 .. Len(plan) PROVE plan[k] = CmdAt(c, Len(plan) - k)
  <2>1. k \in 1 .. n + 5 /\ Len(plan) - k = n + 5 - k /\ k \in Nat
    BY <1>1, <1>8
  <2>2. CASE k > 3
    <3>1. k - 3 \in 1 .. Len(u) /\ Len(u) - (k - 3) = n + 5 - k /\ ~(k <= 3)
      BY <1>1, <1>6, <2>1, <2>2
    <3>2. plan[k] = u[k - 3]
      BY <1>8, <2>1, <3>1
    <3>3. u[k - 3] = CmdAt(c, Len(u) - (k - 3))
      BY <1>6, <3>1
    <3> QED
      BY <2>1, <3>1, <3>2, <3>3
  <2>3. CASE k <= 3
    <3>1. plan[k] = t[k]
      BY <1>8, <2>1, <2>3
    <3>2. \/ k = 1 /\ n + 5 - k = n + 4
          \/ k = 2 /\ n + 5 - k = n + 3
          \/ k = 3 /\ n + 5 - k = n + 2
      BY <1>1, <2>1, <2>3
    <3> QED
      BY <1>5, <2>1, <3>1, <3>2
  <2> QED
    BY <2>1, <2>2, <2>3
<1>10. n + 5 \in 1 .. n + 5
  BY <1>1
<1> QED
  BY <1>7, <1>8, <1>9, <1>10 DEF Shape

\* What is left of a plan after its first command.
LEMMA TailShape ==
    ASSUME image \in Images, NEW c \in Copies, NEW plan, Shape(plan, c)
    PROVE  /\ Head(plan) = CmdAt(c, Len(plan) - 1) /\ Len(plan) - 1 \in 0 .. SectorBlocks + 4
           /\ Head(plan).k # "done" =>
                 /\ Shape(Tail(plan), c) /\ Len(Tail(plan)) = Len(plan) - 1 /\ Tail(plan) # <<>>
<1>1. /\ SectorBlocks \in Nat /\ plan \in Seq(FlashCmds) /\ Len(plan) \in Nat
      /\ Len(plan) >= 1 /\ Len(plan) <= SectorBlocks + 5
      /\ \A k \in 1 .. Len(plan) : plan[k] = CmdAt(c, Len(plan) - k)
  BY FlashConstants DEF Shape
<1>2. plan # <<>> /\ Head(plan) = plan[1]
  BY <1>1
<1>3. Head(plan) = CmdAt(c, Len(plan) - 1) /\ Len(plan) - 1 \in 0 .. SectorBlocks + 4
  BY <1>1, <1>2
<1>4. ASSUME Head(plan).k # "done"
      PROVE  Shape(Tail(plan), c) /\ Len(Tail(plan)) = Len(plan) - 1 /\ Tail(plan) # <<>>
  <2>1. Len(plan) - 1 # 0
    BY <1>3, <1>4, CmdAtIs
  <2> DEFINE t == Tail(plan)
  <2>2. /\ t \in Seq(FlashCmds) /\ Len(t) = Len(plan) - 1
        /\ \A k \in 1 .. Len(t) : t[k] = plan[k + 1]
    BY <1>1, <1>2, HeadTailProperties
  <2> HIDE DEF t
  <2>3. Len(t) \in 1 .. SectorBlocks + 5 /\ t # <<>>
    BY <1>1, <2>1, <2>2
  <2>4. ASSUME NEW k \in 1 .. Len(t) PROVE t[k] = CmdAt(c, Len(t) - k)
    <3>1. k + 1 \in 1 .. Len(plan) /\ Len(plan) - (k + 1) = Len(t) - k
      BY <1>1, <2>2
    <3> QED
      BY <1>1, <2>2, <3>1
  <2> QED
    BY <2>2, <2>3, <2>4 DEF Shape, t
<1> QED
  BY <1>3, <1>4

\* A call in progress is a record; none is not.
LEMMA JobKinds ==
    ASSUME FlashInv
    PROVE  /\ image \in Images
           /\ qspijob = QspiIdle <=> qspijob.op = "idle"
           /\ qspijob # QspiIdle => qspijob \in FlashJobs
BY DEF FlashInv, FlashTypeOK, FlashJobs, QspiIdle

\* The chip at power-on satisfies the invariant.
LEMMA FlashStarts == QspiInit => FlashInv
<1> SUFFICES ASSUME QspiInit PROVE FlashInv
  OBVIOUS
<1>1. image \in Images /\ qspijob = QspiIdle /\ QspiIdle.op = "idle" /\ known = flash
  BY DEF QspiInit, QspiIdle
<1>2. flash \in [AllBlocks -> FlashValues]
  BY DEF QspiInit, FlashValues
<1>3. known \in [AllBlocks -> FlashValues \cup {Unknown}]
  BY <1>1, <1>2
<1>4. FlashTypeOK
  BY <1>1, <1>2, <1>3 DEF FlashTypeOK
<1>5. ~AtWork /\ \A b \in AllBlocks : Holds(b)
  BY <1>1 DEF AtWork, Holds
<1> QED
  BY <1>4, <1>5 DEF FlashInv

\* A call that ends, or that has not yet read its block, leaves the chip as
\* it is known.
LEMMA RestsKeeps ==
    ASSUME FlashInv, image' = image, qspijob' = QspiIdle,
           flash' \in [AllBlocks -> FlashValues],
           known' \in [AllBlocks -> FlashValues \cup {Unknown}],
           \A b \in AllBlocks : known'[b] \in {Unknown, flash'[b]}
    PROVE  FlashInv'
<1>1. image' \in Images /\ QspiIdle.op = "idle"
  BY JobKinds DEF QspiIdle
<1>2. FlashTypeOK'
  BY <1>1 DEF FlashTypeOK
<1>3. ~AtWork' /\ \A b \in AllBlocks : Holds(b)'
  BY DEF AtWork, Holds
<1> QED
  BY <1>2, <1>3 DEF FlashInv

\* A write begins.
LEMMA FsWriteKeeps == ASSUME FlashInv, FsWrite PROVE FlashInv'
<1>1. PICK pos \in 0 .. WindowBlocks, n \in 1 .. MaxRequest, v \in Patterns :
        /\ pos + n <= Reach[image] /\ Clipped(pos, n) > 0
        /\ qspijob' = [op |-> "write", at |-> 0, pos |-> pos, left |-> Clipped(pos, n),
                       v |-> v, plan |-> <<>>, backup |-> QspiIdle]
  BY DEF FsWrite
<1>2. qspijob = QspiIdle /\ UNCHANGED <<image, flash, known>> /\ image \in Images
  BY JobKinds DEF FsWrite
<1>3. /\ pos \in Nat /\ n \in Nat /\ WindowBlocks \in Nat /\ pos <= WindowBlocks
      /\ Reach[image] \in Nat
  BY <1>2, FlashConstants, QspiAssumption
<1> DEFINE m == Clipped(pos, n)
<1>4. m \in Nat /\ m >= 1 /\ pos + m <= Reach[image]
  BY <1>1, <1>3 DEF Clipped
<1> HIDE DEF m
<1>5. qspijob' = [op |-> "write", at |-> 0, pos |-> pos, left |-> m,
                  v |-> v, plan |-> <<>>, backup |-> QspiIdle]
  BY <1>1 DEF m
<1>6. <<>> \in Seq(FlashCmds) /\ v \in FlashValues
  BY DEF FlashValues
<1>7. /\ qspijob' \in FlashJobs /\ qspijob'.op = "write" /\ qspijob'.left = m
      /\ qspijob'.pos = pos /\ qspijob'.plan = <<>>
  BY <1>3, <1>4, <1>5, <1>6 DEF FlashJobs
<1>8. FlashTypeOK'
  BY <1>2, <1>4, <1>7 DEF FlashInv, FlashTypeOK
<1>9. ~AtWork /\ ~AtWork'
  BY <1>2, <1>7 DEF AtWork
<1>10. \A b \in AllBlocks : Holds(b)'
  BY <1>2, <1>9 DEF FlashInv, Holds
<1> QED
  BY <1>8, <1>9, <1>10 DEF FlashInv

\* Refuse, and a read that fails, before anything is erased.
LEMMA NothingDone ==
    ASSUME FlashInv, qspijob.plan = <<>>, qspijob' = QspiIdle, UNCHANGED <<image, flash, known>>
    PROVE  FlashInv'
<1>1. \A b \in AllBlocks : known[b] \in {Unknown, flash[b]}
  BY DEF FlashInv, AtWork, Holds
<1>2. /\ flash' \in [AllBlocks -> FlashValues]
      /\ known' \in [AllBlocks -> FlashValues \cup {Unknown}]
  BY DEF FlashInv, FlashTypeOK
<1> QED
  BY <1>1, <1>2, RestsKeeps

\* What a read of an erase sector returns.
LEMMA ReadIs ==
    ASSUME FlashInv, NEW a, Sectored(a)
    PROVE  /\ qspi_read(a) \in Copies /\ DOMAIN qspi_read(a) = Places
           /\ \A i \in Places : qspi_read(a)[i] = flash[a + i] /\ a + i \in AllBlocks
<1>1. image \in Images /\ flash \in [AllBlocks -> FlashValues]
  BY JobKinds DEF FlashInv, FlashTypeOK
<1>2. /\ Around(a) \subseteq AllBlocks
      /\ \A i \in Places : a + i \in Around(a) /\ Chip(a + i) = a + i
  BY <1>1, SectorIs
<1>3. \A i \in Places : a + i \in AllBlocks /\ flash[a + i] \in FlashValues
  BY <1>1, <1>2
<1>4. qspi_read(a) = [i \in Places |-> flash[Chip(a + i)]]
  BY DEF qspi_read, Places
<1> QED
  BY <1>2, <1>3, <1>4 DEF Copies

\* A block is read and patched: the plan leaves the patched copy.
LEMMA LoadKeeps == ASSUME Unaliased, FlashInv, Load PROVE FlashInv'
<1> DEFINE b == BaseBlock + qspijob.pos
<1>1. /\ qspijob.op = "write" /\ qspijob.plan = <<>> /\ qspijob.pos < WindowBlocks
      /\ UNCHANGED <<image, flash, known>>
  BY DEF Load
<1>2. /\ image \in Images /\ qspijob \in FlashJobs /\ ~AtWork
      /\ qspijob.pos \in Nat /\ qspijob.left \in Nat /\ qspijob.left >= 1
      /\ qspijob.pos + qspijob.left <= Reach[image] /\ qspijob.v \in FlashValues
  BY <1>1, JobKinds DEF FlashInv, FlashTypeOK, FlashJobs, AtWork, QspiIdle
<1>3. b \in Nat /\ b < Span[image]
  <2>1. /\ BaseBlock \in Nat /\ WindowBlocks \in Nat /\ Reach[image] \in Nat
    BY <1>2, FlashConstants
  <2>2. qspijob.pos \in 0 .. WindowBlocks - 1 /\ qspijob.pos < Reach[image] /\ b \in Nat
    BY <1>1, <1>2, <2>1
  <2> QED
    BY <1>2, <2>2 DEF Unaliased
<1>4. PICK a : a = FirstOf(b) /\ Sectored(a) /\ b \in Around(a)
  <2> HIDE DEF b
  <2> QED
    BY <1>2, <1>3, FirstIs
<1> DEFINE old == qspi_read(a)
<1>5. /\ Around(a) \subseteq AllBlocks /\ b - a \in Places /\ a + (b - a) = b
      /\ a \in Nat /\ SectorBlocks \in Nat
  <2> HIDE DEF b
  <2> QED
    BY <1>2, <1>4, SectorIs, FlashConstants DEF Sectored
<1>6. /\ old \in Copies /\ DOMAIN old = Places
      /\ \A i \in Places : old[i] = flash[a + i] /\ a + i \in AllBlocks
  BY <1>4, ReadIs
<1>7. PICK c \in Copies :
        /\ c = Patched(old, b - a, qspijob.v) /\ c[b - a] = qspijob.v
        /\ \A i \in Places : i # b - a => c[i] = old[i]
  <2> DEFINE o == b - a
             new == [old EXCEPT ![o] = qspijob.v]
  <2>1. new = Patched(old, b - a, qspijob.v)
    BY DEF Patched
  <2>2. o \in Places
    BY <1>5
  <2> HIDE DEF b, old, o
  <2>3. new \in Copies /\ new[o] = qspijob.v /\ \A i \in Places : i # o => new[i] = old[i]
    BY <1>2, <1>6, <2>2 DEF Copies
  <2> HIDE DEF new
  <2> QED
    BY <2>1, <2>3 DEF o
<1> DEFINE same == image = "neutrino" /\ c = old
           plan == (IF same THEN <<>> ELSE RewriteCmds(c)) \o <<Done>>
<1>a. qspijob' = [qspijob EXCEPT !.at = a, !.plan = plan]
  BY <1>4, <1>7 DEF Load
<1> HIDE DEF b, old
<1>8. /\ Shape(plan, c) /\ Len(plan) \in {1, SectorBlocks + 2}
      /\ ~same => Len(plan) = SectorBlocks + 2
  <2>1. CASE same
    BY <1>2, <1>7, <2>1, DoneShape
  <2>2. CASE ~same
    BY <1>2, <1>7, <2>2, RewriteShape
  <2> QED
    BY <2>1, <2>2
<1> HIDE DEF plan
<1>9. plan \in Seq(FlashCmds) /\ plan # <<>>
  <2>1. plan \in Seq(FlashCmds) /\ Len(plan) \in 1 .. SectorBlocks + 5
    BY <1>8 DEF Shape
  <2> QED
    BY <1>5, <2>1
<1>10. /\ qspijob' \in FlashJobs /\ qspijob'.op = "write" /\ qspijob'.at = a
       /\ qspijob'.pos = qspijob.pos /\ qspijob'.left = qspijob.left /\ qspijob'.v = qspijob.v
       /\ qspijob'.plan = plan
  BY <1>a, <1>1, <1>2, <1>5, <1>9 DEF FlashJobs
<1>11. FlashTypeOK'
  BY <1>1, <1>2, <1>10 DEF FlashInv, FlashTypeOK
<1>12. AtWork' /\ Sectored(qspijob.at)'
  BY <1>1, <1>4, <1>9, <1>10 DEF AtWork, QspiIdle, Sectored
<1>13. \A x \in AllBlocks : known[x] \in {Unknown, flash[x]}
  BY <1>2 DEF FlashInv, Holds
<1>14. Aimed(c)'
  <2> SUFFICES ASSUME NEW i \in Places
               PROVE  IF a + i = b THEN c[i] = qspijob.v
                      ELSE known[a + i] \in {Unknown, c[i]}
    BY <1>1, <1>10 DEF Aimed, b
  <2>1. CASE i = b - a
    BY <1>5, <1>7, <2>1
  <2>2. CASE i # b - a
    <3>1. a + i # b
      BY <1>3, <1>5, <2>2 DEF Places
    <3> QED
      BY <1>6, <1>7, <1>13, <2>2, <3>1
  <2> QED
    BY <2>1, <2>2
<1>15. Written(c)'
  <2> SUFFICES ASSUME Len(plan) <= SectorBlocks + 1, NEW i \in Places
               PROVE  flash[a + i] = IF i + Len(plan) <= SectorBlocks THEN c[i] ELSE Erased
    BY <1>1, <1>10 DEF Written
  <2>1. same /\ Len(plan) = 1
    BY <1>5, <1>8
  <2>2. i + Len(plan) <= SectorBlocks
    BY <1>5, <2>1 DEF Places
  <2> QED
    BY <1>6, <2>1, <2>2
<1>16. Len(plan) <= SectorBlocks + 2
  <2>1. Len(plan) = 1 \/ Len(plan) = SectorBlocks + 2
    BY <1>8
  <2> QED
    BY <1>5, <2>1
<1>17. Rewriting'
  <2>1. \A x \in AllBlocks : Holds(x)'
    BY <1>1, <1>13 DEF Holds
  <2>2. /\ qspijob'.pos < WindowBlocks /\ Len(qspijob'.plan) <= SectorBlocks + 2
        /\ BaseBlock + qspijob'.pos \in Around(qspijob'.at)
    BY <1>1, <1>4, <1>10, <1>16 DEF b
  <2>3. Shape(qspijob'.plan, c) /\ Aimed(c)' /\ Written(c)' /\ qspijob'.op # "test"
    BY <1>8, <1>10, <1>14, <1>15
  <2> QED
    BY <1>7, <1>12, <2>1, <2>2, <2>3 DEF Rewriting
<1> QED
  BY <1>11, <1>12, <1>17 DEF FlashInv

\* A command is due in a call that is at work.
LEMMA DueIs ==
    ASSUME FlashInv, NEW k, NextCmd(k)
    PROVE  /\ AtWork /\ qspijob \in FlashJobs /\ image \in Images /\ Rewriting
           /\ Head(qspijob.plan).k = k /\ QspiIdle.op = "idle"
BY JobKinds DEF NextCmd, AtWork, FlashInv, QspiIdle

\* The sector of the call, and the blocks outside it.
OutsideKept ==
    /\ flash' \in [AllBlocks -> FlashValues]
    /\ \A b \in AllBlocks \ Around(qspijob.at) : flash'[b] = flash[b]

\* A command of the plan is done and the next one is due.
LEMMA AdvanceKeeps ==
    ASSUME FlashInv, AtWork, Rewriting, OutsideKept, qspijob' = Rest, UNCHANGED <<image, known>>,
           NEW c \in Copies, Shape(qspijob.plan, c), Aimed(c),
           qspijob.op = "test" => qspijob.backup = c,
           Head(qspijob.plan).k # "done", Written(c)'
    PROVE  FlashInv'
<1>1. image \in Images /\ qspijob \in FlashJobs
  BY JobKinds DEF AtWork
<1> DEFINE t == Tail(qspijob.plan)
<1>2. Shape(t, c) /\ Len(t) = Len(qspijob.plan) - 1 /\ t # <<>>
  BY <1>1, TailShape
<1>3. t \in Seq(FlashCmds) /\ qspijob' = [qspijob EXCEPT !.plan = t]
  BY <1>2 DEF Shape, Rest
<1> HIDE DEF t
<1>4. /\ qspijob' \in FlashJobs /\ qspijob'.op = qspijob.op /\ qspijob'.at = qspijob.at
      /\ qspijob'.pos = qspijob.pos /\ qspijob'.left = qspijob.left /\ qspijob'.v = qspijob.v
      /\ qspijob'.plan = t /\ qspijob'.backup = qspijob.backup /\ qspijob' # QspiIdle
  BY <1>1, <1>3 DEF FlashJobs, QspiIdle
<1>5. FlashTypeOK'
  BY <1>1, <1>4 DEF FlashInv, FlashTypeOK, OutsideKept
<1>6. AtWork'
  BY <1>2, <1>4 DEF AtWork
<1>7. Sectored(qspijob.at)'
  BY <1>4 DEF Rewriting, Sectored
<1>8. qspijob'.op = "write" =>
        /\ qspijob'.pos < WindowBlocks /\ Len(qspijob'.plan) <= SectorBlocks + 2
        /\ BaseBlock + qspijob'.pos \in Around(qspijob'.at)
  <2>1. Len(qspijob.plan) \in Nat /\ SectorBlocks \in Nat
    BY <1>1, FlashConstants DEF Shape
  <2>2. Len(qspijob.plan) <= SectorBlocks + 2 => Len(t) <= SectorBlocks + 2
    BY <1>2, <2>1
  <2> QED
    BY <1>4, <2>2 DEF Rewriting
<1>9. ASSUME NEW b \in AllBlocks \ Around(qspijob'.at) PROVE Holds(b)'
  BY <1>4 DEF Rewriting, Holds, OutsideKept
<1>10. Aimed(c)'
  BY <1>4 DEF Aimed
<1>11. Shape(qspijob'.plan, c) /\ (qspijob'.op = "test" => qspijob'.backup = c)
  BY <1>2, <1>4
<1>12. Rewriting'
  BY <1>7, <1>8, <1>9, <1>10, <1>11 DEF Rewriting
<1> QED
  BY <1>5, <1>6, <1>12 DEF FlashInv

\* Erasing the sector of the call.
LEMMA ErasedIs ==
    ASSUME FlashInv, Rewriting, image \in Images,
           flash' = [b \in AllBlocks |->
                       IF b \in SectorOf(Chip(qspijob.at)) THEN Erased ELSE flash[b]]
    PROVE  OutsideKept /\ \A i \in Places : flash'[qspijob.at + i] = Erased
<1>1. /\ Around(qspijob.at) \subseteq AllBlocks /\ SectorOf(Chip(qspijob.at)) = Around(qspijob.at)
      /\ \A i \in Places : qspijob.at + i \in Around(qspijob.at)
  BY SectorIs DEF Rewriting
<1>2. flash \in [AllBlocks -> FlashValues] /\ Erased \in FlashValues
  BY DEF FlashInv, FlashTypeOK, FlashValues
<1> QED
  BY <1>1, <1>2 DEF OutsideKept

\* Programming a block of the sector.
LEMMA ProgrammedIs ==
    ASSUME FlashInv, Rewriting, image \in Images, NEW j \in Places, NEW v \in FlashValues,
           flash' = [flash EXCEPT ![Chip(qspijob.at + j)] = v]
    PROVE  /\ OutsideKept
           /\ \A i \in Places :
                 flash'[qspijob.at + i] = IF i = j THEN v ELSE flash[qspijob.at + i]
<1> DEFINE a == qspijob.at
<1>1. /\ Around(a) \subseteq AllBlocks /\ a \in Nat
      /\ \A i \in Places : a + i \in Around(a) /\ Chip(a + i) = a + i
  BY SectorIs DEF Rewriting, Sectored
<1>2. flash \in [AllBlocks -> FlashValues]
  BY DEF FlashInv, FlashTypeOK
<1>3. flash' = [flash EXCEPT ![a + j] = v] /\ a + j \in AllBlocks
  BY <1>1
<1>4. SectorBlocks \in Nat /\ j \in Int
  BY FlashConstants DEF Places
<1>5. \A i \in Places : i # j => a + i # a + j
  BY <1>1, <1>4 DEF Places
<1> HIDE DEF a
<1>6. \A i \in Places : flash'[a + i] = IF i = j THEN v ELSE flash[a + i]
  BY <1>1, <1>2, <1>3, <1>5
<1>7. flash' \in [AllBlocks -> FlashValues] /\ \A b \in AllBlocks \ Around(a) : flash'[b] = flash[b]
  BY <1>1, <1>2, <1>3
<1> QED
  BY <1>6, <1>7 DEF OutsideKept, a

\* The sector is erased.
LEMMA EraseKeeps == ASSUME FlashInv, Erase PROVE FlashInv'
<1>1. /\ NextCmd("erase") /\ qspijob' = Rest /\ UNCHANGED <<image, known>>
      /\ flash' = [b \in AllBlocks |->
                     IF b \in SectorOf(Chip(qspijob.at)) THEN Erased ELSE flash[b]]
  BY DEF Erase
<1>2. /\ AtWork /\ qspijob \in FlashJobs /\ image \in Images /\ Rewriting
      /\ Head(qspijob.plan).k = "erase"
  BY <1>1, DueIs
<1>3. OutsideKept /\ \A i \in Places : flash'[qspijob.at + i] = Erased
  BY <1>1, <1>2, ErasedIs
<1>4. PICK c \in Copies : /\ Shape(qspijob.plan, c) /\ Aimed(c)
                          /\ qspijob.op = "test" => qspijob.backup = c
  BY <1>2 DEF Rewriting
<1> DEFINE L == Len(qspijob.plan)
<1>5. L - 1 \in {SectorBlocks + 1, SectorBlocks + 4} /\ L - 1 \in 0 .. SectorBlocks + 4
  BY <1>2, <1>4, TailShape, CmdAtIs
<1>6. Len(qspijob'.plan) = L - 1 /\ qspijob'.at = qspijob.at
  <2>1. Len(Tail(qspijob.plan)) = L - 1
    BY <1>2, <1>4, TailShape
  <2> QED
    BY <1>1, <1>2, <2>1 DEF Rest, FlashJobs
<1> HIDE DEF L
<1>7. Written(c)'
  <2> SUFFICES ASSUME L - 1 <= SectorBlocks + 1, NEW i \in Places
               PROVE  ~(i + (L - 1) <= SectorBlocks)
    BY <1>3, <1>6 DEF Written
  <2>1. SectorBlocks \in Nat /\ i \in Nat
    BY <1>2, FlashConstants DEF Places
  <2>2. L - 1 = SectorBlocks + 1
    BY <1>5, <2>1
  <2> QED
    BY <2>1, <2>2
<1> QED
  BY <1>1, <1>2, <1>3, <1>4, <1>7, AdvanceKeeps

\* The next block of the sector is programmed.
LEMMA ProgramKeeps == ASSUME FlashInv, Program PROVE FlashInv'
<1> DEFINE s == Head(qspijob.plan)
           L == Len(qspijob.plan)
<1>1. /\ NextCmd("program") /\ qspijob' = Rest /\ UNCHANGED <<image, known>>
      /\ flash' = [flash EXCEPT ![Chip(qspijob.at + s.i)] = Programmed(@, s.v)]
  BY DEF Program
<1>2. /\ AtWork /\ qspijob \in FlashJobs /\ image \in Images /\ Rewriting /\ s.k = "program"
  BY <1>1, DueIs
<1>3. PICK c \in Copies : /\ Shape(qspijob.plan, c) /\ Aimed(c) /\ Written(c)
                          /\ qspijob.op = "test" => qspijob.backup = c
  BY <1>2 DEF Rewriting
<1>4. s = CmdAt(c, L - 1) /\ L - 1 \in 0 .. SectorBlocks + 4
  BY <1>2, <1>3, TailShape
<1>5. /\ s \in FlashCmds
      /\ \/ /\ L - 1 \in 1 .. SectorBlocks /\ s.i = SectorBlocks - (L - 1)
            /\ s.v = c[SectorBlocks - (L - 1)]
         \/ L - 1 = SectorBlocks + 3
  BY <1>2, <1>4, CmdAtIs
<1>6. s.i \in Places /\ s.v \in FlashValues
  BY <1>5 DEF FlashCmds
<1>7. Len(qspijob'.plan) = L - 1 /\ qspijob'.at = qspijob.at
  <2>1. Len(Tail(qspijob.plan)) = L - 1
    BY <1>2, <1>3, TailShape
  <2> QED
    BY <1>1, <1>2, <2>1 DEF Rest, FlashJobs
<1>8. SectorBlocks \in Nat /\ L \in Nat /\ \A i \in Places : i \in Nat
  BY <1>2, <1>3, FlashConstants DEF Places, Shape
<1> HIDE DEF s, L
<1> DEFINE j == s.i
           b == Chip(qspijob.at + j)
           v == Programmed(flash[b], s.v)
<1>9. b = qspijob.at + j /\ b \in AllBlocks
  BY <1>2, <1>6, SectorIs DEF Rewriting
<1>10. flash' = [flash EXCEPT ![b] = v]
  BY <1>1
<1>11. flash[b] \in FlashValues /\ v \in FlashValues
  <2>1. flash[b] \in FlashValues
    BY <1>9 DEF FlashInv, FlashTypeOK
  <2> HIDE DEF b
  <2> QED
    BY <1>6, <2>1 DEF Programmed, FlashValues
<1>12. /\ OutsideKept
       /\ \A i \in Places : flash'[qspijob.at + i] = IF i = j THEN v ELSE flash[qspijob.at + i]
  <2> HIDE DEF v
  <2> QED
    BY <1>2, <1>6, <1>10, <1>11, ProgrammedIs
<1>13. Written(c)'
  <2> SUFFICES ASSUME L - 1 <= SectorBlocks + 1, NEW i \in Places
               PROVE  flash'[qspijob.at + i] = IF i + (L - 1) <= SectorBlocks THEN c[i] ELSE Erased
    BY <1>7 DEF Written
  <2>1. L - 1 \in 1 .. SectorBlocks /\ j = SectorBlocks - (L - 1) /\ s.v = c[j]
    BY <1>5, <1>8
  <2>2. L <= SectorBlocks + 1 /\ j \in Nat /\ i \in Nat
    BY <1>6, <1>8, <2>1
  <2>3. flash[qspijob.at + i] = IF i + L <= SectorBlocks THEN c[i] ELSE Erased
    BY <1>3, <2>2 DEF Written, L
  <2>4. flash[b] = Erased
    <3>1. flash[qspijob.at + j] = IF j + L <= SectorBlocks THEN c[j] ELSE Erased
      BY <1>3, <1>6, <2>2 DEF Written, L
    <3>2. ~(j + L <= SectorBlocks)
      BY <1>8, <2>1
    <3> QED
      BY <1>9, <3>1, <3>2
  <2>5. v = c[j]
    BY <2>1, <2>4 DEF Programmed
  <2> HIDE DEF v, j
  <2>6. CASE i = j
    <3>1. i + (L - 1) <= SectorBlocks
      BY <1>8, <2>1, <2>6
    <3> QED
      BY <1>12, <2>5, <2>6, <3>1
  <2>7. CASE i # j
    <3>1. i + (L - 1) <= SectorBlocks <=> i + L <= SectorBlocks
      BY <1>8, <2>1, <2>2, <2>7
    <3> QED
      BY <1>12, <2>3, <2>7, <3>1
  <2> QED
    BY <2>6, <2>7
<1>14. Head(qspijob.plan).k # "done"
  BY <1>2 DEF s
<1> QED
  BY <1>1, <1>2, <1>3, <1>12, <1>13, <1>14, AdvanceKeeps

\* The pattern is read back.
LEMMA VerifyKeeps == ASSUME FlashInv, Verify PROVE FlashInv'
<1>1. NextCmd("verify") /\ qspijob' = Rest /\ UNCHANGED <<image, flash, known>>
  BY DEF Verify
<1>2. /\ AtWork /\ qspijob \in FlashJobs /\ image \in Images /\ Rewriting
      /\ Head(qspijob.plan).k = "verify"
  BY <1>1, DueIs
<1>3. OutsideKept
  BY <1>1 DEF OutsideKept, FlashInv, FlashTypeOK
<1>4. PICK c \in Copies : /\ Shape(qspijob.plan, c) /\ Aimed(c)
                          /\ qspijob.op = "test" => qspijob.backup = c
  BY <1>2 DEF Rewriting
<1>5. Len(Tail(qspijob.plan)) = SectorBlocks + 2
  BY <1>2, <1>4, TailShape, CmdAtIs
<1>6. qspijob'.plan = Tail(qspijob.plan) /\ SectorBlocks \in Nat
  BY <1>1, <1>2, FlashConstants DEF Rest, FlashJobs
<1>7. ~(SectorBlocks + 2 <= SectorBlocks + 1)
  BY <1>6
<1>8. Written(c)'
  BY <1>5, <1>6, <1>7 DEF Written
<1> QED
  BY <1>1, <1>2, <1>3, <1>4, <1>8, AdvanceKeeps

\* At the end of a plan the whole sector holds the copy.
LEMMA PlanEnds ==
    ASSUME FlashInv, NextCmd("done")
    PROVE  \E c \in Copies :
              /\ Aimed(c) /\ \A i \in Places : flash[qspijob.at + i] = c[i]
<1>1. /\ AtWork /\ image \in Images /\ Rewriting /\ Head(qspijob.plan).k = "done"
  BY DueIs
<1>2. PICK c \in Copies : Shape(qspijob.plan, c) /\ Aimed(c) /\ Written(c)
  BY <1>1 DEF Rewriting
<1>3. Len(qspijob.plan) - 1 = 0
  BY <1>1, <1>2, TailShape, CmdAtIs
<1>4. Len(qspijob.plan) = 1 /\ SectorBlocks \in Nat
  BY <1>1, <1>2, <1>3, FlashConstants DEF Shape
<1>5. 1 <= SectorBlocks + 1 /\ \A i \in Places : i + 1 <= SectorBlocks
  BY <1>4 DEF Places
<1>6. \A i \in Places : flash[qspijob.at + i] = c[i]
  BY <1>2, <1>4, <1>5 DEF Written
<1> QED
  BY <1>2, <1>6

\* Then every block but the one being written is as known, and that one holds
\* what was written.
LEMMA AllHeld ==
    ASSUME FlashInv, NextCmd("done"), NEW b \in AllBlocks
    PROVE  \/ Holds(b)
           \/ qspijob.op = "write" /\ b = BaseBlock + qspijob.pos /\ flash[b] = qspijob.v
<1>1. image \in Images /\ Rewriting
  BY DueIs
<1>2. CASE b \notin Around(qspijob.at)
  BY <1>1, <1>2 DEF Rewriting
<1>3. CASE b \in Around(qspijob.at)
  <2>1. PICK c \in Copies : /\ Aimed(c)
                            /\ \A i \in Places : flash[qspijob.at + i] = c[i]
    BY PlanEnds
  <2> DEFINE i == b - qspijob.at
  <2>2. i \in Places /\ qspijob.at + i = b
    BY <1>1, <1>3, SectorIs DEF Rewriting
  <2> HIDE DEF i
  <2> QED
    BY <2>1, <2>2 DEF Aimed, Holds
<1> QED
  BY <1>2, <1>3

\* The block being written is the one the request is at.
LEMMA WrittenHeld ==
    ASSUME FlashInv, NextCmd("done"), qspijob.op = "write"
    PROVE  BaseBlock + qspijob.pos \in AllBlocks /\ flash[BaseBlock + qspijob.pos] = qspijob.v
<1>1. image \in Images /\ Rewriting
  BY DueIs
<1> DEFINE b == BaseBlock + qspijob.pos
           i == b - qspijob.at
<1>2. b \in Around(qspijob.at)
  BY <1>1 DEF Rewriting
<1>3. b \in AllBlocks /\ i \in Places /\ qspijob.at + i = b
  BY <1>1, <1>2, SectorIs DEF Rewriting
<1>4. PICK c \in Copies : /\ Aimed(c)
                          /\ \A k \in Places : flash[qspijob.at + k] = c[k]
  BY PlanEnds
<1> HIDE DEF b, i
<1>5. c[i] = qspijob.v
  BY <1>3, <1>4 DEF Aimed, b
<1> QED
  BY <1>3, <1>4, <1>5 DEF b

\* A block has been written, or the self-test ends.
LEMMA BlockDoneKeeps == ASSUME FlashInv, BlockDone PROVE FlashInv'
<1>1. NextCmd("done") /\ UNCHANGED <<image, flash>>
  BY DEF BlockDone
<1>2. image \in Images /\ qspijob \in FlashJobs
  BY <1>1, DueIs
<1>3. flash \in [AllBlocks -> FlashValues] /\ known \in [AllBlocks -> FlashValues \cup {Unknown}]
  BY DEF FlashInv, FlashTypeOK
<1>4. CASE qspijob.op = "test"
  <2>1. qspijob' = QspiIdle /\ known' = known
    BY <1>4 DEF BlockDone
  <2>2. \A b \in AllBlocks : Holds(b)
    BY <1>1, <1>4, AllHeld
  <2> QED
    BY <1>1, <1>3, <2>1, <2>2, RestsKeeps DEF Holds
<1>5. CASE qspijob.op = "write"
  <2> DEFINE b == BaseBlock + qspijob.pos
  <2>1. /\ known' = [known EXCEPT ![b] = qspijob.v]
        /\ qspijob' = IF qspijob.left = 1 THEN QspiIdle
                      ELSE [qspijob EXCEPT !.left = @ - 1, !.pos = @ + 1, !.plan = <<>>]
    BY <1>5 DEF BlockDone
  <2>2. b \in AllBlocks /\ flash[b] = qspijob.v /\ qspijob.v \in FlashValues
    BY <1>1, <1>2, <1>5, WrittenHeld DEF FlashJobs
  <2>3. known' \in [AllBlocks -> FlashValues \cup {Unknown}]
    BY <1>3, <2>1, <2>2
  <2>4. \A x \in AllBlocks : known'[x] \in {Unknown, flash'[x]}
    <3> SUFFICES ASSUME NEW x \in AllBlocks PROVE known'[x] \in {Unknown, flash[x]}
      BY <1>1
    <3>1. CASE x = b
      BY <1>3, <2>1, <2>2, <3>1
    <3>2. CASE x # b
      BY <1>1, <1>3, <2>1, <3>2, AllHeld DEF Holds
    <3> QED
      BY <3>1, <3>2
  <2>5. CASE qspijob.left = 1
    <3>1. qspijob' = QspiIdle
      BY <2>1, <2>5
    <3> QED
      BY <1>1, <1>3, <2>3, <2>4, <3>1, RestsKeeps
  <2>6. CASE qspijob.left # 1
    <3>1. /\ qspijob.left \in Nat /\ qspijob.pos \in Nat /\ qspijob.left >= 1
          /\ qspijob.pos + qspijob.left <= Reach[image] /\ Reach[image] \in Nat
      BY <1>2, <1>5, FlashConstants DEF FlashInv, FlashTypeOK, FlashJobs
    <3> DEFINE n == qspijob.left - 1
               p == qspijob.pos + 1
    <3>2. n \in Nat /\ n >= 1 /\ p \in Nat /\ p + n <= Reach[image]
      BY <2>6, <3>1
    <3>3. qspijob' = [qspijob EXCEPT !.left = n, !.pos = p, !.plan = <<>>]
      BY <2>1, <2>6
    <3> HIDE DEF n, p
    <3>4. /\ qspijob' \in FlashJobs /\ qspijob'.left = n /\ qspijob'.pos = p
          /\ qspijob'.plan = <<>>
      <4>1. <<>> \in Seq(FlashCmds)
        OBVIOUS
      <4> QED
        BY <1>2, <3>2, <3>3, <4>1 DEF FlashJobs
    <3>5. FlashTypeOK'
      BY <1>1, <1>2, <1>3, <2>3, <3>2, <3>4 DEF FlashTypeOK
    <3>6. ~AtWork' /\ \A x \in AllBlocks : Holds(x)'
      BY <2>4, <3>4 DEF AtWork, Holds
    <3> QED
      BY <3>5, <3>6 DEF FlashInv
  <2> QED
    BY <2>5, <2>6
<1> QED
  BY <1>2, <1>4, <1>5 DEF FlashJobs

\* The self-test keeps a copy of its sector.
LEMMA SelfTestKeeps == ASSUME FlashInv, SelfTest PROVE FlashInv'
<1>1. /\ image = "freertos" /\ qspijob = QspiIdle /\ UNCHANGED <<image, flash, known>>
      /\ qspijob' = [op |-> "test", at |-> TestSector, pos |-> 0, left |-> 0,
                     v |-> TestPattern, plan |-> TestCmds(qspi_read(TestSector)),
                     backup |-> qspi_read(TestSector)]
  BY DEF SelfTest
<1>2. image \in Images /\ ~AtWork
  BY <1>1, JobKinds DEF AtWork
<1>3. Sectored(TestSector)
  BY <1>1, <1>2, TestSectorIs
<1>4. PICK c \in Copies : c = qspi_read(TestSector)
  BY <1>3, ReadIs
<1>5. \A i \in Places : c[i] = flash[TestSector + i] /\ TestSector + i \in AllBlocks
  BY <1>3, <1>4, ReadIs
<1>6. PICK plan \in Seq(FlashCmds) :
        plan = TestCmds(c) /\ Shape(plan, c) /\ Len(plan) = SectorBlocks + 5
  BY <1>2, TestShape DEF Shape
<1>7. TestSector \in Nat /\ SectorBlocks \in Nat
  BY <1>2, <1>3, FlashConstants DEF Sectored
<1>8. qspijob' = [op |-> "test", at |-> TestSector, pos |-> 0, left |-> 0,
                  v |-> TestPattern, plan |-> plan, backup |-> c]
  BY <1>1, <1>4, <1>6
<1>9. /\ qspijob' \in FlashJobs /\ qspijob'.op = "test" /\ qspijob'.at = TestSector
      /\ qspijob'.plan = plan /\ qspijob'.backup = c /\ qspijob' # QspiIdle
  BY <1>7, <1>8 DEF FlashJobs, FlashValues, QspiIdle
<1>10. plan # <<>> /\ ~(Len(plan) <= SectorBlocks + 1)
  BY <1>6, <1>7
<1>11. FlashTypeOK' /\ AtWork'
  BY <1>1, <1>9, <1>10 DEF FlashInv, FlashTypeOK, AtWork
<1>12. \A b \in AllBlocks : Holds(b) /\ Holds(b)'
  BY <1>1, <1>2 DEF FlashInv, Holds
<1>13. Sectored(qspijob.at)'
  BY <1>1, <1>3, <1>9 DEF Sectored
<1>14. Aimed(c)'
  BY <1>1, <1>5, <1>9, <1>12 DEF Aimed, Holds
<1>15. Written(c)'
  BY <1>9, <1>10 DEF Written
<1>16. Rewriting'
  BY <1>6, <1>9, <1>12, <1>13, <1>14, <1>15 DEF Rewriting
<1> QED
  BY <1>11, <1>16 DEF FlashInv

\* A call breaks off: what it leaves in doubt is no longer relied on.
LEMMA BreaksOff ==
    ASSUME FlashInv, AtWork, Rewriting, OutsideKept, image' = image, qspijob' = QspiIdle,
           known' = Damaged, ~NextCmd("done")
    PROVE  FlashInv'
<1>1. image \in Images /\ qspijob \in FlashJobs /\ qspijob.plan # <<>>
  BY JobKinds DEF AtWork
<1>2. InDoubt = Around(qspijob.at)
  <2>1. SectorOf(Chip(qspijob.at)) = Around(qspijob.at)
    BY <1>1, SectorIs DEF Rewriting
  <2> QED
    BY <1>1, <2>1 DEF InDoubt
<1>3. \A b \in AllBlocks : known'[b] = IF b \in Around(qspijob.at) THEN Unknown ELSE known[b]
  BY <1>2 DEF Damaged
<1>4. known' \in [AllBlocks -> FlashValues \cup {Unknown}]
  BY DEF Damaged, FlashInv, FlashTypeOK
<1>5. \A b \in AllBlocks : known'[b] \in {Unknown, flash'[b]}
  BY <1>3 DEF Rewriting, Holds, OutsideKept
<1> QED
  BY <1>4, <1>5, RestsKeeps DEF OutsideKept

\* The power fails.
LEMMA PowerLossKeeps == ASSUME FlashInv, PowerLoss PROVE FlashInv'
<1>1. qspijob # QspiIdle /\ qspijob' = QspiIdle /\ known' = Damaged /\ UNCHANGED <<image, flash>>
  BY DEF PowerLoss
<1>2. image \in Images /\ qspijob \in FlashJobs
  BY <1>1, JobKinds
<1>3. flash \in [AllBlocks -> FlashValues] /\ known \in [AllBlocks -> FlashValues \cup {Unknown}]
  BY DEF FlashInv, FlashTypeOK
<1>4. known' \in [AllBlocks -> FlashValues \cup {Unknown}]
  BY <1>1, <1>3 DEF Damaged
<1>5. CASE ~AtWork
  <2>1. InDoubt = {}
    BY <1>1, <1>5 DEF AtWork, InDoubt, NextCmd
  <2>2. \A b \in AllBlocks : known'[b] = known[b]
    BY <1>1, <2>1 DEF Damaged
  <2>3. \A b \in AllBlocks : known[b] \in {Unknown, flash[b]}
    BY <1>5 DEF FlashInv, Holds
  <2> QED
    BY <1>1, <1>3, <1>4, <2>2, <2>3, RestsKeeps
<1>6. CASE NextCmd("done")
  <2>1. qspijob.plan # <<>>
    BY <1>6 DEF NextCmd
  <2>2. InDoubt = IF qspijob.op = "write" THEN {BaseBlock + qspijob.pos} ELSE {}
    BY <1>6, <2>1 DEF InDoubt
  <2>3. \A b \in AllBlocks : known'[b] = IF b \in InDoubt THEN Unknown ELSE known[b]
    BY <1>1 DEF Damaged
  <2>4. ASSUME NEW b \in AllBlocks PROVE known'[b] \in {Unknown, flash'[b]}
    <3>1. CASE b \in InDoubt
      BY <2>3, <3>1
    <3>2. CASE b \notin InDoubt
      <4>1. Holds(b)
        BY <1>6, <2>2, <3>2, AllHeld
      <4> QED
        BY <1>1, <2>3, <3>2, <4>1 DEF Holds
    <3> QED
      BY <3>1, <3>2
  <2> QED
    BY <1>1, <1>3, <1>4, <2>4, RestsKeeps
<1>7. CASE AtWork /\ ~NextCmd("done")
  <2>1. Rewriting /\ OutsideKept
    BY <1>1, <1>3, <1>7 DEF FlashInv, OutsideKept
  <2> QED
    BY <1>1, <1>7, <2>1, BreaksOff
<1> QED
  BY <1>5, <1>6, <1>7

\* A command that fails may have changed its sector, and nothing else.
LEMMA AftermathIs ==
    ASSUME FlashInv, NEW k \in {"erase", "program", "verify"}, NextCmd(k), flash' \in Aftermath(k)
    PROVE  OutsideKept
<1>1. AtWork /\ image \in Images /\ Rewriting /\ qspijob \in FlashJobs
      /\ Head(qspijob.plan).k = k
  BY DueIs
<1>2. CASE flash' = flash
  BY <1>2 DEF OutsideKept, FlashInv, FlashTypeOK
<1>3. CASE k = "erase" /\ flash' # flash
  <2>1. flash' = [b \in AllBlocks |->
                    IF b \in SectorOf(Chip(qspijob.at)) THEN Erased ELSE flash[b]]
    BY <1>3 DEF Aftermath
  <2> QED
    BY <1>1, <2>1, ErasedIs
<1>4. CASE k = "program" /\ flash' # flash
  <2> DEFINE s == Head(qspijob.plan)
             b == Chip(qspijob.at + s.i)
  <2>1. s \in FlashCmds
    <3>1. qspijob.plan \in Seq(FlashCmds) /\ qspijob.plan # <<>>
      BY <1>1 DEF FlashJobs, AtWork
    <3> QED
      BY <3>1, HeadTailProperties
  <2>2. s.i \in Places /\ s.v \in FlashValues
    BY <2>1 DEF FlashCmds
  <2>3. b \in AllBlocks
    BY <1>1, <2>2, SectorIs DEF Rewriting
  <2>4. flash[b] \in FlashValues
    BY <2>3 DEF FlashInv, FlashTypeOK
  <2>5. flash' = [flash EXCEPT ![b] = TornBlock]
        \/ flash' = [flash EXCEPT ![b] = Programmed(flash[b], s.v)]
    BY <1>4 DEF Aftermath
  <2> HIDE DEF s
  <2>6. TornBlock \in FlashValues /\ Programmed(flash[b], s.v) \in FlashValues
    <3> HIDE DEF b
    <3> QED
      BY <2>2, <2>4 DEF Programmed, FlashValues
  <2>7. PICK v \in FlashValues : flash' = [flash EXCEPT ![Chip(qspijob.at + s.i)] = v]
    BY <2>5, <2>6
  <2> QED
    BY <1>1, <2>2, <2>7, ProgrammedIs
<1>5. CASE k = "verify"
  BY <1>2, <1>5 DEF Aftermath
<1> QED
  BY <1>2, <1>3, <1>4, <1>5

\* A command fails: the call breaks off, or the self-test restores.
LEMMA FailKeeps == ASSUME FlashInv, Fail PROVE FlashInv'
<1>1. PICK k \in {"erase", "program", "verify"} :
        /\ NextCmd(k) /\ flash' \in Aftermath(k)
        /\ IF qspijob.op = "test" /\ InPattern /\ k # "erase"
           THEN /\ qspijob' = [qspijob EXCEPT !.plan = RewriteCmds(qspijob.backup) \o <<Done>>]
                /\ UNCHANGED known
           ELSE qspijob' = QspiIdle /\ known' = Damaged
  BY DEF Fail
<1>2. image' = image
  BY DEF Fail
<1>3. OutsideKept
  BY <1>1, AftermathIs
<1>4. /\ AtWork /\ image \in Images /\ Rewriting /\ qspijob \in FlashJobs
      /\ Head(qspijob.plan).k = k
  BY <1>1, DueIs
<1>5. CASE ~(qspijob.op = "test" /\ InPattern /\ k # "erase")
  <2>1. qspijob' = QspiIdle /\ known' = Damaged /\ ~NextCmd("done")
    BY <1>1, <1>4, <1>5 DEF NextCmd
  <2> QED
    BY <1>2, <1>3, <1>4, <2>1, BreaksOff
<1>6. CASE qspijob.op = "test" /\ InPattern /\ k # "erase"
  <2>1. PICK c \in Copies : qspijob.backup = c /\ Aimed(c)
    BY <1>4, <1>6 DEF Rewriting
  <2>2. PICK plan \in Seq(FlashCmds) : /\ plan = RewriteCmds(c) \o <<Done>>
                                       /\ Shape(plan, c) /\ Len(plan) = SectorBlocks + 2
    BY <1>4, RewriteShape DEF Shape
  <2>3. qspijob' = [qspijob EXCEPT !.plan = plan] /\ known' = known
    BY <1>1, <1>6, <2>1, <2>2
  <2>4. /\ qspijob' \in FlashJobs /\ qspijob'.op = "test" /\ qspijob'.at = qspijob.at
        /\ qspijob'.plan = plan /\ qspijob'.backup = c /\ qspijob' # QspiIdle
    BY <1>4, <1>6, <2>1, <2>3 DEF FlashJobs, QspiIdle
  <2>5. SectorBlocks \in Nat /\ plan # <<>> /\ ~(Len(plan) <= SectorBlocks + 1)
    <3>1. SectorBlocks \in Nat
      BY <1>4, FlashConstants
    <3> QED
      BY <2>2, <3>1
  <2>6. FlashTypeOK' /\ AtWork'
    BY <1>2, <1>3, <2>3, <2>4, <2>5 DEF FlashInv, FlashTypeOK, AtWork, OutsideKept
  <2>7. Sectored(qspijob.at)'
    BY <1>2, <1>4, <2>4 DEF Rewriting, Sectored
  <2>8. ASSUME NEW b \in AllBlocks \ Around(qspijob'.at) PROVE Holds(b)'
    BY <1>3, <1>4, <2>3, <2>4 DEF Rewriting, Holds, OutsideKept
  <2>9. Aimed(c)'
    BY <1>6, <2>1, <2>3, <2>4 DEF Aimed
  <2>10. Written(c)'
    BY <2>4, <2>5 DEF Written
  <2>11. Rewriting'
    BY <2>2, <2>4, <2>7, <2>8, <2>9, <2>10 DEF Rewriting
  <2> QED
    BY <2>6, <2>11 DEF FlashInv
<1> QED
  BY <1>5, <1>6

\* Every step keeps the invariant.
LEMMA FlashKeeps == ASSUME Unaliased, FlashInv, [QspiNext]_qspivars PROVE FlashInv'
<1>1. CASE UNCHANGED qspivars
  BY <1>1 DEF qspivars, FlashInv, FlashTypeOK, Holds, AtWork, Rewriting, Sectored, Aimed, Written
<1>2. CASE Refuse \/ ReadFails
  BY <1>2, NothingDone DEF Refuse, ReadFails
<1> QED
  BY <1>1, <1>2, FsWriteKeeps, LoadKeeps, EraseKeeps, ProgramKeeps, BlockDoneKeeps, SelfTestKeeps,
     VerifyKeeps, FailKeeps, PowerLossKeeps DEF QspiNext

(* As long as the clients of an image stay where its opcodes reach (which  *)
(* three address bytes do not guarantee, see QspiAlias), every block of    *)
(* the flash holds between calls what was last written to it: rewriting an *)
(* erase sector keeps the neighbours, the self-test puts its sector back,  *)
(* and a failure or a power loss damages at most the sector under way.     *)
THEOREM FlashIsKept ==
    ASSUME Unaliased
    PROVE  QspiSpec => []FlashKeepsWrites
<1>1. QspiInit => FlashInv
  BY FlashStarts
<1>2. FlashInv /\ [QspiNext]_qspivars => FlashInv'
  BY FlashKeeps
<1>3. FlashInv => FlashKeepsWrites
  BY DEF FlashInv, AtWork, Holds, FlashKeepsWrites
<1> QED
  BY <1>1, <1>2, <1>3, PTL DEF QspiSpec

(* The three media together, as the platform runs them: what a call        *)
(* reported as read or written is what the medium holds.                   *)
THEOREM MediaAreKept ==
    ASSUME Unaliased
    PROVE  PlatformSpec => []MediaKeepWrites
<1> DEFINE MediaInv == SdInv /\ CardInv /\ FlashInv
           all == <<part, devicevars, configvars>>
<1>1. PlatformInit => MediaInv
  BY SdStarts, CardStarts, FlashStarts DEF PlatformInit, DevicesInit
<1>2. [PlatformNext]_all => [SdNext]_sdvars /\ [CardNext]_rawvars /\ [QspiNext]_qspivars
  BY DEF PlatformNext, Device, Configuration, devicevars
<1>3. MediaInv /\ [PlatformNext]_all => MediaInv'
  <2> HIDE DEF all
  <2> QED
    BY <1>2, SdKeeps, CardKeeps, FlashKeeps
<1>4. MediaInv => MediaKeepWrites
  BY CardInvKeeps DEF SdInv, FlashInv, AtWork, Holds, FlashKeepsWrites, MediaKeepWrites
<1> QED
  BY <1>1, <1>3, <1>4, PTL DEF PlatformSpec

----------------------------------------------------------------------------
(* The configuration on Neutrino.  InStep holds from the start of the       *)
(* migration on; that it survives an edit needs StoreFits: a store that is  *)
(* not empty has a first device, and the configurations in it have the      *)
(* fields that the edits replace.                                           *)

Fields(c) == {"addr", "policy", "white", "black", "settings"} \subseteq DOMAIN c
StoreFits(store) ==
    /\ store = [s \in NStemSet |-> store[s]]
    /\ \A s \in NStemSet : store[s] # <<>> => store[s] = <<store[s][1]>> /\ Fields(store[s][1])
Populated(store) == \E s \in NStemSet : store[s] # <<>>

\* Store, service and slave core say the same of every device.
InStep(store, service, address) ==
    /\ service = [s \in NStemSet |-> service[s]]
    /\ \A s \in NStemSet : store[s] # <<>> => service[s] = <<Live(store[s][1])>>
    /\ address = store[First(store)][1].addr

RuntimeInv ==
    /\ StoreFits(nstore)
    /\ nready \in {"migrating", "ready"} => Populated(nstore) /\ InStep(nstore, nsvc, nslave)

\* A store that is not empty has a first device.
LEMMA FirstDevice ==
    ASSUME NEW store, Populated(store)
    PROVE  /\ First(store) \in NStemSet
           /\ store[First(store)] # <<>>
<1> DEFINE listed == {i \in DOMAIN NStems : store[NStems[i]] # <<>>}
           Least(i) == i \in listed /\ \A j \in listed : i <= j
<1>1. NStemSet = {NStems[i] : i \in DOMAIN NStems}
  BY DEF NStemSet, Range
<1>2. listed \subseteq Nat
  BY NeutrinoAssumption
<1>3. listed # {}
  BY <1>1 DEF Populated
<1>4. \E i \in listed : \A j \in listed : i <= j
  <2> HIDE DEF listed
  <2> QED BY <1>2, <1>3, FirstExists
<1>5. First(store) = NStems[CHOOSE i \in listed : \A j \in listed : i <= j]
  BY DEF First
<1>6. (CHOOSE i \in listed : \A j \in listed : i <= j) \in listed
  <2> HIDE DEF listed
  <2> QED BY <1>4
<1> QED BY <1>1, <1>5, <1>6

\* Two stores that know the same devices have the same first device.
LEMMA SameFirst ==
    ASSUME NEW one, NEW other, \A s \in NStemSet : one[s] = <<>> <=> other[s] = <<>>
    PROVE  First(one) = First(other)
<1>1. \A i \in DOMAIN NStems : NStems[i] \in NStemSet
  BY DEF NStemSet, Range
<1>2. {i \in DOMAIN NStems : one[NStems[i]] # <<>>} = {i \in DOMAIN NStems : other[NStems[i]] # <<>>}
  BY <1>1
<1> QED BY <1>2 DEF First

\* A document that parses gives a configuration with all its fields.
LEMMA ParsedFields ==
    ASSUME NEW doc, bvstk_i2c_config_parse_json(doc).ok
    PROVE  Fields(bvstk_i2c_config_parse_json(doc).config)
<1>1. Malformed.ok = FALSE
  BY DEF Malformed
<1>2. ASSUME parse(doc, "i2c").ok PROVE Fields(parse(doc, "i2c").config)
  <2>1. parse(doc, "i2c") # Malformed
    BY <1>1, <1>2
  <2> QED BY <2>1 DEF parse, Parsed, Fields
<1>3. Fields(legacy_i2c(doc)) /\ Parsed(legacy_i2c(doc)).config = legacy_i2c(doc)
  BY DEF Fields, legacy_i2c, Parsed
<1> QED BY <1>1, <1>2, <1>3 DEF bvstk_i2c_config_parse_json

\* What a start loads fits the store and is not empty.
LEMMA ChosenFits ==
    ASSUME Chosen.ok
    PROVE  StoreFits(Chosen.devices) /\ Populated(Chosen.devices)
<1> DEFINE Fit(D) == StoreFits(D) /\ (~nq_empty(D) => Populated(D))
<1>1. ASSUME NEW d PROVE Fit(load_directory(d).devices)
  <2>1. \A s \in NStemSet : nq_read(d, s).ok => Fields(nq_read(d, s).config)
    BY ParsedFields DEF nq_read
  <2> DEFINE D == [s \in NStemSet |-> IF s \in nq_present(d) /\ nq_read(d, s).ok
                                      THEN <<nq_read(d, s).config>> ELSE <<>>]
  <2>2. load_directory(d).devices = D
    BY DEF load_directory
  <2>3. StoreFits(D)
    BY <2>1 DEF StoreFits
  <2>4. ~nq_empty(D) => Populated(D)
    BY DEF nq_empty, Populated
  <2> QED BY <2>2, <2>3, <2>4
<1>2. Fit(load_embedded_defaults)
  <2>1. \A s \in DOMAIN NDefaults : Fields(bvstk_i2c_config_parse_json(NDefaults[s]).config)
    BY ParsedFields, NeutrinoAssumption
  <2>2. StoreFits(load_embedded_defaults)
    BY <2>1 DEF StoreFits, load_embedded_defaults
  <2> QED BY <2>2 DEF nq_empty, Populated
<1> DEFINE P == load_directory("config")
           L == load_directory("legacy")
           E == load_embedded_defaults
<1>3. Chosen = IF ~P.ok THEN [ok |-> FALSE]
               ELSE IF ~nq_empty(P.devices)
                    THEN [ok |-> TRUE, devices |-> P.devices, migrate |-> FALSE]
               ELSE IF ~L.ok THEN [ok |-> FALSE]
               ELSE IF ~nq_empty(L.devices)
                    THEN [ok |-> TRUE, devices |-> L.devices, migrate |-> TRUE]
               ELSE [ok |-> ~nq_empty(E), devices |-> E, migrate |-> TRUE]
  BY DEF Chosen
<1>4. Fit(P.devices) /\ Fit(L.devices) /\ Fit(E)
  BY <1>1, <1>2
<1> HIDE DEF P, L, E
<1> DEFINE Good(D) == StoreFits(D) /\ Populated(D)
<1> HIDE DEF Good
<1>5. /\ ~nq_empty(P.devices) => Good(P.devices)
      /\ ~nq_empty(L.devices) => Good(L.devices)
      /\ ~nq_empty(E) => Good(E)
  BY <1>4 DEF Good
<1>6. Good(Chosen.devices)
  <2> HIDE DEF Fit
  <2>0. Chosen # [ok |-> FALSE]
    <3>1. SUFFICES ASSUME Chosen = [ok |-> FALSE] PROVE FALSE
      OBVIOUS
    <3>2. ~[ok |-> FALSE].ok
      OBVIOUS
    <3> QED BY <3>1, <3>2
  <2>1. CASE ~P.ok
    BY <1>3, <2>0, <2>1
  <2>2. CASE P.ok /\ ~nq_empty(P.devices)
    BY <1>3, <1>5, <2>2
  <2>3. CASE P.ok /\ nq_empty(P.devices) /\ ~L.ok
    BY <1>3, <2>0, <2>3
  <2>4. CASE P.ok /\ nq_empty(P.devices) /\ L.ok /\ ~nq_empty(L.devices)
    BY <1>3, <1>5, <2>4
  <2>5. CASE P.ok /\ nq_empty(P.devices) /\ L.ok /\ nq_empty(L.devices)
    BY <1>3, <1>5, <2>5
  <2> QED BY <2>1, <2>2, <2>3, <2>4, <2>5
<1> QED BY <1>6 DEF Good

\* Replacing the configuration of one device, with the service and, for the
\* first device, the slave address.
LEMMA Replaced ==
    ASSUME StoreFits(nstore), Populated(nstore), InStep(nstore, nsvc, nslave),
           NEW s \in NStemSet, nstore[s] # <<>>, NEW c, Fields(c),
           nstore' = [nstore EXCEPT ![s] = <<c>>],
           nsvc' = [nsvc EXCEPT ![s] = <<Live(c)>>],
           nslave' = IF s = First(nstore) THEN c.addr ELSE nslave
    PROVE  StoreFits(nstore') /\ Populated(nstore') /\ InStep(nstore', nsvc', nslave')
<1>1. /\ nstore' = [x \in NStemSet |-> IF x = s THEN <<c>> ELSE nstore[x]]
      /\ nsvc' = [x \in NStemSet |-> IF x = s THEN <<Live(c)>> ELSE nsvc[x]]
  BY DEF StoreFits, InStep
<1>2. StoreFits(nstore') /\ Populated(nstore')
  BY <1>1 DEF StoreFits, Populated
<1>3. First(nstore') = First(nstore)
  <2>1. \A x \in NStemSet : nstore'[x] = <<>> <=> nstore[x] = <<>>
    BY <1>1
  <2> QED BY <2>1, SameFirst
<1>4. First(nstore) \in NStemSet
  BY FirstDevice
<1>5. nslave' = nstore'[First(nstore')][1].addr
  BY <1>1, <1>3, <1>4 DEF InStep
<1>6. \A x \in NStemSet : nstore'[x] # <<>> => nsvc'[x] = <<Live(nstore'[x][1])>>
  BY <1>1 DEF InStep
<1> QED BY <1>1, <1>2, <1>5, <1>6 DEF InStep

\* Nothing is listed before a start.
LEMMA RuntimeStarts == NInit => RuntimeInv
  BY DEF NInit, RuntimeInv, StoreFits

\* Steps that leave store, service and slave core alone.
LEMMA RuntimeIdle ==
    ASSUME RuntimeInv, nstore' = nstore, nsvc' = nsvc, nslave' = nslave,
           nready' \in {"migrating", "ready"} => nready \in {"migrating", "ready"}
    PROVE  RuntimeInv'
  BY DEF RuntimeInv

\* A start fills service and slave core from the store.
LEMMA RuntimeInitKeeps == ASSUME RuntimeInv, RuntimeInit PROVE RuntimeInv'
<1>1. CASE ~Chosen.ok
  BY <1>1, RuntimeIdle DEF RuntimeInit
<1>2. CASE Chosen.ok
  <2> DEFINE D == Chosen.devices
  <2>1. StoreFits(D) /\ Populated(D)
    BY <1>2, ChosenFits
  <2>2. /\ nstore' = D
        /\ nsvc' = [s \in NStemSet |-> IF D[s] = <<>> THEN <<>> ELSE <<Live(D[s][1])>>]
        /\ nslave' = D[First(D)][1].addr
    BY <1>2 DEF RuntimeInit
  <2> HIDE DEF D
  <2>3. InStep(D, nsvc', nslave')
    BY <2>2 DEF InStep
  <2> QED BY <2>1, <2>2, <2>3 DEF RuntimeInv
<1> QED BY <1>1, <1>2

\* A kill leaves nothing in memory.
LEMMA KillKeeps == ASSUME RuntimeInv, Kill PROVE RuntimeInv'
  BY DEF Kill, RuntimeInv, StoreFits

\* The mirror of the service into the stored configuration says what the
\* service works with.
LEMMA SyncedLive ==
    ASSUME NEW s, NEW live, NEW cache, Fields(nstore[s][1]),
           {"addr", "policy", "white", "black"} = DOMAIN live,
           live = [x \in DOMAIN live |-> live[x]]
    PROVE  /\ Fields(synced(s, live, cache))
           /\ synced(s, live, cache).addr = live.addr
           /\ Live(synced(s, live, cache)) = live
<1> DEFINE c == nstore[s][1]
           n == synced(s, live, cache)
<1>1. n = [c EXCEPT !.policy = live.policy, !.white = live.white, !.black = live.black,
              !.addr = live.addr, !.settings = merge_cache(@, cache)]
  BY DEF synced
<1>2. {"addr", "policy", "white", "black", "settings"} \subseteq DOMAIN c
  BY DEF Fields
<1> HIDE DEF c
<1>3. /\ n.policy = live.policy /\ n.white = live.white /\ n.black = live.black
      /\ n.addr = live.addr /\ DOMAIN n = DOMAIN c
  BY <1>1, <1>2
<1> HIDE DEF n
<1>4. Live(n) = live
  BY <1>3 DEF Live
<1> QED BY <1>2, <1>3, <1>4 DEF n, Fields

\* A write stores what the service has, with the new byte.
LEMMA WriteCommandKeeps ==
    ASSUME RuntimeInv, NEW s \in NStemSet, NEW v, WriteCommand(s, v)
    PROVE  RuntimeInv'
<1>1. PICK cache : nstore' = [nstore EXCEPT ![s] = <<synced(s, nsvc[s][1], cache)>>]
  BY DEF WriteCommand, config_store_update
<1>2. /\ nsvc' = nsvc /\ nslave' = nslave
      /\ nready = "ready" /\ nready' = nready /\ nstore[s] # <<>>
  BY DEF WriteCommand, NCommand
<1>3. StoreFits(nstore) /\ Populated(nstore) /\ InStep(nstore, nsvc, nslave)
  BY <1>2 DEF RuntimeInv
<1> DEFINE live == nsvc[s][1]
           c == synced(s, live, cache)
<1>4. Fields(nstore[s][1]) /\ nsvc[s] = <<live>> /\ live = Live(nstore[s][1])
  BY <1>2, <1>3 DEF StoreFits, InStep
<1>5. Fields(c) /\ c.addr = live.addr /\ Live(c) = live
  BY <1>4, SyncedLive DEF Live
<1>6. nsvc' = [nsvc EXCEPT ![s] = <<Live(c)>>]
  BY <1>2, <1>3, <1>4, <1>5 DEF InStep
<1>7. nslave' = IF s = First(nstore) THEN c.addr ELSE nslave
  BY <1>2, <1>3, <1>4, <1>5 DEF InStep, Live
<1>8. nstore' = [nstore EXCEPT ![s] = <<c>>]
  BY <1>1
<1> HIDE DEF c
<1>9. StoreFits(nstore') /\ Populated(nstore') /\ InStep(nstore', nsvc', nslave')
  BY <1>2, <1>3, <1>5, <1>6, <1>7, <1>8, Replaced
<1> QED BY <1>2, <1>9 DEF RuntimeInv

\* What goes to the service and from there into the store.
LEMMA MirrorKeeps ==
    ASSUME RuntimeInv, NEW s \in NStemSet, NEW live, NEW cache,
           nready = "ready", nready' = nready, nstore[s] # <<>>,
           nstore' = [nstore EXCEPT ![s] = <<synced(s, live, cache)>>],
           nsvc' = [nsvc EXCEPT ![s] = <<live>>], nslave' = nslave,
           DOMAIN live = {"addr", "policy", "white", "black"},
           live.addr = nstore[s][1].addr, live = [x \in DOMAIN live |-> live[x]]
    PROVE  RuntimeInv'
<1> DEFINE c == synced(s, live, cache)
<1>1. nstore' = [nstore EXCEPT ![s] = <<c>>]
  OBVIOUS
<1>3. StoreFits(nstore) /\ Populated(nstore) /\ InStep(nstore, nsvc, nslave)
  BY DEF RuntimeInv
<1>4. Fields(nstore[s][1])
  BY <1>3 DEF StoreFits
<1>6. Fields(c) /\ c.addr = live.addr /\ Live(c) = live
  BY <1>4, SyncedLive
<1> HIDE DEF c
<1>7. nslave' = IF s = First(nstore) THEN c.addr ELSE nslave
  BY <1>3, <1>6 DEF InStep
<1>9. StoreFits(nstore') /\ Populated(nstore') /\ InStep(nstore', nsvc', nslave')
  BY <1>1, <1>3, <1>6, <1>7, Replaced
<1> QED BY <1>9 DEF RuntimeInv

\* A DCP2 edit of the rules, or of the mode.
LEMMA DcpKeeps ==
    ASSUME RuntimeInv, NEW s \in NStemSet,
           (\E r \in NRules : DcpPolicy(s, r)) \/ (\E mode \in NModes : DcpMode(s, mode))
    PROVE  RuntimeInv'
<1> DEFINE old == nsvc[s][1]
<1>1. nready = "ready" /\ nready' = nready /\ nstore[s] # <<>> /\ nslave' = nslave
  BY DEF DcpPolicy, DcpMode, NCommand
<1>2. old = Live(nstore[s][1])
  BY <1>1 DEF RuntimeInv, InStep
<1>3. ASSUME NEW r \in NRules, DcpPolicy(s, r)
      PROVE  RuntimeInv'
  <2> DEFINE live == [old EXCEPT !.black = AddRule(@, r)]
  <2>1. /\ nstore' = [nstore EXCEPT ![s] = <<synced(s, live, {})>>]
        /\ nsvc' = [nsvc EXCEPT ![s] = <<live>>]
    BY <1>3 DEF DcpPolicy, config_store_update
  <2>2. /\ DOMAIN live = {"addr", "policy", "white", "black"}
        /\ live.addr = nstore[s][1].addr /\ live = [x \in DOMAIN live |-> live[x]]
    BY <1>2 DEF Live
  <2> HIDE DEF live
  <2> QED BY <1>1, <2>1, <2>2, MirrorKeeps
<1>4. ASSUME NEW mode \in NModes, DcpMode(s, mode)
      PROVE  RuntimeInv'
  <2> DEFINE live == [old EXCEPT !.policy = mode]
  <2>1. /\ nstore' = [nstore EXCEPT ![s] = <<synced(s, live, ncache[s])>>]
        /\ nsvc' = [nsvc EXCEPT ![s] = <<live>>]
    BY <1>4 DEF DcpMode, config_store_update
  <2>2. /\ DOMAIN live = {"addr", "policy", "white", "black"}
        /\ live.addr = nstore[s][1].addr /\ live = [x \in DOMAIN live |-> live[x]]
    BY <1>2 DEF Live
  <2> HIDE DEF live
  <2> QED BY <1>1, <2>1, <2>2, MirrorKeeps
<1> QED BY <1>3, <1>4

\* Edits of a configuration keep its fields.
LEMMA EditsKeepFields ==
    ASSUME NEW c, Fields(c)
    PROVE  /\ \A a \in NAddresses : Fields([c EXCEPT !.addr = a])
           /\ \A e \in policy_edits(c) : Fields(e)
  BY DEF Fields, policy_edits

\* addr and policy replace store, service and, for the first device, the slave
\* address, or take the service back.
LEMMA ApplyKeeps ==
    ASSUME RuntimeInv, NEW s \in NStemSet, ApplyCommand(s)
    PROVE  RuntimeInv'
<1>1. PICK c \in {[nstore[s][1] EXCEPT !.addr = a] : a \in NAddresses}
                     \cup policy_edits(nstore[s][1]) : apply_config_locked(s, c)
  BY DEF ApplyCommand
<1>2. nready = "ready" /\ nready' = nready /\ nstore[s] # <<>>
  BY <1>1 DEF apply_config_locked, NCommand
<1>3. StoreFits(nstore) /\ Populated(nstore) /\ InStep(nstore, nsvc, nslave)
  BY <1>2 DEF RuntimeInv
<1>4. Fields(nstore[s][1]) /\ nsvc[s] = <<Live(nstore[s][1])>>
  BY <1>2, <1>3 DEF StoreFits, InStep
<1>5. Fields(c)
  BY <1>1, <1>4, EditsKeepFields
<1>6. CASE /\ nsvc' = [nsvc EXCEPT ![s] = <<Live(nstore[s][1])>>]
           /\ nslave' = nslave /\ nstore' = nstore
  <2>1. nsvc' = nsvc
    BY <1>3, <1>4, <1>6 DEF InStep
  <2> QED BY <1>2, <1>6, <2>1, RuntimeIdle
<1>7. CASE /\ nsvc' = [nsvc EXCEPT ![s] = <<Live(c)>>]
           /\ nslave' = IF s = First(nstore) /\ nstore[s][1].addr # c.addr THEN c.addr ELSE nslave
           /\ nstore' = [nstore EXCEPT ![s] = <<c>>]
  <2>1. nslave' = IF s = First(nstore) THEN c.addr ELSE nslave
    BY <1>3, <1>7 DEF InStep
  <2>2. StoreFits(nstore') /\ Populated(nstore') /\ InStep(nstore', nsvc', nslave')
    BY <1>2, <1>3, <1>5, <1>7, <2>1, Replaced
  <2> QED BY <1>2, <2>2 DEF RuntimeInv
<1> QED
  BY <1>1, <1>6, <1>7 DEF apply_config_locked, config_store_update

\* Every step keeps the invariant.
LEMMA RuntimeKeeps == ASSUME RuntimeInv, [NNext]_nvars PROVE RuntimeInv'
<1>1. CASE UNCHANGED nvars \/ Migrate \/ NqWriteTmp \/ NqRename
  BY <1>1, RuntimeIdle DEF nvars, Migrate, NqWriteTmp, NqRename
<1>2. ASSUME NEW s \in NStemSet, ReadCommand(s)
      PROVE  RuntimeInv'
  BY <1>2, RuntimeIdle DEF ReadCommand, NCommand
<1> QED
  BY <1>1, <1>2, RuntimeInitKeeps, KillKeeps, WriteCommandKeeps, ApplyKeeps, DcpKeeps DEF NNext

(* Whenever the runtime is ready, the master service works with the        *)
(* configuration the store holds of every device, and the slave core       *)
(* answers to the address of the first one: no command or DCP2 edit stops  *)
(* half way (apply_config_locked, sync_dcp_i2c_mutation), whatever kills   *)
(* and refused addresses come between.                                     *)
THEOREM RuntimeStaysInStep == NSpec => []RuntimeAgrees
<1>1. RuntimeInv => RuntimeAgrees
  BY DEF RuntimeInv, InStep, RuntimeAgrees
<1> QED BY <1>1, RuntimeStarts, RuntimeKeeps, PTL DEF NSpec
----------------------------------------------------------------------------
(* The configuration store of the FreeRTOS image.                          *)

\* The shapes of the store's variables.
CsTypes ==
    /\ \A p \in DOMAIN files : IsPath(p)
    /\ may = [b \in Buses |-> [s \in Stems |-> may[b][s]]]
    /\ failed = [b \in Buses |-> failed[b]]
    /\ stage \in 0 .. Loaded /\ mounted \in BOOLEAN
    /\ stage = 0 => job = NoJob /\ tried = {}

OfProfile(p) == p[1] \in Buses /\ p[3] \in Stems
Saving == job # NoJob /\ job.kind = "device" /\ job.caller = "save"
SaveDone == job.step = "done" /\ job.ok
\* What the flash has to hold of a profile: until a save has succeeded, what it
\* held before.
Owed(b, s) ==
    IF Saving /\ job.path[1] = b /\ job.path[3] = s /\ ~SaveDone
    THEN job.after[FALSE] ELSE may[b][s]

JobTypes ==
    /\ job.kind \in {"atomic", "device"} /\ job.caller \in {"boot", "save", "copy"}
    /\ job.step \in {"tmp", "unlink", "backup", "retire", "commit", "restore", "done"}
    /\ job.had \in BOOLEAN /\ job.ok \in BOOLEAN
    /\ job = [kind |-> job.kind, path |-> job.path, doc |-> job.doc, step |-> job.step,
              had |-> job.had, caller |-> job.caller, ok |-> job.ok, after |-> job.after]
    /\ IsPath(job.path) /\ job.path[5] = ""
    /\ job.caller = "boot" <=> stage # Loaded
    /\ job.step \in {"unlink", "backup", "retire", "commit"} =>
          tmp \in DOMAIN files /\ files[tmp] = job.doc
    /\ SaveDone => job.path \in DOMAIN files /\ files[job.path] = job.doc

\* A start writes only profiles that are missing, and over a canonical backup
\* only what the backup holds.
AtomicJob ==
    /\ job.step \notin {"backup", "retire", "restore"}
    /\ job.caller # "boot" => job.path[1] = "net"
    /\ OfProfile(job.path) /\ job.step # "done" =>
          /\ job.path \notin DOMAIN files
          /\ job.path[4] = "canon" /\ bak \in DOMAIN files => job.doc = files[bak]

\* A save writes what it says it saves, and the profile it replaces is in its
\* file or, from the rename on, in the backup.
DeviceJob ==
    /\ job.step # "unlink" /\ job.caller # "boot"
    /\ OfProfile(job.path) /\ job.path[4] = "canon"
    /\ job.step \in {"backup", "retire"} \/ (job.step = "tmp" /\ job.had) =>
          job.path \in DOMAIN files
    /\ job.step = "restore" \/ (job.step = "commit" /\ job.had) => job.path \notin DOMAIN files
    /\ LET r == parse_profile(job.doc, job.path[1])
           old == may[job.path[1]][job.path[3]]
           new == IF job.caller = "save" THEN job.after[TRUE] ELSE old
       IN /\ r.ok /\ Effective(r.config) \in new /\ new \subseteq old
          /\ job.caller = "save" => job.after[FALSE] \subseteq old

JobInv == job # NoJob => /\ JobTypes
                         /\ job.kind = "atomic" => AtomicJob
                         /\ job.kind = "device" => DeviceJob

\* No canonical backup stands alone.
Recovered(b) ==
    \A p \in DOMAIN files :
        p[1] = b /\ p[2] \in Dirs /\ p[3] \in Stems /\ p[4] = "canon" /\ p[5] = "bak" =>
            With(p, "") \in DOMAIN files
AfterRecovery(b) == (IF b = "i2c" THEN 3 ELSE 6) .. Len(Stages)
\* Recovery writes what it tried, or gives up the bus.
StartInv ==
    /\ \A b \in Buses : mounted /\ stage \in AfterRecovery(b) /\ ~failed[b] => Recovered(b)
    /\ stage \in {2, 5} =>
          \A p \in tried : /\ p[5] = ""
                           /\ p \in DOMAIN files \/ (job # NoJob /\ job.path = p)

CsInv ==
    /\ CsTypes /\ JobInv /\ StartInv
    /\ \A b \in Buses, s \in Stems : Stored(files, b, s, Owed(b, s))

----------------------------------------------------------------------------
(* Paths and files.                                                        *)

SameProfileFile(p, q) == p[1] = q[1] /\ p[2] = q[2] /\ p[3] = q[3] /\ p[4] = q[4]

\* The parts of a path, and what changing its suffix does.
LEMMA PathFacts ==
    ASSUME NEW p, IsPath(p)
    PROVE  /\ \A x \in {"", "bak", "tmp"} :
                 IsPath(With(p, x)) /\ With(p, x)[5] = x /\ SameProfileFile(With(p, x), p)
           /\ With(p, p[5]) = p
           /\ \A q : IsPath(q) /\ With(p, "") = q /\ p[5] = "bak" => p = With(q, "bak")
           /\ p[5] \in {"", "bak", "tmp"} /\ p[1] \in Buses \cup {"net"}
           /\ p[2] \in Dirs \cup {"smi"} /\ p[3] \in Stems \cup {"network", "initialized"}
           /\ p[4] \in Layouts
<1>1. PICK b \in Buses \cup {"net"}, d \in Dirs \cup {"smi"},
           s \in Stems \cup {"network", "initialized"}, l \in Layouts,
           x \in {"", "bak", "tmp"} : p = <<b, d, s, l, x>>
  BY Zenon DEF IsPath
<1>2. p[1] = b /\ p[2] = d /\ p[3] = s /\ p[4] = l /\ p[5] = x
  BY <1>1
<1>3. ASSUME NEW y \in {"", "bak", "tmp"}
      PROVE  IsPath(With(p, y)) /\ With(p, y)[5] = y /\ SameProfileFile(With(p, y), p)
  <2>1. With(p, y) = <<b, d, s, l, y>>
    BY <1>2, Zenon DEF With
  <2>2. IsPath(<<b, d, s, l, y>>)
    BY Zenon DEF IsPath
  <2>3. /\ <<b, d, s, l, y>>[1] = b /\ <<b, d, s, l, y>>[2] = d /\ <<b, d, s, l, y>>[3] = s
        /\ <<b, d, s, l, y>>[4] = l /\ <<b, d, s, l, y>>[5] = y
    OBVIOUS
  <2> QED BY <1>2, <2>1, <2>2, <2>3, Zenon DEF SameProfileFile
<1>4. ASSUME NEW q, IsPath(q), With(p, "") = q, p[5] = "bak"
      PROVE  p = With(q, "bak")
  <2>1. SameProfileFile(q, p)
    BY <1>3, <1>4
  <2>2. With(q, "bak") = <<b, d, s, l, "bak">>
    BY <1>2, <2>1, Zenon DEF With, SameProfileFile
  <2> QED BY <1>1, <1>2, <1>4, <2>2, Zenon
<1>5. With(p, p[5]) = p
  BY <1>1, <1>2, Zenon DEF With
<1> QED BY <1>2, <1>3, <1>4, <1>5

\* A start has thirteen stages.
LEMMA StageCount == Len(Stages) = 13 /\ Loaded = 14
  BY DEF Stages, Loaded

\* A file counts as long as nothing happens to it and to its profile.
LEMMA StoredStays ==
    ASSUME NEW f, NEW g, NEW b, NEW s, NEW cs, Stored(f, b, s, cs),
           \A p \in DOMAIN f : p[1] = b /\ p[3] = s /\ p[5] \in {"", "bak"} =>
               /\ p \in DOMAIN g /\ g[p] = f[p]
               /\ p[5] = "bak" /\ p[4] = "canon" /\ With(p, "") \notin DOMAIN f =>
                      With(p, "") \notin DOMAIN g
    PROVE  Stored(g, b, s, cs)
<1>1. ASSUME NEW p \in DOMAIN f, Carries(f, p, b, s, cs)
      PROVE  p \in DOMAIN g /\ Carries(g, p, b, s, cs)
  BY <1>1, Zenon DEF Carries
<1> QED BY <1>1, Zenon DEF Stored

\* It counts for every larger set of configurations.
LEMMA StoredMore ==
    ASSUME NEW f, NEW b, NEW s, NEW cs, NEW ds, cs \subseteq ds, Stored(f, b, s, cs)
    PROVE  Stored(f, b, s, ds)
<1>1. ASSUME NEW p \in DOMAIN f, Carries(f, p, b, s, cs)
      PROVE  Carries(f, p, b, s, ds)
  BY <1>1, Zenon DEF Carries
<1>2. ASSUME cs \cap (Default[b][s] \cup {NoProfile}) # {}
      PROVE  ds \cap (Default[b][s] \cup {NoProfile}) # {}
  BY <1>2
<1> QED BY <1>1, <1>2, Zenon DEF Stored

\* A profile that reads as one of the configurations is enough.
LEMMA StoredIn ==
    ASSUME NEW f, NEW p \in DOMAIN f, NEW cs, p[5] = "",
           LET r == parse_profile(f[p], p[1]) IN r.ok /\ Effective(r.config) \in cs
    PROVE  Stored(f, p[1], p[3], cs)
<1>1. Carries(f, p, p[1], p[3], cs)
  BY Zenon DEF Carries
<1> QED BY <1>1, Zenon DEF Stored

\* The three files of the job, and which of them a step may change.
LEMMA JobPaths ==
    ASSUME job # NoJob, JobTypes
    PROVE  /\ IsPath(tmp) /\ IsPath(bak) /\ IsPath(job.path)
           /\ tmp[5] = "tmp" /\ bak[5] = "bak" /\ job.path[5] = ""
           /\ SameProfileFile(tmp, job.path) /\ SameProfileFile(bak, job.path)
           /\ tmp # bak /\ tmp # job.path /\ bak # job.path
<1>1. IsPath(job.path) /\ job.path[5] = ""
  BY DEF JobTypes
<1>2. IsPath(tmp) /\ IsPath(bak) /\ tmp[5] = "tmp" /\ bak[5] = "bak"
      /\ SameProfileFile(tmp, job.path) /\ SameProfileFile(bak, job.path)
  BY <1>1, PathFacts DEF tmp, bak
<1> QED BY <1>1, <1>2

csrest == <<origin, mounted, stage, tried, failed, first, ram, net, crashes, saves, may,
            netmay, fresh>>

\* A step of the writer touches the files of its job only, so it is enough to look
\* at those.
LEMMA Wrote ==
    ASSUME CsInv, job # NoJob, UNCHANGED csrest,
           job' # NoJob, job'.path = job.path, job'.kind = job.kind,
           job'.caller = job.caller, job'.after = job.after,
           DOMAIN files' \subseteq DOMAIN files \cup {job.path, tmp, bak},
           \A p \in DOMAIN files : p \notin {job.path, tmp, bak} =>
               p \in DOMAIN files' /\ files'[p] = files[p],
           job.caller = "boot" =>
               /\ bak \in DOMAIN files' => bak \in DOMAIN files
               /\ OfProfile(job.path) /\ job.path \in DOMAIN files => job.path \in DOMAIN files',
           OfProfile(job.path) => Stored(files', job.path[1], job.path[3],
                                         Owed(job.path[1], job.path[3])'),
           JobInv'
    PROVE  CsInv'
<1>1. CsTypes /\ JobTypes /\ StartInv
  BY DEF CsInv, JobInv
<1>2. /\ IsPath(tmp) /\ IsPath(bak) /\ IsPath(job.path)
      /\ tmp[5] = "tmp" /\ bak[5] = "bak" /\ job.path[5] = ""
      /\ SameProfileFile(tmp, job.path) /\ SameProfileFile(bak, job.path)
      /\ tmp # bak /\ tmp # job.path /\ bak # job.path
  BY <1>1, JobPaths
<1>3. CsTypes'
  <2>1. \A p \in DOMAIN files' : IsPath(p)
    BY <1>1, <1>2 DEF CsTypes
  <2> QED BY <1>1, <2>1, Zenon DEF CsTypes, csrest, Loaded
<1>4. ASSUME NEW b \in Buses, NEW s \in Stems
      PROVE  Stored(files', b, s, Owed(b, s)')
  <2>1. CASE job.path[1] = b /\ job.path[3] = s
    BY <2>1, Zenon DEF OfProfile
  <2>2. CASE ~(job.path[1] = b /\ job.path[3] = s)
    <3>1. Owed(b, s)' = Owed(b, s) /\ Stored(files, b, s, Owed(b, s))
      BY <2>2, Zenon DEF Owed, CsInv, csrest
    <3>2. ASSUME NEW p \in DOMAIN files, p[1] = b, p[3] = s, p[5] \in {"", "bak"}
          PROVE  /\ p \in DOMAIN files' /\ files'[p] = files[p]
                 /\ With(p, "") \notin DOMAIN files => With(p, "") \notin DOMAIN files'
      <4>1. p \notin {job.path, tmp, bak}
        BY <1>2, <2>2, <3>2 DEF SameProfileFile
      <4>2. With(p, "") \notin {job.path, tmp, bak}
        <5>1. IsPath(p)
          BY <1>1 DEF CsTypes
        <5>2. With(p, "")[1] = b /\ With(p, "")[3] = s
          BY <3>2, <5>1, PathFacts DEF SameProfileFile
        <5> QED BY <1>2, <2>2, <5>2 DEF SameProfileFile
      <4> QED BY <4>1, <4>2, Zenon
    <3> QED BY <3>1, <3>2, StoredStays
  <2> QED BY <2>1, <2>2
<1>5. StartInv'
  <2>1. CASE job.caller # "boot"
    <3>1. stage = 14 /\ stage' = 14
      BY <1>1, <2>1, StageCount DEF JobTypes, csrest
    <3>2. stage' \notin {2, 5} /\ \A b \in Buses : stage' \notin AfterRecovery(b)'
      BY <3>1, StageCount DEF AfterRecovery
    <3> QED BY <3>2, Zenon DEF StartInv
  <2>2. CASE job.caller = "boot"
    <3>1. ASSUME NEW b \in Buses, Recovered(b)
          PROVE  Recovered(b)'
      <4> SUFFICES ASSUME NEW p \in DOMAIN files', p[1] = b, p[2] \in Dirs, p[3] \in Stems,
                          p[4] = "canon", p[5] = "bak"
                   PROVE  With(p, "") \in DOMAIN files'
        BY DEF Recovered
      <4>1. p \in DOMAIN files /\ IsPath(p)
        BY <1>1, <1>2, <2>2, <1>3 DEF CsTypes
      <4>2. With(p, "") \in DOMAIN files
        BY <3>1, <4>1, Zenon DEF Recovered
      <4>3. With(p, "")[1] = b /\ With(p, "")[3] = p[3] /\ With(p, "")[5] = ""
        BY <4>1, PathFacts DEF SameProfileFile
      <4>4. CASE With(p, "") = job.path
        <5>1. OfProfile(job.path)
          BY <4>3, <4>4 DEF OfProfile
        <5> QED BY <2>2, <4>2, <4>4, <5>1, Zenon
      <4>5. CASE With(p, "") # job.path
        BY <1>2, <4>2, <4>3, <4>5
      <4> QED BY <4>4, <4>5
    <3>2. ASSUME NEW p \in tried, p[5] = "",
                 p \in DOMAIN files \/ (job # NoJob /\ job.path = p)
          PROVE  p \in DOMAIN files' \/ (job' # NoJob /\ job'.path = p)
      BY <1>2, <3>2
    <3> QED BY <1>1, <3>1, <3>2, Zenon DEF StartInv, AfterRecovery, csrest
  <2> QED BY <2>1, <2>2
<1> QED BY <1>3, <1>4, <1>5, Zenon DEF CsInv

\* The fields a step of the writer leaves alone.
SameJob ==
    /\ job'.kind = job.kind /\ job'.path = job.path /\ job'.doc = job.doc
    /\ job'.had = job.had /\ job'.caller = job.caller /\ job'.after = job.after
    /\ job' # NoJob
    /\ job' = [kind |-> job'.kind, path |-> job'.path, doc |-> job'.doc, step |-> job'.step,
               had |-> job'.had, caller |-> job'.caller, ok |-> job'.ok, after |-> job'.after]

\* A step that goes on changes the step of the job only.
LEMMA StepIs ==
    ASSUME JobTypes, NEW s, Step(s)
    PROVE  SameJob /\ job'.step = s /\ job'.ok = job.ok
<1> DEFINE k == job.kind
           p == job.path
           d == job.doc
           h == job.had
           c == job.caller
           o == job.ok
           a == job.after
           st == job.step
<1>1. job = [kind |-> k, path |-> p, doc |-> d, step |-> st, had |-> h, caller |-> c,
             ok |-> o, after |-> a] /\ k \in {"atomic", "device"}
  BY Zenon DEF JobTypes
<1>2. job' = [job EXCEPT !.step = s]
  BY DEF Step
<1> HIDE DEF k, p, d, h, c, o, a, st
<1>3. job' = [kind |-> k, path |-> p, doc |-> d, step |-> s, had |-> h, caller |-> c,
              ok |-> o, after |-> a]
  BY <1>1, <1>2
<1>4. /\ job'.kind = k /\ job'.path = p /\ job'.doc = d /\ job'.step = s /\ job'.had = h
      /\ job'.caller = c /\ job'.ok = o /\ job'.after = a
  BY <1>3
<1>5. job' # NoJob
  BY <1>1, <1>4 DEF NoJob
<1> QED BY <1>3, <1>4, <1>5, Zenon DEF SameJob, k, p, d, h, c, o, a

\* A step that ends the job records how it ended.
LEMMA JobDoneIs ==
    ASSUME JobTypes, NEW good \in BOOLEAN, JobDone(good)
    PROVE  SameJob /\ job'.step = "done" /\ job'.ok = good
<1> DEFINE k == job.kind
           p == job.path
           d == job.doc
           h == job.had
           c == job.caller
           o == job.ok
           a == job.after
           st == job.step
<1>1. job = [kind |-> k, path |-> p, doc |-> d, step |-> st, had |-> h, caller |-> c,
             ok |-> o, after |-> a] /\ k \in {"atomic", "device"}
  BY Zenon DEF JobTypes
<1>2. job' = [job EXCEPT !.step = "done", !.ok = good]
  BY DEF JobDone
<1> HIDE DEF k, p, d, h, c, o, a, st
<1>3. job' = [kind |-> k, path |-> p, doc |-> d, step |-> "done", had |-> h, caller |-> c,
              ok |-> good, after |-> a]
  BY <1>1, <1>2
<1>4. /\ job'.kind = k /\ job'.path = p /\ job'.doc = d /\ job'.step = "done" /\ job'.had = h
      /\ job'.caller = c /\ job'.ok = good /\ job'.after = a
  BY <1>3
<1>5. job' # NoJob
  BY <1>1, <1>4 DEF NoJob
<1> QED BY <1>3, <1>4, <1>5, Zenon DEF SameJob, k, p, d, h, c, a

\* Where a step of the writer leads, as far as the job goes.
Proceeds ==
    /\ SameJob /\ job'.ok \in BOOLEAN
    /\ job'.step \in {"tmp", "unlink", "backup", "retire", "commit", "restore", "done"}
    /\ job'.step \in {"unlink", "backup", "retire", "commit"} =>
          tmp \in DOMAIN files' /\ files'[tmp] = job.doc
    /\ job'.step = "done" /\ job'.ok =>
          job.path \in DOMAIN files' /\ files'[job.path] = job.doc
    /\ job.kind = "atomic" =>
          /\ job'.step \notin {"backup", "retire", "restore"}
          /\ OfProfile(job.path) /\ job'.step # "done" =>
                /\ job.path \notin DOMAIN files'
                /\ job.path[4] = "canon" /\ bak \in DOMAIN files' => job.doc = files'[bak]
    /\ job.kind = "device" =>
          /\ job'.step # "unlink"
          /\ job'.step \in {"backup", "retire"} \/ (job'.step = "tmp" /\ job.had) =>
                job.path \in DOMAIN files'
          /\ job'.step = "restore" \/ (job'.step = "commit" /\ job.had) =>
                job.path \notin DOMAIN files'

\* A step that fits the kind of the job leaves a job of the right form.
LEMMA JobProceeds ==
    ASSUME CsInv, job # NoJob, UNCHANGED csrest, Proceeds
    PROVE  JobInv'
<1>1. JobTypes /\ (job.kind = "atomic" => AtomicJob) /\ (job.kind = "device" => DeviceJob)
  BY Zenon DEF CsInv, JobInv
<1>2. stage' = stage /\ may' = may /\ tmp' = tmp /\ bak' = bak /\ job'.path = job.path
  BY DEF Proceeds, SameJob, csrest, tmp, bak
<1>3. JobTypes'
  <2>1. (job'.caller = "boot") <=> (stage' # Loaded)
    BY <1>1, <1>2, Zenon DEF Proceeds, SameJob, JobTypes
  <2>2. /\ job'.kind \in {"atomic", "device"} /\ job'.caller \in {"boot", "save", "copy"}
        /\ job'.had \in BOOLEAN /\ job'.ok \in BOOLEAN /\ IsPath(job'.path)
        /\ job'.path[5] = ""
    BY <1>1, Zenon DEF Proceeds, SameJob, JobTypes
  <2>3. Loaded' = Loaded
    BY DEF Loaded, Stages
  <2>4. /\ job'.step \in {"unlink", "backup", "retire", "commit"} =>
              tmp' \in DOMAIN files' /\ files'[tmp'] = job'.doc
        /\ (SaveDone)' => job'.path \in DOMAIN files' /\ files'[job'.path] = job'.doc
    BY <1>2, Zenon DEF Proceeds, SameJob, SaveDone
  <2> QED BY <2>1, <2>2, <2>3, <2>4, Zenon DEF Proceeds, SameJob, JobTypes
<1>4. ASSUME job'.kind = "atomic" PROVE AtomicJob'
  <2>1. job.kind = "atomic" /\ AtomicJob
    BY <1>1, <1>4, Zenon DEF Proceeds, SameJob
  <2> QED BY <1>2, <2>1, Zenon DEF Proceeds, SameJob, AtomicJob, OfProfile
<1>5. ASSUME job'.kind = "device" PROVE DeviceJob'
  <2>1. job.kind = "device" /\ DeviceJob
    BY <1>1, <1>5, Zenon DEF Proceeds, SameJob
  <2> QED BY <1>2, <2>1, Zenon DEF Proceeds, SameJob, DeviceJob, OfProfile
<1> QED BY <1>3, <1>4, <1>5, Zenon DEF JobInv

\* Where the profile of the job is kept, if it is: not in the temporary file, in
\* the backup only while the profile is missing.
LEMMA JobWitness ==
    ASSUME CsInv, job # NoJob, OfProfile(job.path), job.path[4] = "canon",
           NEW p \in DOMAIN files, NEW cs, Carries(files, p, job.path[1], job.path[3], cs)
    PROVE  /\ p # tmp
           /\ p = bak => job.path \notin DOMAIN files
           /\ p[5] = "bak" /\ With(p, "") = job.path => p = bak
           /\ IsPath(p)
<1>1. JobTypes /\ IsPath(p)
  BY Zenon DEF CsInv, JobInv, CsTypes
<1>2. IsPath(bak) /\ tmp[5] = "tmp" /\ bak[5] = "bak" /\ job.path[5] = "" /\ IsPath(job.path)
      /\ SameProfileFile(bak, job.path)
  BY <1>1, JobPaths
<1>3. p[5] \in {"", "bak"} /\ (p[5] = "bak" /\ p[4] = "canon" => With(p, "") \notin DOMAIN files)
  BY Zenon DEF Carries
<1>4. ASSUME p[5] = "bak", With(p, "") = job.path PROVE p = bak
  <2>1. \A q : IsPath(q) /\ With(p, "") = q /\ p[5] = "bak" => p = With(q, "bak")
    BY <1>1, PathFacts, Zenon
  <2> QED BY <1>2, <1>4, <2>1, Zenon DEF bak
<1>5. ASSUME p = bak PROVE job.path \notin DOMAIN files
  <2>1. IsPath(With(bak, "")) /\ With(bak, "")[5] = "" /\ SameProfileFile(With(bak, ""), bak)
    BY <1>2, PathFacts
  <2>2. With(bak, "") = job.path
    <3>1. job.path = With(job.path, "")
      <4>1. With(job.path, job.path[5]) = job.path
        BY <1>2, PathFacts, Zenon
      <4> QED BY <1>2, <4>1
    <3>2. With(bak, "") = With(job.path, "")
      BY <1>2, Zenon DEF With, SameProfileFile
    <3> QED BY <3>1, <3>2
  <2>3. p[4] = "canon"
    BY <1>2, <1>5, Zenon DEF SameProfileFile
  <2> QED BY <1>2, <1>3, <1>5, <2>2, <2>3, Zenon
<1> QED BY <1>1, <1>2, <1>3, <1>4, <1>5

\* A step that does not finish a save.
LEMMA StepKeeps ==
    ASSUME CsInv, job # NoJob, job.step # "done", UNCHANGED csrest, Proceeds,
           job'.step = "done" => ~job'.ok,
           DOMAIN files' \subseteq DOMAIN files \cup {job.path, tmp, bak},
           \A p \in DOMAIN files : p \notin {job.path, tmp, bak} =>
               p \in DOMAIN files' /\ files'[p] = files[p],
           job.caller = "boot" =>
               /\ bak \in DOMAIN files' => bak \in DOMAIN files
               /\ OfProfile(job.path) /\ job.path \in DOMAIN files => job.path \in DOMAIN files',
           \A cs : OfProfile(job.path) /\ Stored(files, job.path[1], job.path[3], cs) =>
               Stored(files', job.path[1], job.path[3], cs)
    PROVE  CsInv'
<1>1. job' # NoJob /\ job'.path = job.path /\ job'.kind = job.kind /\ job'.caller = job.caller
      /\ job'.after = job.after /\ job'.ok \in BOOLEAN
  BY Zenon DEF Proceeds, SameJob
<1>2. JobInv'
  BY JobProceeds
<1>3. ASSUME OfProfile(job.path)
      PROVE  Stored(files', job.path[1], job.path[3], Owed(job.path[1], job.path[3])')
  <2>1. ~SaveDone /\ ~SaveDone' /\ may' = may
    BY <1>1 DEF SaveDone, csrest
  <2>2. Owed(job.path[1], job.path[3])' = Owed(job.path[1], job.path[3])
    <3>1. Saving' <=> Saving
      BY <1>1, Zenon DEF Saving
    <3> QED BY <1>1, <2>1, <3>1 DEF Owed
  <2>3. Stored(files, job.path[1], job.path[3], Owed(job.path[1], job.path[3]))
    BY <1>3, Zenon DEF CsInv, OfProfile
  <2> QED BY <1>3, <2>2, <2>3, Zenon
<1> QED BY <1>1, <1>2, <1>3, Wrote

\* What the invariant says of the file being written.
LEMMA WriterFacts ==
    ASSUME CsInv, job # NoJob
    PROVE  /\ JobTypes /\ (job.kind = "atomic" => AtomicJob) /\ (job.kind = "device" => DeviceJob)
           /\ tmp[5] = "tmp" /\ bak[5] = "bak" /\ job.path[5] = ""
           /\ tmp # bak /\ tmp # job.path /\ bak # job.path
           /\ \A p \in DOMAIN files : IsPath(p)
           /\ tmp' = With(job'.path, "tmp") /\ bak' = With(job'.path, "bak")
<1>1. JobTypes /\ (job.kind = "atomic" => AtomicJob) /\ (job.kind = "device" => DeviceJob)
      /\ \A p \in DOMAIN files : IsPath(p)
  BY Zenon DEF CsInv, JobInv, CsTypes
<1> QED BY <1>1, JobPaths DEF tmp, bak

\* Everything but the temporary file stays.
LEMMA TmpOnly ==
    ASSUME CsInv, job # NoJob, job.step # "done", UNCHANGED csrest, Proceeds,
           job'.step = "done" => ~job'.ok,
           DOMAIN files' \subseteq DOMAIN files \cup {tmp},
           \A p \in DOMAIN files : p # tmp => p \in DOMAIN files' /\ files'[p] = files[p]
    PROVE  CsInv'
<1>1. /\ tmp[5] = "tmp" /\ bak[5] = "bak" /\ job.path[5] = ""
      /\ tmp # bak /\ tmp # job.path /\ bak # job.path
      /\ \A p \in DOMAIN files : IsPath(p)
  BY WriterFacts
<1>2. ASSUME NEW cs, Stored(files, job.path[1], job.path[3], cs)
      PROVE  Stored(files', job.path[1], job.path[3], cs)
  <2>1. ASSUME NEW p \in DOMAIN files, p[5] \in {"", "bak"}
        PROVE  /\ p \in DOMAIN files' /\ files'[p] = files[p]
               /\ With(p, "") \notin DOMAIN files => With(p, "") \notin DOMAIN files'
    <3>1. With(p, "")[5] = ""
      BY DEF With
    <3>2. p # tmp /\ With(p, "") # tmp
      BY <1>1, <2>1, <3>1
    <3> QED BY <3>2
  <2>2. \A p \in DOMAIN files :
            p[1] = job.path[1] /\ p[3] = job.path[3] /\ p[5] \in {"", "bak"} =>
               /\ p \in DOMAIN files' /\ files'[p] = files[p]
               /\ p[5] = "bak" /\ p[4] = "canon" /\ With(p, "") \notin DOMAIN files =>
                      With(p, "") \notin DOMAIN files'
    BY <2>1, Zenon
  <2> QED BY <1>2, <2>2, StoredStays, Zenon
<1>3. /\ DOMAIN files' \subseteq DOMAIN files \cup {job.path, tmp, bak}
      /\ \A p \in DOMAIN files : p \notin {job.path, tmp, bak} =>
            p \in DOMAIN files' /\ files'[p] = files[p]
      /\ bak \in DOMAIN files' => bak \in DOMAIN files
      /\ job.path \in DOMAIN files => job.path \in DOMAIN files'
  BY <1>1
<1> QED BY <1>2, <1>3, StepKeeps

\* write_device_file and write_file_atomic: the temporary file.
LEMMA WriteTmpKeeps == ASSUME CsInv, WriteTmp, UNCHANGED csrest PROVE CsInv'
<1>1. job # NoJob /\ job.step = "tmp"
  BY DEF WriteTmp, Writing
<1>2. /\ JobTypes /\ (job.kind = "atomic" => AtomicJob) /\ (job.kind = "device" => DeviceJob)
      /\ tmp[5] = "tmp" /\ bak[5] = "bak" /\ job.path[5] = ""
      /\ tmp # bak /\ tmp # job.path /\ bak # job.path
  BY <1>1, WriterFacts
<1>3. CASE /\ files' = Put(files, tmp, job.doc)
           /\ Step(IF job.kind = "atomic" THEN "unlink"
                   ELSE IF job.had THEN "backup" ELSE "commit")
  <2>1. /\ DOMAIN files' = DOMAIN files \cup {tmp} /\ files'[tmp] = job.doc
        /\ \A q \in DOMAIN files : q # tmp => files'[q] = files[q]
    BY <1>3 DEF Put
  <2>2. /\ SameJob /\ job'.ok = job.ok /\ job.ok \in BOOLEAN /\ job.kind \in {"atomic", "device"}
        /\ job'.step = IF job.kind = "atomic" THEN "unlink"
                       ELSE IF job.had THEN "backup" ELSE "commit"
    BY <1>2, <1>3, StepIs DEF JobTypes
  <2>3. Proceeds
    <3>1. CASE job.kind = "atomic"
      BY <1>1, <1>2, <2>1, <2>2, <3>1 DEF Proceeds, AtomicJob
    <3>2. CASE job.kind = "device"
      BY <1>1, <1>2, <2>1, <2>2, <3>2 DEF Proceeds, DeviceJob
    <3> QED BY <2>2, <3>1, <3>2
  <2>4. job'.step # "done"
    BY <2>2
  <2> QED BY <1>1, <2>1, <2>3, <2>4, TmpOnly
<1>4. CASE /\ JobDone(FALSE)
           /\ files' = IF job.kind = "atomic" THEN Without(files, tmp)
                                              ELSE Put(files, tmp, Torn)
  <2>1. /\ DOMAIN files' \subseteq DOMAIN files \cup {tmp}
        /\ \A q \in DOMAIN files : q # tmp => q \in DOMAIN files' /\ files'[q] = files[q]
    BY <1>4 DEF Put, Without
  <2>2. SameJob /\ job'.ok = FALSE /\ job'.step = "done"
    BY <1>2, <1>4, JobDoneIs
  <2>3. Proceeds
    BY <2>2 DEF Proceeds
  <2> QED BY <1>1, <2>1, <2>2, <2>3, TmpOnly
<1> QED BY <1>3, <1>4 DEF WriteTmp

\* f_unlink before the rename: only files that are no profiles exist there.
LEMMA UnlinkOldKeeps == ASSUME CsInv, UnlinkOld, UNCHANGED csrest PROVE CsInv'
<1>1. job # NoJob /\ job.step = "unlink" /\ Step("commit")
  BY DEF UnlinkOld, Writing
<1>2. /\ JobTypes /\ (job.kind = "atomic" => AtomicJob) /\ (job.kind = "device" => DeviceJob)
      /\ tmp[5] = "tmp" /\ bak[5] = "bak" /\ job.path[5] = ""
      /\ tmp # bak /\ tmp # job.path /\ bak # job.path
  BY <1>1, WriterFacts
<1>3. job.kind = "atomic" /\ AtomicJob
  BY <1>1, <1>2 DEF DeviceJob, JobTypes
<1>4. /\ DOMAIN files' \subseteq DOMAIN files
      /\ \A q \in DOMAIN files : q # job.path => q \in DOMAIN files' /\ files'[q] = files[q]
  <2>1. CASE files' = Without(files, job.path)
    BY <2>1 DEF Without
  <2>2. CASE files' = files
    BY <2>2
  <2> QED BY <2>1, <2>2 DEF UnlinkOld
<1>5. OfProfile(job.path) => job.path \notin DOMAIN files
  BY <1>1, <1>3 DEF AtomicJob
<1>6. SameJob /\ job'.step = "commit" /\ job'.ok = job.ok
  BY <1>1, <1>2, StepIs
<1>7. tmp \in DOMAIN files' /\ files'[tmp] = job.doc
  BY <1>1, <1>2, <1>4 DEF JobTypes
<1>8. Proceeds
  BY <1>1, <1>2, <1>3, <1>4, <1>5, <1>6, <1>7 DEF Proceeds, AtomicJob, JobTypes
<1>9. ASSUME NEW cs, OfProfile(job.path), Stored(files, job.path[1], job.path[3], cs)
      PROVE  Stored(files', job.path[1], job.path[3], cs)
  <2>1. \A p \in DOMAIN files : p \in DOMAIN files' /\ files'[p] = files[p]
    BY <1>4, <1>5, <1>9
  <2> QED BY <1>4, <1>9, <2>1, StoredStays
<1>10. /\ DOMAIN files' \subseteq DOMAIN files \cup {job.path, tmp, bak}
       /\ \A p \in DOMAIN files : p \notin {job.path, tmp, bak} =>
            p \in DOMAIN files' /\ files'[p] = files[p]
       /\ bak \in DOMAIN files' => bak \in DOMAIN files
       /\ OfProfile(job.path) /\ job.path \in DOMAIN files => job.path \in DOMAIN files'
  BY <1>4, <1>5
<1> QED BY <1>1, <1>6, <1>8, <1>9, <1>10, StepKeeps

\* The backup belongs to the profile that is written.
LEMMA BakOf ==
    ASSUME JobTypes
    PROVE  bak[1] = job.path[1] /\ bak[3] = job.path[3] /\ bak[5] = "bak" /\ bak[4] = job.path[4]
           /\ With(bak, "") = job.path
<1> DEFINE p == job.path
<1>1. IsPath(p) /\ p[5] = ""
  BY DEF JobTypes
<1> HIDE DEF p
<1>2. With(p, p[5]) = p
  BY <1>1, PathFacts, Zenon
<1>3. With(With(p, "bak"), "") = With(p, "")
  BY DEF With
<1>4. LET q == With(p, "bak") IN q[1] = p[1] /\ q[3] = p[3] /\ q[5] = "bak" /\ q[4] = p[4]
  BY DEF With
<1> QED BY <1>1, <1>2, <1>3, <1>4 DEF bak, p

\* The steps that only a save makes: the backup of an earlier save goes while the
\* profile is in place, and the profile moves into it.
LEMMA DropBackupKeeps == ASSUME CsInv, DropBackup, UNCHANGED csrest PROVE CsInv'
<1>1. job # NoJob /\ job.step = "backup"
  BY DEF DropBackup, Writing
<1>2. /\ JobTypes /\ (job.kind = "atomic" => AtomicJob) /\ (job.kind = "device" => DeviceJob)
      /\ tmp[5] = "tmp" /\ bak[5] = "bak" /\ job.path[5] = ""
      /\ tmp # bak /\ tmp # job.path /\ bak # job.path
  BY <1>1, WriterFacts
<1>3. job.kind = "device" /\ DeviceJob
  BY <1>1, <1>2 DEF AtomicJob, JobTypes
<1>4. /\ OfProfile(job.path) /\ job.path[4] = "canon" /\ job.path \in DOMAIN files
      /\ job.caller # "boot" /\ job.kind # "atomic"
  BY <1>1, <1>3 DEF DeviceJob
<1>5. CASE files' = Without(files, bak) /\ Step("retire")
  <2>1. /\ DOMAIN files' = DOMAIN files \ {bak}
        /\ \A q \in DOMAIN files : q # bak => q \in DOMAIN files' /\ files'[q] = files[q]
    BY <1>5 DEF Without
  <2>2. SameJob /\ job'.step = "retire" /\ job'.ok = job.ok
    BY <1>2, <1>5, StepIs
  <2>3. tmp \in DOMAIN files' /\ files'[tmp] = job.doc
    BY <1>1, <1>2, <2>1 DEF JobTypes
  <2>4. Proceeds
    BY <1>2, <1>4, <2>1, <2>2, <2>3 DEF Proceeds, JobTypes
  <2>5. ASSUME NEW cs, Stored(files, job.path[1], job.path[3], cs)
        PROVE  Stored(files', job.path[1], job.path[3], cs)
    <3>1. ASSUME NEW p \in DOMAIN files, Carries(files, p, job.path[1], job.path[3], cs)
          PROVE  p \in DOMAIN files' /\ Carries(files', p, job.path[1], job.path[3], cs)
      <4>1. p # bak
        BY <1>1, <1>4, <3>1, JobWitness
      <4>2. p \in DOMAIN files' /\ files'[p] = files[p]
        BY <2>1, <4>1
      <4>3. With(p, "") \notin DOMAIN files => With(p, "") \notin DOMAIN files'
        BY <2>1
      <4> QED BY <3>1, <4>2, <4>3, Zenon DEF Carries
    <3> QED BY <2>5, <3>1, Zenon DEF Stored
  <2>6. /\ DOMAIN files' \subseteq DOMAIN files \cup {job.path, tmp, bak}
        /\ \A p \in DOMAIN files : p \notin {job.path, tmp, bak} =>
              p \in DOMAIN files' /\ files'[p] = files[p]
    BY <2>1
  <2>7. job'.step # "done" /\ job.step # "done"
    BY <1>1, <2>2
  <2> QED BY <1>1, <1>4, <2>4, <2>5, <2>6, <2>7, StepKeeps
<1>6. CASE JobDone(FALSE) /\ files' = files
  <2>1. SameJob /\ job'.ok = FALSE /\ job'.step = "done"
    BY <1>2, <1>6, JobDoneIs
  <2>2. Proceeds
    BY <2>1 DEF Proceeds
  <2> QED BY <1>1, <1>6, <2>1, <2>2, TmpOnly
<1> QED BY <1>5, <1>6 DEF DropBackup

\* f_rename of the old profile to the backup: the profile is in the one or the other.
LEMMA RetireKeeps == ASSUME CsInv, Retire, UNCHANGED csrest PROVE CsInv'
<1>1. job # NoJob /\ job.step = "retire"
  BY DEF Retire, Writing
<1>2. /\ JobTypes /\ (job.kind = "atomic" => AtomicJob) /\ (job.kind = "device" => DeviceJob)
      /\ tmp[5] = "tmp" /\ bak[5] = "bak" /\ job.path[5] = ""
      /\ tmp # bak /\ tmp # job.path /\ bak # job.path
  BY <1>1, WriterFacts
<1>3. job.kind = "device" /\ DeviceJob
  BY <1>1, <1>2 DEF AtomicJob, JobTypes
<1>4. /\ OfProfile(job.path) /\ job.path[4] = "canon" /\ job.path \in DOMAIN files
      /\ job.caller # "boot" /\ job.kind # "atomic"
  BY <1>1, <1>3 DEF DeviceJob
<1>5. CASE files' = Rename(files, job.path, bak) /\ Step("commit")
  <2>1. /\ DOMAIN files' = (DOMAIN files \cup {bak}) \ {job.path}
        /\ files'[bak] = files[job.path]
        /\ \A q \in DOMAIN files : q \notin {bak, job.path} =>
              q \in DOMAIN files' /\ files'[q] = files[q]
    BY <1>2, <1>5 DEF Rename, Without, Put
  <2>2. SameJob /\ job'.step = "commit" /\ job'.ok = job.ok
    BY <1>2, <1>5, StepIs
  <2>3. tmp \in DOMAIN files' /\ files'[tmp] = job.doc
    BY <1>1, <1>2, <2>1 DEF JobTypes
  <2>4. Proceeds
    BY <1>2, <1>4, <2>1, <2>2, <2>3 DEF Proceeds, JobTypes
  <2>5. ASSUME NEW cs, Stored(files, job.path[1], job.path[3], cs)
        PROVE  Stored(files', job.path[1], job.path[3], cs)
    <3>1. ASSUME NEW p \in DOMAIN files, Carries(files, p, job.path[1], job.path[3], cs)
          PROVE  \E q \in DOMAIN files' : Carries(files', q, job.path[1], job.path[3], cs)
      <4>1. p # bak
        BY <1>1, <1>4, <3>1, JobWitness
      <4>2. CASE p = job.path
        <5>1. bak \in DOMAIN files' /\ files'[bak] = files[p]
          BY <2>1, <4>2, <1>2
        <5>2. bak[1] = job.path[1] /\ bak[3] = job.path[3] /\ bak[5] = "bak"
              /\ With(bak, "") = job.path
          BY <1>2, BakOf
        <5>3. With(bak, "") \notin DOMAIN files'
          BY <2>1, <5>2
        <5> QED BY <3>1, <4>2, <5>1, <5>2, <5>3, Zenon DEF Carries
      <4>3. CASE p # job.path
        <5>1. p \in DOMAIN files' /\ files'[p] = files[p]
          BY <2>1, <4>1, <4>3
        <5>2. With(p, "")[5] = ""
          BY DEF With
        <5>3. With(p, "") \notin DOMAIN files => With(p, "") \notin DOMAIN files'
          BY <1>2, <2>1, <5>2
        <5> QED BY <3>1, <5>1, <5>3, Zenon DEF Carries
      <4> QED BY <4>2, <4>3
    <3> QED BY <2>5, <3>1, Zenon DEF Stored
  <2>6. /\ DOMAIN files' \subseteq DOMAIN files \cup {job.path, tmp, bak}
        /\ \A p \in DOMAIN files : p \notin {job.path, tmp, bak} =>
              p \in DOMAIN files' /\ files'[p] = files[p]
    BY <2>1
  <2>7. job'.step # "done" /\ job.step # "done"
    BY <1>1, <2>2
  <2> QED BY <1>1, <1>4, <2>4, <2>5, <2>6, <2>7, StepKeeps
<1>6. CASE JobDone(FALSE) /\ files' = files
  <2>1. SameJob /\ job'.ok = FALSE /\ job'.step = "done"
    BY <1>2, <1>6, JobDoneIs
  <2>2. Proceeds
    BY <2>1 DEF Proceeds
  <2> QED BY <1>1, <1>6, <2>1, <2>2, TmpOnly
<1> QED BY <1>5, <1>6 DEF Retire

\* The profile that could not be replaced comes back from the backup.
LEMMA RestoreKeeps == ASSUME CsInv, Restore, UNCHANGED csrest PROVE CsInv'
<1>1. job # NoJob /\ job.step = "restore" /\ JobDone(FALSE)
  BY DEF Restore, Writing
<1>2. /\ JobTypes /\ (job.kind = "atomic" => AtomicJob) /\ (job.kind = "device" => DeviceJob)
      /\ tmp[5] = "tmp" /\ bak[5] = "bak" /\ job.path[5] = ""
      /\ tmp # bak /\ tmp # job.path /\ bak # job.path
  BY <1>1, WriterFacts
<1>3. job.kind = "device" /\ DeviceJob
  BY <1>1, <1>2 DEF AtomicJob, JobTypes
<1>4. /\ OfProfile(job.path) /\ job.path[4] = "canon" /\ job.path \notin DOMAIN files
      /\ job.caller # "boot" /\ job.kind # "atomic"
  BY <1>1, <1>3 DEF DeviceJob
<1>5. SameJob /\ job'.ok = FALSE /\ job'.step = "done"
  BY <1>1, <1>2, JobDoneIs
<1>6. Proceeds
  BY <1>5 DEF Proceeds
<1>7. CASE files' = files
  BY <1>1, <1>5, <1>6, <1>7, TmpOnly
<1>8. CASE files' = Rename(files, bak, job.path)
  <2>1. /\ DOMAIN files' = (DOMAIN files \cup {job.path}) \ {bak}
        /\ files'[job.path] = files[bak]
        /\ \A q \in DOMAIN files : q \notin {bak, job.path} =>
              q \in DOMAIN files' /\ files'[q] = files[q]
    BY <1>2, <1>8 DEF Rename, Without, Put
  <2>2. ASSUME NEW cs, Stored(files, job.path[1], job.path[3], cs)
        PROVE  Stored(files', job.path[1], job.path[3], cs)
    <3>1. ASSUME NEW p \in DOMAIN files, Carries(files, p, job.path[1], job.path[3], cs)
          PROVE  \E q \in DOMAIN files' : Carries(files', q, job.path[1], job.path[3], cs)
      <4>1. CASE p = bak
        <5>1. job.path \in DOMAIN files' /\ files'[job.path] = files[p]
          BY <1>2, <2>1, <4>1
        <5>2. job.path[5] # "bak" /\ job.path[5] \in {"", "bak"}
          BY <1>2
        <5> QED BY <3>1, <5>1, <5>2, Zenon DEF Carries
      <4>2. CASE p # bak
        <5>1. p \in DOMAIN files' /\ files'[p] = files[p]
          BY <1>4, <2>1, <4>2
        <5>2. p[5] = "bak" => With(p, "") # job.path
          BY <1>1, <1>4, <3>1, <4>2, JobWitness
        <5>3. p[5] = "bak" /\ With(p, "") \notin DOMAIN files => With(p, "") \notin DOMAIN files'
          BY <2>1, <5>2
        <5> QED BY <3>1, <5>1, <5>3, Zenon DEF Carries
      <4> QED BY <4>1, <4>2
    <3> QED BY <2>2, <3>1, Zenon DEF Stored
  <2>3. /\ DOMAIN files' \subseteq DOMAIN files \cup {job.path, tmp, bak}
        /\ \A p \in DOMAIN files : p \notin {job.path, tmp, bak} =>
              p \in DOMAIN files' /\ files'[p] = files[p]
    BY <2>1
  <2> QED BY <1>1, <1>4, <1>5, <1>6, <2>2, <2>3, StepKeeps
<1> QED BY <1>7, <1>8 DEF Restore

\* The rename that makes the new file the profile.
LEMMA CommitStores ==
    ASSUME CsInv, job # NoJob, job.step = "commit", job.path \notin DOMAIN files,
           OfProfile(job.path), UNCHANGED csrest, SameJob, job'.step = "done", job'.ok = TRUE,
           DOMAIN files' = (DOMAIN files \cup {job.path}) \ {tmp},
           files'[job.path] = job.doc,
           \A q \in DOMAIN files : q \notin {tmp, job.path} =>
               q \in DOMAIN files' /\ files'[q] = files[q]
    PROVE  Stored(files', job.path[1], job.path[3], Owed(job.path[1], job.path[3])')
<1> DEFINE now == may[job.path[1]][job.path[3]]
<1>1. /\ JobTypes /\ (job.kind = "atomic" => AtomicJob) /\ (job.kind = "device" => DeviceJob)
      /\ tmp[5] = "tmp" /\ bak[5] = "bak" /\ job.path[5] = ""
      /\ tmp # bak /\ tmp # job.path /\ bak # job.path
  BY WriterFacts
<1>2. Owed(job.path[1], job.path[3])' = now
  <2>1. SaveDone' /\ may' = may /\ job'.path = job.path
    BY DEF SaveDone, csrest, SameJob
  <2> QED BY <2>1 DEF Owed
<1>3. job.path \in DOMAIN files'
  BY <1>1
<1>4. CASE job.kind = "device"
  <2>1. LET r == parse_profile(job.doc, job.path[1]) IN r.ok /\ Effective(r.config) \in now
    BY <1>1, <1>4 DEF DeviceJob
  <2> HIDE DEF now
  <2>2. Stored(files', job.path[1], job.path[3], now)
    BY <1>1, <1>3, <2>1, StoredIn
  <2> QED BY <1>2, <2>2
<1>5. CASE job.kind = "atomic"
  <2>1. AtomicJob /\ (job.path[4] = "canon" /\ bak \in DOMAIN files => job.doc = files[bak])
    BY <1>1, <1>5 DEF AtomicJob
  <2>2. Stored(files, job.path[1], job.path[3], now)
    <3>1. Owed(job.path[1], job.path[3]) = now
      BY <1>5 DEF Owed, Saving
    <3>2. Stored(files, job.path[1], job.path[3], Owed(job.path[1], job.path[3]))
      BY Zenon DEF CsInv, OfProfile
    <3> QED BY <3>1, <3>2
  <2> HIDE DEF now
  <2>3. ASSUME NEW p \in DOMAIN files, Carries(files, p, job.path[1], job.path[3], now)
        PROVE  \E q \in DOMAIN files' : Carries(files', q, job.path[1], job.path[3], now)
    <3>1. p # tmp /\ p # job.path /\ p \in DOMAIN files' /\ files'[p] = files[p]
      <4>1. p[5] \in {"", "bak"}
        BY <2>3, Zenon DEF Carries
      <4>2. p # tmp
        BY <1>1, <4>1
      <4> QED BY <4>2
    <3>2. With(p, "")[4] = p[4] /\ With(p, "")[5] = ""
      BY DEF With
    <3>3. CASE p[5] = "bak" /\ p[4] = "canon" /\ With(p, "") = job.path
      <4>1. job.path[4] = "canon"
        BY <3>2, <3>3
      <4>2. p = bak
        BY <2>3, <3>3, <4>1, JobWitness
      <4>3. files'[job.path] = files[p]
        BY <2>1, <4>1, <4>2
      <4>4. job.path[5] # "bak" /\ job.path[5] \in {"", "bak"}
        BY <1>1
      <4> QED BY <1>3, <2>3, <4>3, <4>4, Zenon DEF Carries
    <3>4. CASE ~(p[5] = "bak" /\ p[4] = "canon" /\ With(p, "") = job.path)
      <4>1. p[5] = "bak" /\ p[4] = "canon" /\ With(p, "") \notin DOMAIN files =>
               With(p, "") \notin DOMAIN files'
        BY <3>4
      <4> QED BY <2>3, <3>1, <4>1, Zenon DEF Carries
    <3> QED BY <3>3, <3>4
  <2>4. Stored(files', job.path[1], job.path[3], now)
    BY <2>2, <2>3, Zenon DEF Stored
  <2> QED BY <1>2, <2>4
<1> QED BY <1>1, <1>4, <1>5 DEF JobTypes

\* f_rename of the temporary file: the profile written is in place, or the backup still counts.
LEMMA CommitKeeps == ASSUME CsInv, Commit, UNCHANGED csrest PROVE CsInv'
<1>1. job # NoJob /\ job.step = "commit"
  BY DEF Commit, Writing
<1>2. /\ JobTypes /\ (job.kind = "atomic" => AtomicJob) /\ (job.kind = "device" => DeviceJob)
      /\ tmp[5] = "tmp" /\ bak[5] = "bak" /\ job.path[5] = ""
      /\ tmp # bak /\ tmp # job.path /\ bak # job.path
  BY <1>1, WriterFacts
<1>3. CASE /\ ~file_exists(job.path)
           /\ files' = Rename(files, tmp, job.path) /\ JobDone(TRUE)
  <2>1. tmp \in DOMAIN files /\ files[tmp] = job.doc /\ job.path \notin DOMAIN files
    BY <1>1, <1>2, <1>3 DEF JobTypes, file_exists
  <2>2. /\ DOMAIN files' = (DOMAIN files \cup {job.path}) \ {tmp}
        /\ files'[job.path] = job.doc
        /\ \A q \in DOMAIN files : q \notin {tmp, job.path} =>
              q \in DOMAIN files' /\ files'[q] = files[q]
    BY <1>2, <1>3, <2>1 DEF Rename, Without, Put
  <2>3. SameJob /\ job'.ok = TRUE /\ job'.step = "done"
    BY <1>2, <1>3, JobDoneIs
  <2>4. Proceeds
    BY <1>2, <2>2, <2>3 DEF Proceeds
  <2>5. OfProfile(job.path) =>
            Stored(files', job.path[1], job.path[3], Owed(job.path[1], job.path[3])')
    BY <1>1, <2>1, <2>2, <2>3, CommitStores
  <2>6. JobInv'
    BY <1>1, <2>4, JobProceeds
  <2>7. job' # NoJob /\ job'.path = job.path /\ job'.kind = job.kind
        /\ job'.caller = job.caller /\ job'.after = job.after
    BY <2>3, Zenon DEF SameJob
  <2>8. /\ DOMAIN files' \subseteq DOMAIN files \cup {job.path, tmp, bak}
        /\ \A p \in DOMAIN files : p \notin {job.path, tmp, bak} =>
              p \in DOMAIN files' /\ files'[p] = files[p]
        /\ bak \in DOMAIN files' => bak \in DOMAIN files
        /\ job.path \in DOMAIN files => job.path \in DOMAIN files'
    BY <1>2, <2>1, <2>2
  <2> QED BY <1>1, <2>5, <2>6, <2>7, <2>8, Wrote
<1>4. CASE /\ file_exists(job.path) \/ Fault
           /\ files' = IF job.kind = "atomic" THEN Without(files, tmp) ELSE files
           /\ IF job.kind = "device" /\ job.had THEN Step("restore") ELSE JobDone(FALSE)
  <2>1. /\ DOMAIN files' \subseteq DOMAIN files
        /\ \A q \in DOMAIN files : q # tmp => q \in DOMAIN files' /\ files'[q] = files[q]
    BY <1>4 DEF Without
  <2>2. CASE job.kind = "device" /\ job.had
    <3>1. SameJob /\ job'.step = "restore" /\ job'.ok = job.ok /\ job.ok \in BOOLEAN
      BY <1>2, <1>4, <2>2, StepIs DEF JobTypes
    <3>2. job.path \notin DOMAIN files
      BY <1>1, <1>2, <2>2 DEF DeviceJob
    <3>3. Proceeds
      BY <2>1, <2>2, <3>1, <3>2 DEF Proceeds
    <3> QED BY <1>1, <2>1, <3>1, <3>3, TmpOnly
  <2>3. CASE ~(job.kind = "device" /\ job.had)
    <3>1. SameJob /\ job'.ok = FALSE /\ job'.step = "done"
      BY <1>2, <1>4, <2>3, JobDoneIs
    <3>2. Proceeds
      BY <3>1 DEF Proceeds
    <3> QED BY <1>1, <2>1, <3>1, <3>2, TmpOnly
  <2> QED BY <2>2, <2>3
<1> QED BY <1>3, <1>4 DEF Commit

\* A file is written or given up without losing a profile.
LEMMA WriteFileKeeps == ASSUME CsInv, WriteFile PROVE CsInv'
<1>1. UNCHANGED csrest
  BY DEF WriteFile, csrest
<1> QED
  BY <1>1, WriteTmpKeeps, UnlinkOldKeeps, DropBackupKeeps, RetireKeeps, CommitKeeps,
     RestoreKeeps DEF WriteFile

\* What one pass of a start writes, and where.
LEMMA StageIs ==
    ASSUME stage \in 1 .. 13
    PROVE  /\ stage = 1  => Kind = "net_default" /\ Bus = "net"
           /\ stage = 2  => Kind = "recover" /\ Bus = "i2c"
           /\ stage = 3  => Kind = "layout" /\ Bus = "i2c"
           /\ stage = 4  => Kind = "defaults" /\ Bus = "i2c"
           /\ stage = 5  => Kind = "recover" /\ Bus = "mdio"
           /\ stage = 6  => Kind = "import" /\ Bus = "mdio"
           /\ stage = 7  => Kind = "layout" /\ Bus = "mdio"
           /\ stage = 8  => Kind = "defaults" /\ Bus = "mdio"
           /\ stage = 9  => Kind = "marker" /\ Bus = "mdio"
           /\ stage = 10 => Kind = "net_migrate" /\ Bus = "net"
           /\ stage = 11 => Kind = "fallback" /\ Bus = "i2c"
           /\ stage = 12 => Kind = "fallback" /\ Bus = "mdio"
           /\ stage = 13 => Kind = "load" /\ Bus = "all"
  BY DEF Kind, Bus, Stages

\* The loop of each stage.
LEMMA WorkIs ==
    /\ Kind = "net_default" => \A w \in Work : w[1] = NetPath("config")
    /\ Kind = "recover" => Work = recover_device_configs(Bus)
    /\ Kind = "layout" => \A w \in Work : ~failed[Bus] /\ w \in migrate_profile_layout(Bus)
    /\ Kind = "import" => \A w \in Work : w \in migrate_mdio_configs
    /\ Kind = "defaults" => \A w \in Work : ~failed[Bus] /\ w \in default_profiles(Bus)
    /\ Kind = "marker" => \A w \in Work : w[1] = Marker
    /\ Kind = "net_migrate" => \A w \in Work : w[1] = NetPath("config")
    /\ Kind = "fallback" => Work = fallback_profiles(Bus)
    /\ Kind = "load" => Work = {}
<1> DEFINE k == Kind
           nd == IF \E d \in Dirs : file_exists(NetPath(d)) THEN {}
                 ELSE {<<NetPath("config"), DefaultNetwork>>}
           ly == IF failed[Bus] THEN {} ELSE migrate_profile_layout(Bus)
           im == IF failed["mdio"] THEN {} ELSE migrate_mdio_configs
           df == IF failed[Bus] THEN {} ELSE default_profiles(Bus)
           mk == IF first /\ ~failed["mdio"] THEN {<<Marker, "v1">>} ELSE {}
           nm == IF file_exists(NetPath("configs")) /\ ~file_exists(NetPath("config"))
                 THEN {<<NetPath("config"), files[NetPath("configs")]>>} ELSE {}
           rc == recover_device_configs(Bus)
           fb == fallback_profiles(Bus)
<1>1. Work = CASE k = "net_default" -> nd [] k = "recover" -> rc [] k = "layout" -> ly
               [] k = "import" -> im [] k = "defaults" -> df [] k = "marker" -> mk
               [] k = "net_migrate" -> nm [] k = "fallback" -> fb [] OTHER -> {}
  BY DEF Work
<1>2. /\ \A w \in nd : w[1] = NetPath("config")
      /\ \A w \in ly : ~failed[Bus] /\ w \in migrate_profile_layout(Bus)
      /\ \A w \in im : w \in migrate_mdio_configs
      /\ \A w \in df : ~failed[Bus] /\ w \in default_profiles(Bus)
      /\ \A w \in mk : w[1] = Marker
      /\ \A w \in nm : w[1] = NetPath("config")
  OBVIOUS
<1>3. k = Kind
  OBVIOUS
<1> HIDE DEF k, nd, ly, im, df, mk, nm, rc, fb
<1>4. /\ k = "net_default" => Work = nd
      /\ k = "recover" => Work = rc
      /\ k = "layout" => Work = ly
      /\ k = "import" => Work = im
      /\ k = "defaults" => Work = df
      /\ k = "marker" => Work = mk
      /\ k = "net_migrate" => Work = nm
      /\ k = "fallback" => Work = fb
      /\ k = "load" => Work = {}
  BY <1>1
<1> QED BY <1>2, <1>3, <1>4, Zenon DEF rc, fb

\* A path of a profile in its directories.
LEMMA PathIs ==
    ASSUME NEW b \in Buses, NEW d \in Dirs, NEW s \in Stems, NEW l \in Layouts
    PROVE  IsPath(Path(b, d, s, l))
<1>1. Path(b, d, s, l) = <<b, d, s, l, "">>
  BY DEF Path
<1> QED BY <1>1, Zenon DEF IsPath

\* Files that are no profiles.
LEMMA OtherPaths ==
    /\ \A d \in Dirs : LET p == NetPath(d) IN
          IsPath(p) /\ p[1] = "net" /\ p[5] = "" /\ ~OfProfile(p)
    /\ IsPath(Marker) /\ Marker[5] = "" /\ ~OfProfile(Marker)
<1>1. ASSUME NEW d \in Dirs
      PROVE  /\ IsPath(NetPath(d)) /\ NetPath(d)[1] = "net" /\ NetPath(d)[5] = ""
             /\ ~OfProfile(NetPath(d))
  <2>1. NetPath(d) = <<"net", d, "network", "flat", "">>
    BY DEF NetPath
  <2>2. IsPath(NetPath(d))
    <3>1. "net" \in Buses \cup {"net"} /\ d \in Dirs \cup {"smi"} /\ "flat" \in Layouts
          /\ "network" \in Stems \cup {"network", "initialized"} /\ "" \in {"", "bak", "tmp"}
      BY DEF Layouts
    <3> QED BY <2>1, <3>1, Zenon DEF IsPath
  <2>3. NetPath(d)[1] = "net" /\ NetPath(d)[5] = ""
    BY DEF NetPath
  <2>4. "net" \notin Buses
    BY DEF Buses
  <2> QED BY <2>2, <2>3, <2>4, Zenon DEF OfProfile
<1>2. IsPath(Marker)
  <2>1. "mdio" \in Buses \cup {"net"} /\ "config" \in Dirs \cup {"smi"} /\ "flat" \in Layouts
        /\ "initialized" \in Stems \cup {"network", "initialized"} /\ "" \in {"", "bak", "tmp"}
    BY DEF Layouts, Dirs, Buses
  <2> QED BY <2>1, Zenon DEF IsPath, Marker
<1>3. Marker[5] = "" /\ Marker[3] = "initialized"
  BY DEF Marker
<1>4. ~OfProfile(Marker)
  BY <1>3, StoreAssumption DEF OfProfile
<1> QED BY <1>1, <1>2, <1>3, <1>4

\* What is written may be written: profiles only where there is none, and over a
\* canonical backup only what the backup holds.
Harmless(w) ==
    /\ IsPath(w[1]) /\ w[1][5] = ""
    /\ OfProfile(w[1]) =>
          /\ w[1] \notin DOMAIN files
          /\ w[1][4] = "canon" /\ With(w[1], "bak") \in DOMAIN files =>
                w[2] = files[With(w[1], "bak")]

\* recover_device_configs writes what the backup holds.
LEMMA RecoverHarmless ==
    ASSUME NEW b \in Buses, NEW w \in recover_device_configs(b)
    PROVE  Harmless(w)
<1>1. PICK x \in Dirs \X Stems \X Layouts :
         /\ ~file_exists(Path(b, x[1], x[2], x[3]))
         /\ w = <<Path(b, x[1], x[2], x[3]), files[With(Path(b, x[1], x[2], x[3]), "bak")]>>
  BY DEF recover_device_configs
<1>2. x[1] \in Dirs /\ x[2] \in Stems /\ x[3] \in Layouts
  OBVIOUS
<1> DEFINE p == Path(b, x[1], x[2], x[3])
<1>3. p[5] = ""
  BY DEF Path
<1>4. IsPath(p)
  BY <1>2, PathIs
<1>5. w[1] = p /\ w[2] = files[With(p, "bak")] /\ ~file_exists(p)
  BY <1>1
<1> HIDE DEF p
<1> QED BY <1>3, <1>4, <1>5, Zenon DEF Harmless, file_exists

\* A canonical profile that is missing has no backup.
LEMMA MissingHarmless ==
    ASSUME CsInv, NEW b \in Buses, NEW d \in Dirs, NEW s \in Stems, Recovered(b),
           NEW w, w[1] = Path(b, d, s, "canon"), ~file_exists(w[1])
    PROVE  Harmless(w)
<1> DEFINE p == Path(b, d, s, "canon")
<1>1. "canon" \in Layouts
  BY DEF Layouts
<1>2. IsPath(p) /\ p[1] = b /\ p[2] = d /\ p[3] = s /\ p[4] = "canon" /\ p[5] = ""
  <2>1. p[1] = b /\ p[2] = d /\ p[3] = s /\ p[4] = "canon" /\ p[5] = ""
    BY DEF Path
  <2>2. IsPath(p)
    BY <1>1, PathIs, Zenon
  <2> QED BY <2>1, <2>2
<1>3. w[1] = p
  OBVIOUS
<1> HIDE DEF p
<1>4. ASSUME With(p, "bak") \in DOMAIN files PROVE FALSE
  <2> DEFINE q == With(p, "bak")
  <2>1. q[1] = b /\ q[2] = d /\ q[3] = s /\ q[4] = "canon" /\ q[5] = "bak"
    BY <1>2 DEF With
  <2>2. With(q, "") = p
    <3>1. With(q, "") = With(p, "")
      BY DEF With
    <3>2. With(p, p[5]) = p
      BY <1>2, PathFacts, Zenon
    <3> QED BY <1>2, <3>1, <3>2
  <2> HIDE DEF q
  <2>3. q \in DOMAIN files => With(q, "") \in DOMAIN files
    BY <2>1, Zenon DEF Recovered
  <2> QED BY <1>3, <1>4, <2>2, <2>3 DEF file_exists, q
<1> QED BY <1>2, <1>3, <1>4, Zenon DEF Harmless, file_exists

\* migrate_profile_layout writes canonical files that are missing.
LEMMA LayoutHarmless ==
    ASSUME CsInv, NEW b \in Buses, Recovered(b), NEW w \in migrate_profile_layout(b)
    PROVE  Harmless(w)
<1>1. PICK x \in Dirs \X Stems \X {"old", "flat"} :
         /\ ~file_exists(Path(b, x[1], x[2], "canon"))
         /\ w = <<Path(b, x[1], x[2], "canon"), files[Path(b, x[1], x[2], x[3])]>>
  BY DEF migrate_profile_layout
<1>2. w[1] = Path(b, x[1], x[2], "canon") /\ x[1] \in Dirs /\ x[2] \in Stems
  BY <1>1
<1> QED BY <1>1, <1>2, MissingHarmless

\* The embedded profiles are written where a profile has no file.
LEMMA DefaultsHarmless ==
    ASSUME CsInv, NEW b \in Buses, Recovered(b), NEW w \in default_profiles(b)
    PROVE  Harmless(w)
<1>1. PICK s \in DOMAIN DefaultProfiles[b] :
         /\ \A d \in Dirs : ~profile_exists(b, d, s)
         /\ w = <<Path(b, "config", s, "canon"), DefaultProfiles[b][s]>>
  BY DEF default_profiles
<1>2. s \in Stems
  BY StoreAssumption
<1>3. "config" \in Dirs /\ "canon" \in Layouts /\ w[1] = Path(b, "config", s, "canon")
  BY <1>1 DEF Dirs, Layouts
<1>4. ~file_exists(w[1])
  BY <1>1, <1>3, Zenon DEF profile_exists
<1> QED BY <1>2, <1>3, <1>4, MissingHarmless

\* A profile in the flat layout is never over a canonical backup.
LEMMA FlatHarmless ==
    ASSUME NEW b \in Buses, NEW s \in Stems, NEW w,
           w[1] = Path(b, "config", s, "flat"), ~file_exists(w[1])
    PROVE  Harmless(w)
<1>1. "flat" \in Layouts /\ "config" \in Dirs
  BY DEF Layouts, Dirs
<1> DEFINE p == Path(b, "config", s, "flat")
<1>2. IsPath(p) /\ p[4] = "flat" /\ p[5] = ""
  <2>1. p[5] = "" /\ p[4] = "flat"
    BY DEF Path
  <2>2. IsPath(p)
    BY <1>1, PathIs, Zenon
  <2> QED BY <2>1, <2>2
<1>3. w[1] = p
  OBVIOUS
<1> HIDE DEF p
<1> QED BY <1>2, <1>3 DEF Harmless, file_exists

\* The copies of the fallback directory are flat files that are missing.
LEMMA FallbackHarmless ==
    ASSUME NEW b \in Buses, NEW w \in fallback_profiles(b)
    PROVE  Harmless(w)
<1>1. PICK s \in Stems : /\ ~file_exists(Path(b, "config", s, "flat"))
                         /\ w = <<Path(b, "config", s, "flat"),
                                  files[Path(b, "configs", s, "flat")]>>
  BY DEF fallback_profiles
<1>2. w[1] = Path(b, "config", s, "flat")
  BY <1>1
<1> QED BY <1>1, <1>2, FlatHarmless

\* The files of the former MDIO directories likewise.
LEMMA ImportHarmless ==
    ASSUME NEW w \in migrate_mdio_configs
    PROVE  Harmless(w)
<1>1. PICK x \in {"configs", "smi"} \X Stems :
         /\ ~file_exists(Path("mdio", "config", x[2], "flat"))
         /\ w = <<Path("mdio", "config", x[2], "flat"), files[Path("mdio", x[1], x[2], "flat")]>>
  BY DEF migrate_mdio_configs
<1>2. w[1] = Path("mdio", "config", x[2], "flat") /\ x[2] \in Stems /\ "mdio" \in Buses
  BY <1>1 DEF Buses
<1> QED BY <1>1, <1>2, FlatHarmless

\* No stage writes over a profile.
LEMMA WorkHarmless ==
    ASSUME CsInv, stage \in 1 .. 13, mounted, NEW w \in Work
    PROVE  Harmless(w)
<1>1. "i2c" \in Buses /\ "mdio" \in Buses /\ "config" \in Dirs
  BY DEF Buses, Dirs
<1>2. \A b \in Buses : stage \in AfterRecovery(b) /\ ~failed[b] => Recovered(b)
  BY Zenon DEF CsInv, StartInv
<1>3. /\ stage \in {3, 4} => stage \in AfterRecovery("i2c")
      /\ stage \in {7, 8} => stage \in AfterRecovery("mdio")
  BY StageCount DEF AfterRecovery
<1>4. w[1] = NetPath("config") \/ w[1] = Marker => Harmless(w)
  BY <1>1, OtherPaths, Zenon DEF Harmless
<1>5. CASE stage \in {1, 9, 10, 13}
  BY <1>4, <1>5, StageIs, WorkIs
<1>6. CASE stage \in {2, 5}
  BY <1>1, <1>6, StageIs, WorkIs, RecoverHarmless
<1>7. CASE stage \in {3, 7}
  BY <1>1, <1>2, <1>3, <1>7, StageIs, WorkIs, LayoutHarmless
<1>8. CASE stage \in {4, 8}
  BY <1>1, <1>2, <1>3, <1>8, StageIs, WorkIs, DefaultsHarmless
<1>9. CASE stage = 6
  BY <1>9, StageIs, WorkIs, ImportHarmless
<1>10. CASE stage \in {11, 12}
  BY <1>1, <1>10, StageIs, WorkIs, FallbackHarmless
<1> QED BY <1>5, <1>6, <1>7, <1>8, <1>9, <1>10

----------------------------------------------------------------------------
(* The start.                                                              *)

\* A file that begins to be written.
LEMMA StartIs ==
    ASSUME NEW kind \in {"atomic", "device"}, NEW path, NEW doc, NEW caller, NEW after,
           Start(kind, path, doc, caller, after)
    PROVE  /\ job'.kind = kind /\ job'.path = path /\ job'.doc = doc /\ job'.step = "tmp"
           /\ job'.caller = caller /\ job'.ok = TRUE /\ job'.after = after
           /\ job'.had = file_exists(path) /\ job'.had \in BOOLEAN /\ job' # NoJob
           /\ job' = [kind |-> job'.kind, path |-> job'.path, doc |-> job'.doc,
                      step |-> job'.step, had |-> job'.had, caller |-> job'.caller,
                      ok |-> job'.ok, after |-> job'.after]
<1> DEFINE h == file_exists(path)
<1>1. h \in BOOLEAN
  BY DEF file_exists
<1>2. job' = [kind |-> kind, path |-> path, doc |-> doc, step |-> "tmp", had |-> h,
              caller |-> caller, ok |-> TRUE, after |-> after]
  BY DEF Start
<1> HIDE DEF h
<1>3. /\ job'.kind = kind /\ job'.path = path /\ job'.doc = doc /\ job'.step = "tmp"
      /\ job'.caller = caller /\ job'.ok = TRUE /\ job'.after = after /\ job'.had = h
  BY <1>2
<1>4. job' # NoJob
  BY <1>3 DEF NoJob
<1>5. job' = [kind |-> job'.kind, path |-> job'.path, doc |-> job'.doc, step |-> job'.step,
              had |-> job'.had, caller |-> job'.caller, ok |-> job'.ok, after |-> job'.after]
  BY <1>2, <1>3, Zenon
<1> QED BY <1>1, <1>3, <1>4, <1>5, Zenon DEF h

\* It has the form of a job.
LEMMA JobStarts ==
    ASSUME NEW kind \in {"atomic", "device"}, NEW path, NEW doc,
           NEW caller \in {"boot", "save", "copy"}, NEW after,
           Start(kind, path, doc, caller, after), IsPath(path), path[5] = "",
           (caller = "boot") <=> (stage' # Loaded)
    PROVE  JobTypes'
<1>1. /\ job'.kind = kind /\ job'.path = path /\ job'.doc = doc /\ job'.step = "tmp"
      /\ job'.caller = caller /\ job'.ok = TRUE /\ job'.after = after
      /\ job'.had \in BOOLEAN /\ job' # NoJob
      /\ job' = [kind |-> job'.kind, path |-> job'.path, doc |-> job'.doc,
                 step |-> job'.step, had |-> job'.had, caller |-> job'.caller,
                 ok |-> job'.ok, after |-> job'.after]
  BY StartIs
<1>2. /\ IsPath(job'.path) /\ job'.path[5] = "" /\ job'.kind \in {"atomic", "device"}
      /\ job'.caller \in {"boot", "save", "copy"}
      /\ (job'.caller = "boot") <=> (stage' # Loaded')
      /\ job'.step \in {"tmp", "unlink", "backup", "retire", "commit", "restore", "done"}
      /\ job'.step \notin {"unlink", "backup", "retire", "commit", "done"} /\ job'.ok \in BOOLEAN
  BY <1>1 DEF Loaded
<1> QED BY <1>1, <1>2, Zenon DEF JobTypes, SaveDone

\* The flash of the first start satisfies the invariant.
LEMMA CsStarts == ASSUME CsInit PROVE CsInv
<1>1. PICK x \in Flashes : files = x.files /\ may = x.may
  BY DEF CsInit
<1>2. mounted = FALSE /\ stage = 0 /\ tried = {} /\ job = NoJob /\ failed = [b \in Buses |-> FALSE]
  BY DEF CsInit
<1>3. CsTypes
  <2>1. failed = [b \in Buses |-> failed[b]]
    BY <1>2
  <2>2. may = [b \in Buses |-> [s \in Stems |-> may[b][s]]] /\ \A p \in DOMAIN files : IsPath(p)
    BY <1>1, StoreAssumption, Zenon
  <2>3. stage \in 0 .. Loaded
    BY <1>2, StageCount
  <2> QED BY <1>2, <2>1, <2>2, <2>3 DEF CsTypes
<1>4. StartInv
  <2>1. stage \notin {2, 5} /\ \A b \in Buses : stage \notin AfterRecovery(b)
    BY <1>2, StageCount DEF AfterRecovery
  <2> QED BY <2>1, Zenon DEF StartInv
<1>5. ASSUME NEW b \in Buses, NEW s \in Stems PROVE Stored(files, b, s, Owed(b, s))
  <2>1. Owed(b, s) = x.may[b][s]
    BY <1>1, <1>2, Zenon DEF Owed, Saving
  <2>2. Stored(x.files, b, s, x.may[b][s])
    BY StoreAssumption, Zenon
  <2> QED BY <1>1, <2>1, <2>2, Zenon
<1> QED BY <1>2, <1>3, <1>4, <1>5, Zenon DEF CsInv, JobInv

\* A step that touches no file and ends without a job.
LEMMA RestKeeps ==
    ASSUME CsInv, job = NoJob \/ ~Saving, job' = NoJob, files' = files, may' = may,
           CsTypes', StartInv'
    PROVE  CsInv'
<1>1. ASSUME NEW b \in Buses, NEW s \in Stems PROVE Stored(files', b, s, Owed(b, s)')
  <2>1. Owed(b, s) = may[b][s] /\ Owed(b, s)' = may'[b][s]
    BY Zenon DEF Owed, Saving
  <2> QED BY <2>1, Zenon DEF CsInv
<1> QED BY <1>1, Zenon DEF CsInv, JobInv

\* wait_for_qspi_flash: a start begins, or gives up.
LEMMA BootWaitKeeps == ASSUME CsInv, BootWait PROVE CsInv'
<1>1. /\ stage = 0 /\ files' = files /\ may' = may /\ tried' = tried /\ mounted' = mounted
      /\ job' = job /\ stage' = IF mounted THEN 1 ELSE Len(Stages)
      /\ failed' = [b \in Buses |-> b = "mdio" /\ ~mounted]
  BY DEF BootWait
<1>2. CsTypes /\ job = NoJob
  BY <1>1 DEF CsInv, CsTypes
<1>3. failed' = [b \in Buses |-> failed'[b]]
  BY <1>1
<1>4. /\ stage' \in 0 .. 14 /\ (stage' = 0 => FALSE) /\ (mounted' => stage' = 1)
      /\ stage' \notin {2, 5}
  BY <1>1, <1>2, StageCount DEF CsTypes
<1>5. CsTypes'
  BY <1>1, <1>2, <1>3, <1>4, StageCount, Zenon DEF CsTypes, Loaded
<1>6. StartInv'
  <2>1. ASSUME NEW b \in Buses, mounted' PROVE stage' \notin AfterRecovery(b)'
    BY <1>4, <2>1, StageCount DEF AfterRecovery
  <2> QED BY <1>4, <2>1, Zenon DEF StartInv
<1> QED BY <1>1, <1>2, <1>5, <1>6, RestKeeps

\* Inside a start no file is being written.
LEMMA BootingIs ==
    ASSUME CsInv, Booting
    PROVE  stage \in 1 .. 13 /\ job = NoJob /\ stage # Loaded
  BY StageCount DEF Booting

\* A stage begins its next copy.
LEMMA BootWriteKeeps == ASSUME CsInv, BootWrite PROVE CsInv'
<1>1. PICK w \in Todo : Start("atomic", w[1], w[2], "boot", <<>>) /\ tried' = tried \cup {w[1]}
  BY DEF BootWrite
<1>2. /\ files' = files /\ may' = may /\ stage' = stage /\ mounted' = mounted /\ failed' = failed
      /\ mounted /\ stage \in 1 .. 13 /\ job = NoJob /\ stage # Loaded
  BY BootingIs DEF BootWrite
<1>3. Harmless(w)
  BY <1>2, WorkHarmless DEF Todo
<1>4. /\ job'.kind = "atomic" /\ job'.path = w[1] /\ job'.doc = w[2] /\ job'.step = "tmp"
      /\ job'.caller = "boot" /\ job' # NoJob
  BY <1>1, StartIs
<1>5. JobTypes'
  <2>1. IsPath(w[1]) /\ w[1][5] = ""
    BY <1>3 DEF Harmless
  <2> QED BY <1>1, <1>2, <2>1, JobStarts
<1>6. AtomicJob'
  <2>1. bak' = With(w[1], "bak")
    BY <1>4 DEF bak
  <2> QED BY <1>2, <1>3, <1>4, <2>1 DEF AtomicJob, Harmless, OfProfile
<1>7. CsTypes'
  <2>1. CsTypes
    BY DEF CsInv
  <2>2. stage # 0
    BY <1>2
  <2> QED BY <1>2, <2>1, <2>2, Zenon DEF CsTypes, Loaded
<1>8. StartInv'
  <2>1. StartInv
    BY DEF CsInv
  <2>2. ASSUME stage' \in {2, 5}, NEW p \in tried'
        PROVE  p[5] = "" /\ (p \in DOMAIN files' \/ (job' # NoJob /\ job'.path = p))
    BY <1>1, <1>2, <1>3, <1>4, <2>1, <2>2 DEF StartInv, Harmless
  <2>3. \A b \in Buses : mounted' /\ stage' \in AfterRecovery(b)' /\ ~failed'[b] => Recovered(b)'
    BY <1>2, <2>1, Zenon DEF StartInv, AfterRecovery, Recovered
  <2> QED BY <2>2, <2>3, Zenon DEF StartInv
<1>9. ASSUME NEW b \in Buses, NEW s \in Stems PROVE Stored(files', b, s, Owed(b, s)')
  <2>1. Owed(b, s) = may[b][s] /\ Owed(b, s)' = may'[b][s]
    BY <1>2, <1>4 DEF Owed, Saving
  <2> QED BY <1>2, <2>1, Zenon DEF CsInv
<1> QED BY <1>4, <1>5, <1>6, <1>7, <1>8, <1>9 DEF CsInv, JobInv

\* A pass is over: recovery leaves no canonical backup alone.
LEMMA StageEnds ==
    ASSUME CsInv, stage \in 1 .. 13, mounted, NEW b \in Buses, ~failed[b],
           stage + 1 \in AfterRecovery(b),
           \/ stage \notin {2, 5} \/ Bus # b
           \/ job = NoJob /\ Todo = {}
    PROVE  Recovered(b)
<1>1. StartInv /\ CsTypes
  BY DEF CsInv
<1>2. CASE stage \in AfterRecovery(b)
  BY <1>1, <1>2, Zenon DEF StartInv
<1>3. CASE stage \notin AfterRecovery(b)
  <2>1. stage \in {2, 5} /\ Bus = b /\ Kind = "recover"
    <3>1. (b = "i2c" /\ stage = 2) \/ (b = "mdio" /\ stage = 5)
      BY <1>3, StageCount DEF AfterRecovery, Buses
    <3> QED BY <3>1, StageIs
  <2>2. job = NoJob /\ Todo = {}
    BY <2>1
  <2>3. Work = recover_device_configs(b)
    BY <2>1, WorkIs
  <2> SUFFICES ASSUME NEW p \in DOMAIN files, p[1] = b, p[2] \in Dirs, p[3] \in Stems,
                      p[4] = "canon", p[5] = "bak", With(p, "") \notin DOMAIN files
               PROVE  FALSE
    BY Zenon DEF Recovered
  <2> DEFINE q == Path(b, p[2], p[3], "canon")
  <2>4. With(p, "") = q /\ q[5] = ""
    BY DEF With, Path
  <2>5. With(q, "bak") = p
    <3>1. IsPath(p)
      BY <1>1 DEF CsTypes
    <3>2. With(p, p[5]) = p
      BY <3>1, PathFacts, Zenon
    <3>3. With(q, "bak") = With(p, "bak")
      BY DEF With, Path
    <3> QED BY <3>2, <3>3
  <2> DEFINE x == <<p[2], p[3], "canon">>
  <2>6. x \in Dirs \X Stems \X Layouts /\ q = Path(b, x[1], x[2], x[3])
    BY DEF Layouts
  <2> HIDE DEF q, x
  <2>7. <<q, files[p]>> \in recover_device_configs(b)
    <3>1. file_exists(With(q, "bak")) /\ ~file_exists(q)
      BY <2>4, <2>5, Zenon DEF file_exists
    <3> QED BY <2>5, <2>6, <3>1, Zenon DEF recover_device_configs
  <2>8. q \in tried
    <3>1. <<q, files[p]>>[1] = q
      OBVIOUS
    <3> QED BY <2>2, <2>3, <2>7, <3>1 DEF Todo
  <2>9. q \in DOMAIN files
    BY <1>1, <2>1, <2>2, <2>8, Zenon DEF StartInv
  <2> QED BY <2>4, <2>9
<1> QED BY <1>2, <1>3

\* A copy is done; one that fails may disable the bus and end the stage.
LEMMA BootWrittenKeeps == ASSUME CsInv, BootWritten PROVE CsInv'
<1>1. /\ job # NoJob /\ job.step = "done" /\ job.caller = "boot" /\ job' = NoJob
      /\ files' = files /\ may' = may /\ mounted' = mounted
  BY DEF BootWritten, Writing
<1>2. CsTypes /\ StartInv /\ JobTypes
  BY <1>1 DEF CsInv, JobInv
<1>3. stage \in 1 .. 13 /\ ~Saving
  <2>1. stage # Loaded
    BY <1>1, <1>2 DEF JobTypes
  <2> QED BY <1>1, <1>2, <2>1, StageCount DEF CsTypes, Saving
<1>4. CASE ~job.ok /\ Fatal
  <2>1. failed' = [failed EXCEPT ![Bus] = TRUE] /\ stage' = stage + 1 /\ tried' = {}
    BY <1>4 DEF BootWritten
  <2>2. Bus \in Buses
    BY <1>3, <1>4, StageIs DEF Fatal, Buses
  <2>3. /\ failed' = [b \in Buses |-> failed'[b]] /\ failed'[Bus] = TRUE
        /\ \A b \in Buses : failed[b] => failed'[b]
    BY <1>2, <2>1, <2>2 DEF CsTypes
  <2>4. stage' \in 0 .. 14 /\ stage' # 0
    BY <1>3, <2>1
  <2>5. CsTypes'
    <3>1. may' = [b \in Buses |-> [s \in Stems |-> may'[b][s]]] /\ mounted' \in BOOLEAN
      BY <1>1, <1>2, Zenon DEF CsTypes
    <3>2. \A p \in DOMAIN files' : IsPath(p)
      BY <1>1, <1>2, Zenon DEF CsTypes
    <3>3. failed' = [b \in Buses |-> failed'[b]]
      BY <2>3
    <3> QED BY <2>4, <3>1, <3>2, <3>3, StageCount, Zenon DEF CsTypes, Loaded
  <2>6. StartInv'
    <3>1. ASSUME NEW b \in Buses, mounted', stage' \in AfterRecovery(b)', ~failed'[b]
          PROVE  Recovered(b)'
      <4>1. AfterRecovery(b)' = AfterRecovery(b)
        BY DEF AfterRecovery
      <4>2. mounted /\ stage + 1 \in AfterRecovery(b) /\ ~failed[b] /\ Bus # b
        BY <1>1, <2>1, <2>3, <3>1, <4>1
      <4>3. Recovered(b)
        BY <1>3, <4>2, StageEnds
      <4> QED BY <1>1, <4>3, Zenon DEF Recovered
    <3> QED BY <2>1, <3>1, Zenon DEF StartInv
  <2> QED BY <1>1, <1>3, <2>5, <2>6, RestKeeps
<1>5. CASE job.ok \/ ~Fatal
  <2>1. failed' = failed /\ stage' = stage /\ tried' = tried
    <3>1. ~(~job.ok /\ Fatal)
      BY <1>5
    <3> QED BY <3>1, Zenon DEF BootWritten
  <2>2. CsTypes'
    <3>1. stage # 0
      BY <1>3
    <3> QED BY <1>1, <1>2, <2>1, <3>1, Zenon DEF CsTypes, Loaded
  <2>3. StartInv'
    <3>1. ASSUME stage' \in {2, 5}, NEW p \in tried'
          PROVE  p[5] = "" /\ p \in DOMAIN files'
      <4>1. stage \in {2, 5} /\ p \in tried
        BY <2>1, <3>1
      <4>2. p[5] = "" /\ (p \in DOMAIN files \/ job.path = p)
        BY <1>2, <4>1 DEF StartInv
      <4>3. job.ok
        BY <1>3, <1>5, <4>1, StageIs DEF Fatal
      <4>4. job.path \in DOMAIN files
        BY <1>1, <1>2, <4>3 DEF JobTypes, SaveDone
      <4> QED BY <1>1, <4>2, <4>4
    <3>2. \A b \in Buses : mounted' /\ stage' \in AfterRecovery(b)' /\ ~failed'[b] => Recovered(b)'
      BY <1>1, <1>2, <2>1, Zenon DEF StartInv, AfterRecovery, Recovered
    <3> QED BY <3>1, <3>2, Zenon DEF StartInv
  <2> QED BY <1>1, <1>3, <2>2, <2>3, RestKeeps
<1> QED BY <1>4, <1>5

\* A stage is over.
LEMMA BootNextKeeps == ASSUME CsInv, BootNext PROVE CsInv'
<1>1. /\ stage' = stage + 1 /\ tried' = {} /\ job' = job /\ files' = files /\ may' = may
      /\ mounted' = mounted /\ mounted /\ Todo = {} /\ stage \in 1 .. 13 /\ job = NoJob
  BY BootingIs DEF BootNext
<1>2. CsTypes
  BY DEF CsInv
<1>3. failed' = [b \in Buses |-> failed'[b]] /\ \A b \in Buses : failed[b] => failed'[b]
  <2>1. CASE failed' = failed
    BY <1>2, <2>1, Zenon DEF CsTypes
  <2>2. CASE failed' = [failed EXCEPT ![Bus] = TRUE] /\ Kind \in {"recover", "layout", "import"}
    <3>1. Bus \in Buses
      BY <1>1, <2>2, StageIs DEF Buses
    <3> QED BY <1>2, <2>2, <3>1 DEF CsTypes
  <2> QED BY <2>1, <2>2 DEF BootNext
<1>4. stage' \in 0 .. 14 /\ stage' # 0
  BY <1>1
<1>5. CsTypes'
  BY <1>1, <1>2, <1>3, <1>4, StageCount, Zenon DEF CsTypes, Loaded
<1>6. StartInv'
  <2>1. ASSUME NEW b \in Buses, mounted', stage' \in AfterRecovery(b)', ~failed'[b]
        PROVE  Recovered(b)'
    <3>1. AfterRecovery(b)' = AfterRecovery(b)
      BY DEF AfterRecovery
    <3>2. stage + 1 \in AfterRecovery(b) /\ ~failed[b]
      BY <1>1, <1>3, <2>1, <3>1
    <3>3. Recovered(b)
      BY <1>1, <3>2, StageEnds
    <3> QED BY <1>1, <3>3, Zenon DEF Recovered
  <2> QED BY <1>1, <2>1, Zenon DEF StartInv
<1> QED BY <1>1, <1>5, <1>6, RestKeeps

\* The load changes no file.
LEMMA BootLoadKeeps == ASSUME CsInv, BootLoad PROVE CsInv'
<1>1. /\ stage = 13 /\ stage' = 14 /\ job = NoJob /\ job' = job /\ files' = files /\ may' = may
      /\ mounted' = mounted /\ tried' = tried
  BY StageCount DEF BootLoad
<1>2. CsTypes /\ StartInv
  BY DEF CsInv
<1>3. failed' = [b \in Buses |-> failed'[b]] /\ \A b \in Buses : failed[b] => failed'[b]
  <2>1. CASE failed' = [b \in Buses |-> failed[b] \/ (mounted /\ Unreadable(b))]
    BY <2>1, Zenon
  <2>2. CASE failed' = [b \in Buses |-> failed[b] \/ Unreadable(b)]
    BY <2>2, Zenon
  <2>3. ASSUME NEW x \in Buses,
               failed' = [b \in Buses |-> failed[b] \/ Unreadable(b) \/ b = x]
        PROVE  failed' = [b \in Buses |-> failed'[b]] /\ \A b \in Buses : failed[b] => failed'[b]
    BY <2>3, Zenon
  <2> QED BY <2>1, <2>2, <2>3, Zenon DEF BootLoad
<1>4. CsTypes'
  <2>1. stage' \in 0 .. 14 /\ stage' # 0
    BY <1>1
  <2> QED BY <1>1, <1>2, <1>3, <2>1, StageCount, Zenon DEF CsTypes, Loaded
<1>5. StartInv'
  <2>1. stage' \notin {2, 5} /\ \A b \in Buses : stage' \notin AfterRecovery(b)'
    BY <1>1, StageCount DEF AfterRecovery
  <2> QED BY <2>1, Zenon DEF StartInv
<1> QED BY <1>1, <1>4, <1>5, RestKeeps

\* The flash mounts.
LEMMA MountKeeps == ASSUME CsInv, Mount PROVE CsInv'
<1>1. /\ UNCHANGED <<files, may, stage, tried, job, failed>> /\ mounted' = TRUE
      /\ stage \in {0, 14}
  BY StageCount DEF Mount
<1>2. CsTypes /\ JobInv
  BY DEF CsInv
<1>3. CsTypes'
  BY <1>1, <1>2, Zenon DEF CsTypes, Loaded
<1>4. StartInv'
  <2>1. stage' \notin {2, 5} /\ \A b \in Buses : stage' \notin AfterRecovery(b)'
    BY <1>1, StageCount DEF AfterRecovery
  <2> QED BY <2>1, Zenon DEF StartInv
<1>5. JobInv'
  BY <1>1, <1>2 DEF JobInv, JobTypes, AtomicJob, DeviceJob, SaveDone, OfProfile, tmp, bak, Loaded
<1>6. ASSUME NEW b \in Buses, NEW s \in Stems PROVE Stored(files', b, s, Owed(b, s)')
  <2>1. Owed(b, s)' = Owed(b, s)
    BY <1>1, Zenon DEF Owed, Saving, SaveDone
  <2> QED BY <1>1, <2>1, Zenon DEF CsInv
<1> QED BY <1>3, <1>4, <1>5, <1>6, Zenon DEF CsInv

\* A write in progress lets a start find no less than may says.
LEMMA OwedIsMay ==
    ASSUME CsInv, NEW b \in Buses, NEW s \in Stems
    PROVE  Owed(b, s) \subseteq may[b][s] /\ Stored(files, b, s, may[b][s])
<1>1. Owed(b, s) \subseteq may[b][s]
  <2>1. CASE Saving /\ job.path[1] = b /\ job.path[3] = s /\ ~SaveDone
    <3>1. job.caller = "save" /\ DeviceJob
      BY <2>1, Zenon DEF Saving, CsInv, JobInv
    <3>2. job.after[FALSE] \subseteq may[b][s]
      BY <2>1, <3>1, Zenon DEF DeviceJob
    <3> QED BY <2>1, <3>2, Zenon DEF Owed
  <2>2. CASE ~(Saving /\ job.path[1] = b /\ job.path[3] = s /\ ~SaveDone)
    <3>1. Owed(b, s) = may[b][s]
      BY <2>2, Zenon DEF Owed
    <3> QED BY <3>1
  <2> QED BY <2>1, <2>2
<1>2. Stored(files, b, s, Owed(b, s))
  BY DEF CsInv
<1> QED BY <1>1, <1>2, StoredMore

\* Power fails: only a temporary file is torn.
LEMMA CrashKeeps == ASSUME CsInv, Crash PROVE CsInv'
<1>1. /\ files' = IF Writing("tmp") THEN Put(files, tmp, Torn) ELSE files
      /\ mounted' = FALSE /\ stage' = 0 /\ tried' = {} /\ job' = NoJob
      /\ failed' = [b \in Buses |-> FALSE] /\ may' = may
  BY DEF Crash
<1>2. CsTypes
  BY DEF CsInv
<1>3. ASSUME Writing("tmp") PROVE IsPath(tmp) /\ tmp[5] = "tmp"
  <2>1. job # NoJob /\ JobTypes
    BY <1>3, Zenon DEF Writing, CsInv, JobInv
  <2> QED BY <2>1, JobPaths
<1>4. /\ \A p \in DOMAIN files' : IsPath(p)
      /\ \A p \in DOMAIN files : p[5] # "tmp" => p \in DOMAIN files' /\ files'[p] = files[p]
      /\ \A p \in DOMAIN files' : p[5] # "tmp" => p \in DOMAIN files
  <2>1. CASE Writing("tmp")
    <3>1. files' = Put(files, tmp, Torn)
      BY <1>1, <2>1
    <3>2. /\ DOMAIN files' = DOMAIN files \cup {tmp}
          /\ \A p \in DOMAIN files : p # tmp => files'[p] = files[p]
      BY <3>1 DEF Put
    <3> QED BY <1>2, <1>3, <2>1, <3>2 DEF CsTypes
  <2>2. CASE ~Writing("tmp")
    BY <1>1, <1>2, <2>2, Zenon DEF CsTypes
  <2> QED BY <2>1, <2>2
<1>5. CsTypes'
  <2>1. failed' = [b \in Buses |-> failed'[b]] /\ stage' \in 0 .. 14 /\ mounted' \in BOOLEAN
    <3>1. failed' = [b \in Buses |-> FALSE] /\ stage' = 0 /\ mounted' = FALSE
      BY <1>1
    <3>2. failed' = [b \in Buses |-> failed'[b]]
      BY <3>1
    <3>3. 0 \in 0 .. 14
      OBVIOUS
    <3> QED BY <3>1, <3>2, <3>3, Zenon
  <2>2. may' = [b \in Buses |-> [s \in Stems |-> may'[b][s]]]
    <3>1. may' = may
      BY <1>1
    <3> QED BY <1>2, <3>1, Zenon DEF CsTypes
  <2>3. job' = NoJob /\ tried' = {} /\ Loaded' = 14
    BY <1>1, StageCount DEF Loaded
  <2>4. \A p \in DOMAIN files' : IsPath(p)
    BY <1>4
  <2> QED BY <2>1, <2>2, <2>3, <2>4, Zenon DEF CsTypes
<1>6. StartInv'
  <2>1. stage' \notin {2, 5} /\ ~mounted'
    BY <1>1
  <2> QED BY <2>1, Zenon DEF StartInv
<1>7. ASSUME NEW b \in Buses, NEW s \in Stems PROVE Stored(files', b, s, Owed(b, s)')
  <2>1. Owed(b, s)' = may[b][s]
    BY <1>1, Zenon DEF Owed, Saving
  <2>2. Stored(files, b, s, may[b][s])
    BY OwedIsMay
  <2>3. ASSUME NEW p \in DOMAIN files, p[5] \in {"", "bak"}
        PROVE  /\ p \in DOMAIN files' /\ files'[p] = files[p]
               /\ With(p, "") \notin DOMAIN files => With(p, "") \notin DOMAIN files'
    <3>1. With(p, "")[5] = ""
      BY DEF With
    <3> QED BY <1>4, <2>3, <3>1
  <2>4. \A p \in DOMAIN files : p[1] = b /\ p[3] = s /\ p[5] \in {"", "bak"} =>
               /\ p \in DOMAIN files' /\ files'[p] = files[p]
               /\ p[5] = "bak" /\ p[4] = "canon" /\ With(p, "") \notin DOMAIN files =>
                      With(p, "") \notin DOMAIN files'
    BY <2>3, Zenon
  <2>5. Stored(files', b, s, may[b][s])
    BY <2>2, <2>4, StoredStays, Zenon
  <2> QED BY <2>1, <2>5, Zenon
<1> QED BY <1>1, <1>5, <1>6, <1>7, Zenon DEF CsInv, JobInv

\* What a loaded store keeps of the invariant while it is not started again.
LEMMA LoadedKeeps ==
    ASSUME CsInv, stage = 14, UNCHANGED <<files, mounted, stage, tried, failed>>,
           may' = [b \in Buses |-> [s \in Stems |-> may'[b][s]]]
    PROVE  CsTypes' /\ StartInv'
<1>1. CsTypes
  BY DEF CsInv
<1>2. CsTypes'
  <2>1. \A p \in DOMAIN files' : IsPath(p)
    BY <1>1, Zenon DEF CsTypes
  <2>2. failed' = [b \in Buses |-> failed'[b]] /\ mounted' \in BOOLEAN
    BY <1>1, Zenon DEF CsTypes
  <2>3. stage' \in 0 .. 14 /\ stage' # 0
    OBVIOUS
  <2> QED BY <2>1, <2>2, <2>3, StageCount, Zenon DEF CsTypes, Loaded
<1>3. StartInv'
  <2>1. stage' \notin {2, 5} /\ \A b \in Buses : stage' \notin AfterRecovery(b)'
    BY StageCount DEF AfterRecovery
  <2> QED BY <2>1, Zenon DEF StartInv
<1> QED BY <1>2, <1>3

\* config_store_save_device: the old profile is owed until the new one is in place.
LEMMA SaveDeviceKeeps == ASSUME CsInv, SaveDevice PROVE CsInv'
<1>1. PICK b \in Buses, s \in Stems : config_store_save_device(b, s)
  BY DEF SaveDevice
<1>2. PICK c \in Saves[b][s] :
         /\ Idle /\ UNCHANGED <<files, mounted, stage, tried, failed>>
         /\ IF saved_document(c).ok
            THEN /\ Start("device", SavePath(b, "config", s), saved_document(c).doc, "save",
                          [ok \in BOOLEAN |-> IF ok THEN {Effective(c)} ELSE may[b][s]])
                 /\ may' = [may EXCEPT ![b][s] = @ \cup {Effective(c)}]
            ELSE UNCHANGED <<job, may>>
  BY <1>1 DEF config_store_save_device
<1>3. stage = 14 /\ job = NoJob /\ CsTypes
  BY <1>2, StageCount DEF Idle, Ready, CsInv
<1>4. CASE ~saved_document(c).ok
  <2>1. UNCHANGED <<job, may>>
    BY <1>2, <1>4
  <2>2. may' = [x \in Buses |-> [y \in Stems |-> may'[x][y]]]
    BY <1>3, <2>1, Zenon DEF CsTypes
  <2>3. CsTypes' /\ StartInv'
    BY <1>2, <1>3, <2>2, LoadedKeeps
  <2> QED BY <1>2, <1>3, <2>1, <2>3, RestKeeps
<1>5. CASE saved_document(c).ok
  <2> DEFINE path == SavePath(b, "config", s)
             doc == saved_document(c).doc
             after == [ok \in BOOLEAN |-> IF ok THEN {Effective(c)} ELSE may[b][s]]
  <2>1. /\ Start("device", path, doc, "save", after)
        /\ may' = [may EXCEPT ![b][s] = @ \cup {Effective(c)}]
    BY <1>2, <1>5
  <2>2. /\ path[1] = b /\ path[3] = s /\ path[4] = "canon" /\ path[5] = ""
    BY DEF SavePath, Path
  <2>3. IsPath(path)
    <3>1. "config" \in Dirs /\ "canon" \in Layouts
      BY DEF Dirs, Layouts
    <3> QED BY <3>1, PathIs DEF SavePath
  <2>4. after[TRUE] = {Effective(c)} /\ after[FALSE] = may[b][s]
    OBVIOUS
  <2>5. LET r == parse_profile(doc, b) IN r.ok /\ Effective(r.config) = Effective(c)
    BY <1>5, StoreAssumption, Zenon
  <2> HIDE DEF path, doc, after
  <2>6. /\ may' = [x \in Buses |-> [y \in Stems |-> may'[x][y]]]
        /\ may'[b][s] = may[b][s] \cup {Effective(c)}
        /\ \A x \in Buses, y \in Stems : x # b \/ y # s => may'[x][y] = may[x][y]
    <3>1. DOMAIN may = Buses /\ \A x \in Buses : DOMAIN may[x] = Stems
      BY <1>3 DEF CsTypes
    <3>2. may' = [x \in Buses |-> IF x = b THEN [y \in Stems |->
                     IF y = s THEN may[b][s] \cup {Effective(c)} ELSE may[b][y]] ELSE may[x]]
      BY <1>3, <2>1, <3>1 DEF CsTypes
    <3>3. ASSUME NEW x \in Buses PROVE may[x] = [y \in Stems |-> may[x][y]]
      <4>1. may[x] = [z \in Buses |-> [y \in Stems |-> may[z][y]]][x]
        BY <1>3, Zenon DEF CsTypes
      <4> QED BY <4>1
    <3>4. ASSUME NEW x \in Buses PROVE may'[x] = [y \in Stems |-> may'[x][y]]
      BY <3>2, <3>3
    <3>5. may' = [x \in Buses |-> may'[x]]
      BY <3>2
    <3> QED BY <3>2, <3>4, <3>5
  <2>7. /\ job'.kind = "device" /\ job'.path = path /\ job'.doc = doc /\ job'.step = "tmp"
        /\ job'.caller = "save" /\ job'.after = after /\ job'.had = file_exists(path)
        /\ job' # NoJob
    BY <2>1, StartIs
  <2>8. JobTypes'
    <3>1. stage' = Loaded
      BY <1>2, <1>3, StageCount
    <3> QED BY <2>1, <2>2, <2>3, <3>1, JobStarts
  <2>9. DeviceJob'
    <3>1. OfProfile(path)
      BY <2>2 DEF OfProfile
    <3>2. /\ job'.step # "unlink" /\ job'.caller # "boot"
          /\ job'.step \notin {"backup", "retire", "restore", "commit"}
      BY <2>7
    <3>3. job'.had => path \in DOMAIN files'
      BY <1>2, <2>7, Zenon DEF file_exists
    <3>4. /\ after[TRUE] \subseteq may'[b][s] /\ after[FALSE] \subseteq may'[b][s]
          /\ Effective(c) \in after[TRUE]
      BY <2>4, <2>6
    <3>5. /\ LET r == parse_profile(job'.doc, job'.path[1]) IN
             r.ok /\ Effective(r.config) \in job'.after[TRUE]
          /\ job'.after[TRUE] \subseteq may'[job'.path[1]][job'.path[3]]
          /\ job'.after[FALSE] \subseteq may'[job'.path[1]][job'.path[3]]
      BY <2>2, <2>5, <2>7, <3>4, Zenon
    <3>6. /\ OfProfile(job'.path) /\ job'.path[4] = "canon"
          /\ job'.had => job'.path \in DOMAIN files'
      BY <2>2, <2>7, <3>1, <3>3, Zenon
    <3> QED BY <2>7, <3>2, <3>5, <3>6, Zenon DEF DeviceJob, OfProfile
  <2>10. ASSUME NEW x \in Buses, NEW y \in Stems PROVE Stored(files', x, y, Owed(x, y)')
    <3>1. Owed(x, y)' = may[x][y]
      <4>1. CASE x = b /\ y = s
        <5>1. Saving' /\ ~SaveDone'
          BY <2>7 DEF Saving, SaveDone
        <5> QED BY <2>2, <2>4, <2>7, <4>1, <5>1, Zenon DEF Owed
      <4>2. CASE ~(x = b /\ y = s)
        BY <2>2, <2>6, <2>7, <4>2, Zenon DEF Owed
      <4> QED BY <4>1, <4>2
    <3> QED BY <1>2, <3>1, OwedIsMay, Zenon
  <2>11. CsTypes' /\ StartInv'
    BY <1>2, <1>3, <2>6, LoadedKeeps
  <2> QED BY <2>7, <2>8, <2>9, <2>10, <2>11, Zenon DEF CsInv, JobInv
<1> QED BY <1>4, <1>5


\* config_store_save_network touches no profile.
LEMMA SaveNetworkKeeps == ASSUME CsInv, config_store_save_network PROVE CsInv'
<1>1. PICK n \in Network :
         /\ Idle /\ UNCHANGED <<files, mounted, stage, tried, failed, may>>
         /\ Start("atomic", NetPath("config"), n, "save", <<>>)
  BY DEF config_store_save_network
<1>2. stage = 14 /\ job = NoJob /\ CsTypes
  BY <1>1, StageCount DEF Idle, Ready, CsInv
<1> DEFINE path == NetPath("config")
<1>3. IsPath(path) /\ path[1] = "net" /\ path[5] = "" /\ ~OfProfile(path)
  <2>1. "config" \in Dirs
    BY DEF Dirs
  <2> QED BY <2>1, OtherPaths
<1>4. Start("atomic", path, n, "save", <<>>)
  BY <1>1
<1> HIDE DEF path
<1>5. /\ job'.kind = "atomic" /\ job'.path = path /\ job'.step = "tmp"
      /\ job'.caller = "save" /\ job' # NoJob
  BY <1>4, StartIs
<1>6. JobTypes'
  <2>1. stage' = Loaded
    BY <1>1, <1>2, StageCount
  <2> QED BY <1>3, <1>4, <2>1, JobStarts
<1>7. AtomicJob'
  BY <1>3, <1>5 DEF AtomicJob, OfProfile
<1>8. ASSUME NEW b \in Buses, NEW s \in Stems PROVE Stored(files', b, s, Owed(b, s)')
  <2>1. Owed(b, s)' = may[b][s]
    BY <1>1, <1>5 DEF Owed, Saving
  <2> QED BY <1>1, <2>1, OwedIsMay, Zenon
<1>9. CsTypes' /\ StartInv'
  <2>1. may' = [x \in Buses |-> [y \in Stems |-> may'[x][y]]]
    BY <1>1, <1>2, Zenon DEF CsTypes
  <2> QED BY <1>1, <1>2, <2>1, LoadedKeeps
<1> QED BY <1>5, <1>6, <1>7, <1>8, <1>9 DEF CsInv, JobInv

\* When a save returns, the flash holds what it then says it holds, the copy in
\* the fallback directory aside.
LEMMA SavedStores ==
    ASSUME CsInv, job # NoJob, job.step = "done", job.kind = "device",
           job.caller \in {"save", "copy"}, NEW cs,
           cs = IF job.caller = "copy" THEN may[job.path[1]][job.path[3]]
                                       ELSE job.after[job.ok]
    PROVE  /\ OfProfile(job.path) /\ Stored(files, job.path[1], job.path[3], cs)
           /\ job.ok => LET r == parse_profile(job.doc, job.path[1]) IN
                        r.ok /\ Effective(r.config) \in cs
<1> DEFINE b == job.path[1]
           s == job.path[3]
           r == parse_profile(job.doc, b)
<1>1. DeviceJob /\ JobTypes
  BY DEF CsInv, JobInv
<1>2. b \in Buses /\ s \in Stems /\ OfProfile(job.path)
  BY <1>1 DEF DeviceJob, OfProfile
<1>3. r.ok /\ Effective(r.config) \in IF job.caller = "save" THEN job.after[TRUE] ELSE may[b][s]
  BY <1>1, Zenon DEF DeviceJob
<1>4. CASE job.ok
  <2>1. r.ok /\ Effective(r.config) \in cs
    BY <1>3, <1>4
  <2>2. job.path \in DOMAIN files /\ files[job.path] = job.doc /\ job.path[5] = ""
    BY <1>1, <1>4 DEF JobTypes, SaveDone
  <2>3. LET q == parse_profile(files[job.path], job.path[1]) IN
        q.ok /\ Effective(q.config) \in cs
    BY <2>1, <2>2, Zenon
  <2>4. Stored(files, b, s, cs)
    BY <2>2, <2>3, StoredIn
  <2> QED BY <1>2, <2>1, <2>4
<1>5. CASE ~job.ok
  <2>1. job.ok = FALSE
    BY <1>1, <1>5 DEF JobTypes
  <2>2. cs = Owed(b, s)
    <3>1. CASE job.caller = "copy"
      BY <3>1, Zenon DEF Owed, Saving
    <3>2. CASE job.caller = "save"
      <4>1. Saving /\ ~SaveDone
        BY <2>1, <3>2 DEF Saving, SaveDone
      <4> QED BY <2>1, <3>2, <4>1 DEF Owed
    <3> QED BY <3>1, <3>2
  <2> QED BY <1>2, <1>5, <2>2, Zenon DEF CsInv
<1> QED BY <1>4, <1>5

\* A save returns, or writes its copy in the fallback directory.
LEMMA SavedKeeps == ASSUME CsInv, Saved PROVE CsInv'
<1> DEFINE b == job.path[1]
           s == job.path[3]
           p == <<b, "configs", s, job.path[4], "">>
           copies == job.ok /\ job.caller = "save" /\ origin.fbdir /\ b # "mdio"
<1>1. /\ job # NoJob /\ job.step = "done" /\ job.caller \in {"save", "copy"}
      /\ UNCHANGED <<files, mounted, stage, tried, failed>>
      /\ IF copies THEN Start(job.kind, p, job.doc, "copy", <<>>) ELSE job' = NoJob
      /\ may' = IF b = "net" \/ job.caller = "copy" THEN may
                ELSE [may EXCEPT ![b][s] = job.after[job.ok]]
  BY DEF Saved, Writing
<1>2. /\ CsTypes /\ JobTypes /\ (job.kind = "atomic" => AtomicJob)
      /\ (job.kind = "device" => DeviceJob)
  BY <1>1, Zenon DEF CsInv, JobInv
<1>3. stage = 14 /\ stage = Loaded
  BY <1>1, <1>2, StageCount DEF JobTypes
<1>4. IsPath(p) /\ p[1] = b /\ p[3] = s /\ p[4] = job.path[4] /\ p[5] = ""
  <2>1. /\ job.path[1] \in Buses \cup {"net"} /\ job.path[4] \in Layouts
        /\ job.path[3] \in Stems \cup {"network", "initialized"}
    BY <1>2, PathFacts DEF JobTypes
  <2>2. "configs" \in Dirs \cup {"smi"} /\ "" \in {"", "bak", "tmp"}
    BY DEF Dirs
  <2>3. IsPath(p)
    BY <2>1, <2>2, Zenon DEF IsPath
  <2> QED BY <2>3
<1>5. /\ may' = [x \in Buses |-> [y \in Stems |-> may'[x][y]]]
      /\ job.kind = "device" => may'[b][s] = IF job.caller = "copy" THEN may[b][s]
                                                                  ELSE job.after[job.ok]
      /\ job.kind = "atomic" => may' = may
      /\ \A x \in Buses, y \in Stems : x # b \/ y # s => may'[x][y] = may[x][y]
  <2>1. may = [x \in Buses |-> [y \in Stems |-> may[x][y]]]
    BY <1>2 DEF CsTypes
  <2>2. job.kind = "atomic" => b = "net" \/ job.caller = "copy"
    BY <1>1, <1>2 DEF AtomicJob
  <2>3. job.kind \in {"atomic", "device"}
    BY <1>2 DEF JobTypes
  <2>4. CASE b = "net" \/ job.caller = "copy"
    <3>1. may' = may
      BY <1>1, <2>4
    <3>2. job.kind = "device" => b # "net"
      BY <1>2 DEF DeviceJob, OfProfile, Buses
    <3>3. may' = [x \in Buses |-> [y \in Stems |-> may'[x][y]]]
      BY <2>1, <3>1, Zenon
    <3> HIDE DEF b, s
    <3>4. job.kind = "device" => job.caller = "copy"
      BY <2>4, <3>2
    <3> QED BY <3>1, <3>3, <3>4
  <2>5. CASE ~(b = "net" \/ job.caller = "copy")
    <3>1. may' = [may EXCEPT ![b][s] = job.after[job.ok]]
      BY <1>1, <2>5
    <3>2. job.kind = "device" /\ job.caller # "copy"
      BY <2>2, <2>3, <2>5
    <3>3. b \in Buses /\ s \in Stems
      BY <1>2, <3>2 DEF DeviceJob, OfProfile
    <3> DEFINE new == job.after[job.ok]
    <3>4. may' = [may EXCEPT ![b][s] = new]
      BY <3>1
    <3> HIDE DEF b, s, new
    <3>5. /\ may' = [x \in Buses |-> [y \in Stems |-> may'[x][y]]] /\ may'[b][s] = new
          /\ \A x \in Buses, y \in Stems : x # b \/ y # s => may'[x][y] = may[x][y]
      <4>1. ASSUME NEW x \in Buses PROVE may[x] = [y \in Stems |-> may[x][y]]
        <5>1. may[x] = [z \in Buses |-> [y \in Stems |-> may[z][y]]][x]
          BY <2>1, Zenon
        <5> QED BY <5>1
      <4>2. may' = [x \in Buses |-> IF x = b THEN [may[b] EXCEPT ![s] = new] ELSE may[x]]
        BY <2>1, <3>4
      <4>3. [may[b] EXCEPT ![s] = new] = [y \in Stems |-> IF y = s THEN new ELSE may[b][y]]
        BY <3>3, <4>1
      <4>4. ASSUME NEW x \in Buses PROVE may'[x] = [y \in Stems |-> may'[x][y]]
        BY <4>1, <4>2, <4>3
      <4>5. may' = [x \in Buses |-> may'[x]]
        BY <4>2
      <4> QED BY <3>3, <4>2, <4>3, <4>4, <4>5
    <3> QED BY <2>3, <3>2, <3>5 DEF new
  <2> QED BY <2>4, <2>5
<1> HIDE DEF b, s, p, copies
<1>6. CsTypes' /\ StartInv'
  BY <1>1, <1>3, <1>5, LoadedKeeps
<1>7. ASSUME NEW x \in Buses, NEW y \in Stems PROVE Stored(files', x, y, may'[x][y])
  <2>1. CASE job.kind = "device" /\ x = b /\ y = s
    <3>1. Stored(files, b, s, may'[b][s])
      BY <1>1, <1>5, <2>1, SavedStores DEF b, s
    <3> QED BY <1>1, <2>1, <3>1, Zenon
  <2>2. CASE ~(job.kind = "device" /\ x = b /\ y = s)
    <3>1. may'[x][y] = may[x][y]
      <4>1. job.kind \in {"atomic", "device"}
        BY <1>2 DEF JobTypes
      <4> QED BY <1>5, <2>2, <4>1
    <3>2. Stored(files, x, y, may[x][y])
      BY OwedIsMay
    <3> QED BY <1>1, <3>1, <3>2, Zenon
  <2> QED BY <2>1, <2>2
<1>8. ASSUME ~Saving' \/ job' = NoJob, NEW x \in Buses, NEW y \in Stems
      PROVE  Stored(files', x, y, Owed(x, y)')
  <2>1. Owed(x, y)' = may'[x][y]
    BY <1>8, Zenon DEF Owed, Saving
  <2> QED BY <1>7, <2>1, Zenon
<1>9. CASE ~copies
  <2>1. job' = NoJob
    BY <1>1, <1>9
  <2> QED BY <1>6, <1>8, <2>1, Zenon DEF CsInv, JobInv
<1>10. CASE copies
  <2>1. Start(job.kind, p, job.doc, "copy", <<>>) /\ job.ok /\ job.caller = "save"
    BY <1>1, <1>10 DEF copies
  <2>2. job.kind \in {"atomic", "device"}
    BY <1>2 DEF JobTypes
  <2>3. /\ job'.kind = job.kind /\ job'.path = p /\ job'.doc = job.doc /\ job'.step = "tmp"
        /\ job'.caller = "copy" /\ job'.had = file_exists(p) /\ job' # NoJob
    BY <2>1, <2>2, StartIs
  <2>4. JobTypes'
    <3>1. stage' = Loaded
      BY <1>1, <1>3
    <3> QED BY <1>4, <2>1, <2>2, <3>1, JobStarts
  <2>5. job'.kind = "atomic" => AtomicJob'
    <3>1. job.kind = "atomic" => b = "net" /\ b \notin Buses
      BY <1>2, <2>1 DEF AtomicJob, Buses, b
    <3> QED BY <1>4, <2>3, <3>1 DEF AtomicJob, OfProfile
  <2>6. job'.kind = "device" => DeviceJob'
    <3> SUFFICES ASSUME job.kind = "device" PROVE DeviceJob'
      BY <2>3
    <3>1. job.path[4] = "canon"
      BY <1>2 DEF DeviceJob
    <3>2. OfProfile(job.path) /\ LET r == parse_profile(job.doc, b) IN
             r.ok /\ Effective(r.config) \in may'[b][s]
      BY <1>1, <1>5, <2>1, SavedStores DEF b, s
    <3>3. OfProfile(p) /\ p[4] = "canon"
      BY <1>4, <3>1, <3>2 DEF OfProfile, b, s
    <3>4. /\ LET r == parse_profile(job'.doc, job'.path[1]) IN
             r.ok /\ Effective(r.config) \in may'[job'.path[1]][job'.path[3]]
      BY <1>4, <2>3, <3>2, Zenon
    <3>5. job'.had => job'.path \in DOMAIN files'
      BY <1>1, <2>3, Zenon DEF file_exists
    <3>6. job'.step \notin {"unlink", "backup", "retire", "commit", "restore"}
          /\ job'.caller = "copy"
      BY <2>3
    <3> DEFINE old == may'[job'.path[1]][job'.path[3]]
    <3>7. job'.caller # "save" /\ job'.caller # "boot" /\ old \subseteq old
      BY <3>6
    <3> QED BY <2>3, <3>3, <3>4, <3>5, <3>6, <3>7 DEF DeviceJob, OfProfile
  <2>7. ~Saving'
    BY <2>3 DEF Saving
  <2> QED BY <1>6, <1>8, <2>3, <2>4, <2>5, <2>6, <2>7, Zenon DEF CsInv, JobInv
<1> QED BY <1>9, <1>10

\* Every step keeps the invariant.
LEMMA CsKeeps == ASSUME CsInv, [CsNext]_csvars PROVE CsInv'
<1>1. CASE UNCHANGED csvars
  <2>1. /\ files' = files /\ mounted' = mounted /\ stage' = stage /\ tried' = tried
        /\ job' = job /\ failed' = failed /\ may' = may
    BY <1>1 DEF csvars
  <2>2. CsTypes' /\ StartInv'
    BY <2>1, Zenon DEF CsInv, CsTypes, StartInv, Recovered, AfterRecovery, Loaded
  <2>3. JobInv'
    BY <2>1 DEF CsInv, JobInv, JobTypes, AtomicJob, DeviceJob, SaveDone, OfProfile, tmp, bak,
                Loaded
  <2>4. ASSUME NEW b \in Buses, NEW s \in Stems PROVE Stored(files', b, s, Owed(b, s)')
    <3>1. Owed(b, s)' = Owed(b, s)
      BY <2>1, Zenon DEF Owed, Saving, SaveDone
    <3> QED BY <2>1, <3>1, Zenon DEF CsInv
  <2> QED BY <2>2, <2>3, <2>4, Zenon DEF CsInv
<1>2. CASE CsNext
  BY <1>2, MountKeeps, BootWaitKeeps, BootWriteKeeps, BootWrittenKeeps, BootNextKeeps,
     BootLoadKeeps, WriteFileKeeps, SaveDeviceKeeps, SaveNetworkKeeps, SavedKeeps, CrashKeeps
     DEF CsNext
<1> QED BY <1>1, <1>2

\* What the flash is said to hold is in a file.
LEMMA SurvivesIn == ASSUME CsInv PROVE ProfileSurvives
<1>1. CsTypes
  BY DEF CsInv
<1>2. ASSUME NEW b \in DOMAIN may, NEW s \in DOMAIN may[b]
      PROVE  \/ may[b][s] \cap (Default[b][s] \cup {NoProfile}) # {}
             \/ \E p \in DOMAIN files :
                   /\ p[1] = b /\ p[3] = s /\ p[5] \in {"", "bak"}
                   /\ LET r == parse_profile(files[p], b) IN
                      r.ok /\ Effective(r.config) \in may[b][s]
  <2>1. b \in Buses /\ s \in Stems
    BY <1>1, <1>2 DEF CsTypes
  <2>2. Stored(files, b, s, may[b][s])
    BY <2>1, OwedIsMay
  <2> QED BY <2>2, Zenon DEF Stored, Carries
<1> QED BY <1>2, Zenon DEF ProfileSurvives

\* A saved profile is whole in a file that a start reads or recovers, at every moment
\* of a save, a start or a power failure (config_task, write_device_file).
THEOREM ProfilesSurvive == CsSpec => []ProfileSurvives
<1>1. CsInit => CsInv
  BY CsStarts
<1>2. CsInv /\ [CsNext]_csvars => CsInv'
  BY CsKeeps
<1>3. CsInv => ProfileSurvives
  BY SurvivesIn
<1> QED BY <1>1, <1>2, <1>3, PTL DEF CsSpec

----------------------------------------------------------------------------
(* The parts together.                                                     *)

\* A step of the platform is a step of one device or none: the parts share no state, as
\* the cores of the fabric and the block devices of the images share none, so what is
\* proved of each driver and card alone holds of the platform that the run checks.
THEOREM PlatformHasDevices ==
    PlatformSpec => SlaveSpec /\ HwSpec /\ Spec /\ SdSpec /\ CardSpec /\ QspiSpec
<1> DEFINE all == <<part, devicevars, configvars>>
           Steps == /\ [SlaveNext]_slavevars /\ [HwNext]_hwvars /\ [Next]_vars
                    /\ [SdNext]_sdvars /\ [CardNext]_rawvars /\ [QspiNext]_qspivars
<1>1. PlatformInit => SlaveInit /\ HwInit /\ Init /\ SdInit /\ CardInit /\ QspiInit
  BY DEF PlatformInit, DevicesInit
<1>2. [PlatformNext]_all => Steps
  BY DEF PlatformNext, Device, Configuration, devicevars
<1> QED
  BY <1>1, <1>2, PTL DEF PlatformSpec, SlaveSpec, HwSpec, Spec, SdSpec, CardSpec, QspiSpec
=============================================================================
