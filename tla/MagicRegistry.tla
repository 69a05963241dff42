--------------------------- MODULE MagicRegistry ----------------------------
(***************************************************************************)
(* CMagicRegistry of Include/CMagicRegistry.mqh: a file shared by all      *)
(* terminals that says which magic number is whose, and the OnInit of the  *)
(* stdlib scaffolds that uses it:                                          *)
(*                                                                         *)
(*     if(!registry.Check(InpMagic)) registry.Reserve(InpMagic, name);     *)
(*                                                                         *)
(* FileOpen without FILE_SHARE flags takes the file for one EA.  Owner     *)
(* names and times are left out: an entry is the magic and who wrote it.   *)
(***************************************************************************)
EXTENDS Naturals

CONSTANTS
    EAs,            \* EAs of all terminals of the machine
    Nobody,         \* the file is not open
    MagicOf,        \* InpMagic of each EA
    MaxTries        \* how often Reserve tries to open the file (50)

ASSUME MagicAssumption == Nobody \notin EAs /\ MaxTries \in Nat \ {0}

VARIABLES
    at,             \* where each EA is
    tries,          \* the loop variable of its Reserve
    handle,         \* who has the file open
    registry        \* the entries of the file

magicVars == <<at, tries, handle, registry>>

Taken(m) == \E e \in registry : e.magic = m

MagicTypeOK ==
    /\ at \in [EAs -> {"off", "check", "read", "reserve", "scan", "append", "runs"}]
    /\ tries \in [EAs -> 0..MaxTries]
    /\ handle \in EAs \union {Nobody}
    /\ \A e \in registry : e.by \in EAs /\ e = [magic |-> MagicOf[e.by], by |-> e.by]

MagicInit ==
    /\ at = [e \in EAs |-> "off"]
    /\ tries = [e \in EAs |-> 0]
    /\ handle = Nobody
    /\ registry = {}

GoTo(e, place) == at' = [at EXCEPT ![e] = place]

OnInit(e) ==
    /\ at[e] = "off"
    /\ GoTo(e, "check")
    /\ tries' = [tries EXCEPT ![e] = 0]
    /\ UNCHANGED <<handle, registry>>

\* Mutant: a registry that cannot be opened counts as one with the magic.
CheckOpenTrusting(e) ==
    /\ at[e] = "check"
    /\ \/ handle = Nobody /\ handle' = e /\ GoTo(e, "read")
       \/ handle # Nobody /\ GoTo(e, "runs") /\ UNCHANGED handle
    /\ UNCHANGED <<tries, registry>>

\* Check: a registry that cannot be opened counts as empty.
CheckOpen(e) ==
    /\ at[e] = "check"
    /\ \/ handle = Nobody /\ handle' = e /\ GoTo(e, "read")
       \/ handle # Nobody /\ GoTo(e, "reserve") /\ UNCHANGED handle
    /\ UNCHANGED <<tries, registry>>

ReadAll(e) ==
    /\ at[e] = "read"
    /\ handle' = Nobody
    /\ GoTo(e, IF Taken(MagicOf[e]) THEN "runs" ELSE "reserve")
    /\ UNCHANGED <<tries, registry>>

\* Reserve opens the file, or sleeps and tries again, or gives up: OnInit does not look
\* at what it returns.
ReserveOpen(e) ==
    /\ at[e] = "reserve"
    /\ \/ /\ handle = Nobody
          /\ handle' = e
          /\ GoTo(e, "scan")
          /\ UNCHANGED tries
       \/ /\ handle # Nobody
          /\ tries' = [tries EXCEPT ![e] = @ + 1]
          /\ GoTo(e, IF tries[e] + 1 = MaxTries THEN "runs" ELSE "reserve")
          /\ UNCHANGED handle
    /\ UNCHANGED registry

\* Mutant: the scan closes the file, and the append opens it again.
ScanAndClose(e) ==
    /\ at[e] = "scan"
    /\ handle' = Nobody
    /\ GoTo(e, IF Taken(MagicOf[e]) THEN "runs" ELSE "append")
    /\ UNCHANGED <<tries, registry>>

\* The scan leaves the file open unless the magic is taken.
Scan(e) ==
    /\ at[e] = "scan"
    /\ \/ Taken(MagicOf[e]) /\ handle' = Nobody /\ GoTo(e, "runs")
       \/ ~Taken(MagicOf[e]) /\ GoTo(e, "append") /\ UNCHANGED handle
    /\ UNCHANGED <<tries, registry>>

AddEntry(e) == registry' = registry \union {[magic |-> MagicOf[e], by |-> e]}

AppendEntry(e) ==
    /\ at[e] = "append"
    /\ AddEntry(e)
    /\ handle' = Nobody
    /\ GoTo(e, "runs")
    /\ UNCHANGED tries

\* The terminal stops or is killed; what was written and not yet flushed may be lost.
Kill(e) ==
    /\ at[e] # "off"
    /\ GoTo(e, "off")
    /\ handle' = IF handle = e THEN Nobody ELSE handle
    /\ \/ UNCHANGED registry
       \/ at[e] = "append" /\ AddEntry(e)
    /\ UNCHANGED tries

MagicNext ==
    \E e \in EAs : \/ OnInit(e) \/ CheckOpen(e) \/ ReadAll(e) \/ ReserveOpen(e)
                   \/ Scan(e) \/ AppendEntry(e) \/ Kill(e)

MagicSpec == MagicInit /\ [][MagicNext]_magicVars

-----------------------------------------------------------------------------
\* Two EAs that start at the same time never both reserve one magic, wherever they are
\* interrupted.
ReservedOnce ==
    \A e, f \in registry : e.magic = f.magic => e = f

\* An EA that trades has its magic in the registry, also when Check took a locked file
\* for an empty one; except after it found the file locked MaxTries times.
RunsRegistered ==
    \A e \in EAs : at[e] = "runs" => Taken(MagicOf[e]) \/ tries[e] = MaxTries

=============================================================================
