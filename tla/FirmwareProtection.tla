-------------------------- MODULE FirmwareProtection --------------------------
(***************************************************************************)
(* The calls this firmware makes to its memory protection: main registers  *)
(* the critical text (src/critical_exec.c), MemScrub the scrub area when   *)
(* its task starts, every watchdog kick checks that it may be executed,    *)
(* and every access of the scrubber that it may read or write its byte.    *)
(* Where text, kick and scrub area are is the linker's choice.             *)
(***************************************************************************)
EXTENDS MemoryProtection

VARIABLES
    layout,      \* the addresses the linker has assigned
    scrubReady   \* memory_scrub_init has registered the scrub area

fwVars == <<protVars, layout, scrubReady>>

ASSUME FirmwareAssumption == MaxRegions >= 2

(* The text may be empty in a build without .text.critical; otherwise the  *)
(* kick is in it.  The scrub area is an object in .bss, outside the text.  *)
Layouts ==
    {l \in [textStart : Address, textEnd : Address, kick : Address,
            scrubStart : Address, scrubEnd : Address] :
        /\ l.textStart < l.textEnd => l.textStart <= l.kick /\ l.kick < l.textEnd
        /\ l.scrubStart < l.scrubEnd
        /\ l.scrubEnd <= l.textStart \/ l.textEnd <= l.scrubStart
        /\ l.kick < l.scrubStart \/ l.scrubEnd <= l.kick}

(* memory_protection_register_critical_text *)
CriticalText(l) == IF l.textStart < l.textEnd
                   THEN <<Region(l.textStart, l.textEnd, {"READ", "EXEC"})>> ELSE <<>>

(* main: init, then the critical text; the scheduler starts afterwards.    *)
FwInit ==
    /\ layout \in Layouts
    /\ protected_regions = CriticalText(layout)
    /\ violation_count = 0
    /\ degraded_requests = 0
    /\ scrubReady = FALSE

(* memory_scrub_protect_buffers, once, before MemScrub's first access.     *)
ScrubPermissionsReadOnly == {"READ"}
ScrubPermissions == {"READ", "WRITE"}

MemoryScrubInit ==
    /\ ~scrubReady
    /\ ProtectRegion(Region(layout.scrubStart, layout.scrubEnd, ScrubPermissions))
    /\ scrubReady' = TRUE
    /\ UNCHANGED layout

(* watchdog_kick, by any task at any time. *)
WatchdogKick ==
    /\ CheckAccess(layout.kick, 1, {"EXEC"})
    /\ UNCHANGED <<layout, scrubReady>>

(* scrub_read and scrub_write *)
ScrubAccess ==
    /\ scrubReady
    /\ \E idx \in layout.scrubStart .. (layout.scrubEnd - 1), access \in {"READ", "WRITE"} :
          CheckAccess(idx, 1, {access})
    /\ UNCHANGED <<layout, scrubReady>>

FwNext == MemoryScrubInit \/ WatchdogKick \/ ScrubAccess

FwSpec == FwInit /\ [][FwNext]_fwVars

-----------------------------------------------------------------------------
FwTypeOK == ProtTypeOK /\ layout \in Layouts /\ scrubReady \in BOOLEAN

(* The firmware never trips over its own protection, wherever the linker   *)
(* has put things: no kick is blocked, no correction refused, and nothing  *)
(* is ever escalated for reason 0x04.                                      *)
NeverBlocked == violation_count = 0 /\ degraded_requests = 0

(* What makes it inductive: the table holds nothing but those two regions. *)
FwInv ==
    /\ FwTypeOK
    /\ protected_regions =
          CriticalText(layout) \o
          (IF scrubReady
           THEN <<Region(layout.scrubStart, layout.scrubEnd, ScrubPermissions)>> ELSE <<>>)
    /\ NeverBlocked
=============================================================================
