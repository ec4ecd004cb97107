--------------------------- MODULE MemoryProtection ---------------------------
(***************************************************************************)
(* The software memory protection (src/memory_protection.c): a table of    *)
(* protected regions and the check every instrumented access goes through. *)
(* Its callers may be anyone; FirmwareProtection says who calls it in this *)
(* firmware.                                                               *)
(*                                                                         *)
(* AddressSpace   how many values uintptr_t has: address + size wraps      *)
(* MaxRegions     MAX_PROTECTED_REGIONS                                    *)
(* Threshold      MEM_PROT_VIOLATION_THRESHOLD                             *)
(* Permissions    the sets of permissions regions are registered with      *)
(* MaxViolations  bound: violations counted in a behaviour                 *)
(***************************************************************************)
EXTENDS Naturals, Sequences

CONSTANTS AddressSpace, MaxRegions, Threshold, Permissions, MaxViolations

mem_perm_t == {"READ", "WRITE", "EXEC"}

ASSUME MemoryProtectionAssumption ==
    /\ AddressSpace \in Nat \ {0}
    /\ MaxRegions \in Nat
    /\ Threshold \in Nat \ {0}
    /\ Permissions \subseteq SUBSET mem_perm_t
    /\ MaxViolations \in Nat

Address == 0 .. (AddressSpace - 1)

Region(start, end, perms) == [start |-> start, end |-> end, permissions |-> perms]
memory_region_t ==
    {r \in [start : Address, end : Address, permissions : SUBSET mem_perm_t] : r.start < r.end}

VARIABLES
    protected_regions,  \* the table as far as it is filled
    violation_count,
    degraded_requests   \* requests posted for DEGRADED with reason 0x04

protVars == <<protected_regions, violation_count, degraded_requests>>

ProtTypeOK ==
    /\ protected_regions \in Seq(memory_region_t)
    /\ Len(protected_regions) <= MaxRegions
    /\ violation_count \in Nat
    /\ degraded_requests \in Nat

(* memory_protection_init *)
ProtInit ==
    /\ protected_regions = <<>>
    /\ violation_count = 0
    /\ degraded_requests = 0

-----------------------------------------------------------------------------
EndsInside(region, address, size) ==
    /\ address >= region.start
    /\ (address + size) % AddressSpace <= region.end

(* The end of the access is computed in uintptr_t, and region.end is the   *)
(* first address behind the region.                                        *)
region_overlaps(region, address, size) ==
    /\ address < region.end
    /\ (address + size) % AddressSpace > region.start

(* memory_protection_check_access goes through the whole table, and the    *)
(* first region that forbids the access decides.                           *)
Forbids(region, address, size, access) ==
    /\ region_overlaps(region, address, size)
    /\ ~(access \subseteq region.permissions)

IsAllowed(address, size, access) ==
    \/ access = {}
    \/ \A i \in 1 .. Len(protected_regions) :
          ~Forbids(protected_regions[i], address, size, access)

(* record_violation *)
RecordViolation ==
    /\ violation_count' = violation_count + 1
    /\ degraded_requests' = IF violation_count' >= Threshold
                            THEN degraded_requests + 1 ELSE degraded_requests

CheckAccess(address, size, access) ==
    /\ IF IsAllowed(address, size, access)
       THEN UNCHANGED <<violation_count, degraded_requests>>
       ELSE RecordViolation
    /\ UNCHANGED protected_regions

(* memory_protection_add_region: a region there is no room for is dropped. *)
AddInSameSlot(region) ==
    protected_regions' =
        IF protected_regions = <<>> THEN <<region>>
        ELSE [protected_regions EXCEPT ![Len(protected_regions)] = region]

AddRegion(region) ==
    protected_regions' =
        IF Len(protected_regions) < MaxRegions THEN Append(protected_regions, region)
        ELSE protected_regions

(* memory_protection_protect_region *)
ProtectRegion(region) ==
    /\ AddRegion(region)
    /\ UNCHANGED <<violation_count, degraded_requests>>

-----------------------------------------------------------------------------
(* Callers register regions that are not empty. *)
AnyProtect ==
    \E start, end \in Address, perms \in Permissions :
        /\ start < end
        /\ ProtectRegion(Region(start, end, perms))

AnyAccess ==
    /\ violation_count < MaxViolations
    /\ \E address \in Address, size \in 1 .. AddressSpace, access \in SUBSET mem_perm_t :
          CheckAccess(address, size, access)

ProtNext == AnyProtect \/ AnyAccess

ProtSpec == ProtInit /\ [][ProtNext]_protVars

-----------------------------------------------------------------------------
(* The reference: the bytes an access touches, one by one. *)
Contains(region, byte) == region.start <= byte /\ byte < region.end

EveryBytePermits(address, size, access) ==
    \A byte \in address .. (address + size - 1), i \in 1 .. Len(protected_regions) :
        Contains(protected_regions[i], byte) => access \subseteq protected_regions[i].permissions

(* The two comparisons of region_overlaps decide exactly whether one of    *)
(* the bytes is protected against the access: nothing that touches a       *)
(* protected byte slips through, whichever end it touches, and nothing is  *)
(* refused for a byte it does not touch.  An access that would run past    *)
(* the top of the address space is left out; one of a single byte, the     *)
(* only size the firmware asks for, is exact wherever it is.               *)
ChecksAreExact ==
    \A address \in Address, size \in 1 .. AddressSpace, access \in SUBSET mem_perm_t :
        address + size < AddressSpace \/ size = 1 =>
            (IsAllowed(address, size, access) <=> EveryBytePermits(address, size, access))

(* Protection only grows: what is forbidden once, is forbidden for good,   *)
(* whatever regions are registered afterwards, with or without room.       *)
ProtectionOnlyGrows ==
    [][\A address \in Address, size \in 1 .. AddressSpace, access \in SUBSET mem_perm_t :
          ~IsAllowed(address, size, access) => ~IsAllowed(address, size, access)']_protVars
=============================================================================
