------------------------ MODULE MemoryProtectionProofs ------------------------
(***************************************************************************)
(* Proofs about the software memory protection, for an address space and a *)
(* region table of any size, and about the firmware's use of it, for any   *)
(* layout the linker may choose.                                           *)
(***************************************************************************)
EXTENDS FirmwareProtection, TLAPS

USE MemoryProtectionAssumption, FirmwareAssumption

-----------------------------------------------------------------------------
(* region_overlaps holds of a region exactly when the access touches one   *)
(* of its bytes.                                                           *)
TouchesByte(region, address, size) ==
  \E byte \in address .. (address + size - 1) : Contains(region, byte)

LEMMA OverlapIsExact ==
  ASSUME NEW r \in memory_region_t, NEW address \in Address, NEW size \in Nat \ {0},
         address + size < AddressSpace \/ size = 1
  PROVE  region_overlaps(r, address, size) <=> TouchesByte(r, address, size)
<1> USE DEF memory_region_t, Address
<1>1. CASE address + size < AddressSpace
  <2>1. (address + size) % AddressSpace = address + size
    BY <1>1
  <2>2. ASSUME region_overlaps(r, address, size)
        PROVE  TouchesByte(r, address, size)
    <3>1. address < r.end /\ address + size > r.start
      BY <2>1, <2>2 DEF region_overlaps
    <3>2. CASE r.start <= address
      BY <3>1, <3>2 DEF TouchesByte, Contains
    <3>3. CASE address < r.start
      BY <3>1, <3>3 DEF TouchesByte, Contains
    <3> QED BY <3>2, <3>3
  <2>3. ASSUME TouchesByte(r, address, size)
        PROVE  region_overlaps(r, address, size)
    BY <2>1, <2>3 DEF region_overlaps, TouchesByte, Contains
  <2> QED BY <2>2, <2>3
<1>2. CASE ~(address + size < AddressSpace)
  <2>1. size = 1 /\ address = AddressSpace - 1
    BY <1>2
  <2>2. ~region_overlaps(r, address, size)
    BY <2>1 DEF region_overlaps
  <2>3. ~TouchesByte(r, address, size)
    BY <2>1 DEF TouchesByte, Contains
  <2> QED BY <2>2, <2>3
<1> QED BY <1>1, <1>2

LEMMA TypeGivesExact == ProtTypeOK => ChecksAreExact
<1> SUFFICES ASSUME ProtTypeOK, NEW address \in Address, NEW size \in 1 .. AddressSpace,
                    NEW access \in SUBSET mem_perm_t,
                    address + size < AddressSpace \/ size = 1
             PROVE  IsAllowed(address, size, access) <=> EveryBytePermits(address, size, access)
  BY DEF ChecksAreExact
<1>1. ASSUME NEW i \in 1 .. Len(protected_regions)
      PROVE  Forbids(protected_regions[i], address, size, access) <=>
               /\ TouchesByte(protected_regions[i], address, size)
               /\ ~(access \subseteq protected_regions[i].permissions)
  <2>1. protected_regions[i] \in memory_region_t
    BY DEF ProtTypeOK
  <2>2. region_overlaps(protected_regions[i], address, size)
          <=> TouchesByte(protected_regions[i], address, size)
    BY <2>1, OverlapIsExact
  <2> QED BY <2>2 DEF Forbids
<1>2. CASE access = {}
  BY <1>2 DEF IsAllowed, EveryBytePermits
<1>3. CASE access # {}
  BY <1>1, <1>3 DEF IsAllowed, EveryBytePermits, TouchesByte
<1> QED BY <1>2, <1>3

-----------------------------------------------------------------------------
(* Preservation of the types by the operations. *)
LEMMA AddRegionType ==
  ASSUME ProtTypeOK, NEW r \in memory_region_t, AddRegion(r)
  PROVE  /\ protected_regions' \in Seq(memory_region_t)
         /\ Len(protected_regions') <= MaxRegions
  BY DEF ProtTypeOK, AddRegion

LEMMA CheckAccessType ==
  ASSUME ProtTypeOK, NEW address, NEW size, NEW access, CheckAccess(address, size, access)
  PROVE  ProtTypeOK'
  BY DEF ProtTypeOK, CheckAccess, RecordViolation

LEMMA AnyProtectAdds ==
  ASSUME AnyProtect
  PROVE  /\ \E r \in memory_region_t : AddRegion(r)
         /\ UNCHANGED <<violation_count, degraded_requests>>
<1>1. PICK start, end \in Address, perms \in Permissions :
           start < end /\ ProtectRegion(Region(start, end, perms))
  BY DEF AnyProtect
<1>2. Region(start, end, perms) \in memory_region_t
  BY <1>1 DEF Region, memory_region_t
<1> QED BY <1>1, <1>2 DEF ProtectRegion

LEMMA TypeStep == ProtTypeOK /\ [ProtNext]_protVars => ProtTypeOK'
<1> SUFFICES ASSUME ProtTypeOK, [ProtNext]_protVars PROVE ProtTypeOK'
  OBVIOUS
<1>1. CASE AnyProtect
  BY <1>1, AnyProtectAdds, AddRegionType DEF ProtTypeOK
<1>2. CASE AnyAccess
  BY <1>2, CheckAccessType DEF AnyAccess
<1>3. CASE UNCHANGED protVars
  BY <1>3 DEF protVars, ProtTypeOK
<1> QED BY <1>1, <1>2, <1>3 DEF ProtNext

(* The table never outgrows its array, and everything in it is a region.   *)
THEOREM ProtectionTypeCorrect == ProtSpec => []ProtTypeOK
<1>1. ProtInit => ProtTypeOK
  BY DEF ProtInit, ProtTypeOK
<1> QED BY <1>1, TypeStep, PTL DEF ProtSpec

(* The check is the byte-wise check, for every table anyone may set up.    *)
THEOREM ChecksExact == ProtSpec => []ChecksAreExact
  BY ProtectionTypeCorrect, TypeGivesExact, PTL

(* No later call makes an access possible that is forbidden now.           *)
THEOREM GrowsOnly == ProtSpec => ProtectionOnlyGrows
<1> DEFINE Grows ==
      \A address \in Address, size \in 1 .. AddressSpace, access \in SUBSET mem_perm_t :
        ~IsAllowed(address, size, access) => ~IsAllowed(address, size, access)'
<1>1. ProtTypeOK /\ [ProtNext]_protVars => [Grows]_protVars
  <2> SUFFICES ASSUME ProtTypeOK, ProtNext,
                      NEW address \in Address, NEW size \in 1 .. AddressSpace,
                      NEW access \in SUBSET mem_perm_t, ~IsAllowed(address, size, access)
               PROVE  ~IsAllowed(address, size, access)'
    OBVIOUS
  <2>1. PICK i \in 1 .. Len(protected_regions) :
             Forbids(protected_regions[i], address, size, access)
    BY DEF IsAllowed
  <2>2. access # {}
    BY DEF IsAllowed
  <2>3. i \in 1 .. Len(protected_regions') /\ protected_regions'[i] = protected_regions[i]
    <3>1. CASE AnyProtect
      <4>1. PICK r \in memory_region_t : AddRegion(r)
        BY <3>1, AnyProtectAdds
      <4> QED BY <4>1 DEF AddRegion, ProtTypeOK
    <3>2. CASE AnyAccess
      BY <3>2 DEF AnyAccess, CheckAccess
    <3> QED BY <3>1, <3>2 DEF ProtNext
  <2> QED BY <2>1, <2>2, <2>3 DEF IsAllowed, Forbids, region_overlaps
<1> QED BY <1>1, ProtectionTypeCorrect, PTL DEF ProtSpec, ProtectionOnlyGrows

-----------------------------------------------------------------------------
(* The firmware's own accesses. *)
LEMMA LayoutFacts ==
  ASSUME NEW l \in Layouts
  PROVE  /\ l.textStart \in Address /\ l.textEnd \in Address /\ l.kick \in Address
         /\ l.scrubStart \in Address /\ l.scrubEnd \in Address
         /\ l.textStart < l.textEnd => l.textStart <= l.kick /\ l.kick < l.textEnd
         /\ l.scrubStart < l.scrubEnd
         /\ l.scrubEnd <= l.textStart \/ l.textEnd <= l.scrubStart
         /\ l.kick < l.scrubStart \/ l.scrubEnd <= l.kick
  BY DEF Layouts

LEMMA NextAddress ==
  ASSUME NEW a \in Address
  PROVE  (a + 1) % AddressSpace = IF a + 1 < AddressSpace THEN a + 1 ELSE 0
  BY DEF Address

(* What the table can hold. *)
LEMMA TableHolds ==
  ASSUME FwInv, NEW i \in 1 .. Len(protected_regions)
  PROVE  \/ /\ protected_regions[i] = Region(layout.textStart, layout.textEnd, {"READ", "EXEC"})
            /\ layout.textStart < layout.textEnd
         \/ protected_regions[i] = Region(layout.scrubStart, layout.scrubEnd, {"READ", "WRITE"})
  BY DEF FwInv, CriticalText, ScrubPermissions

LEMMA KickAllowed == FwInv => IsAllowed(layout.kick, 1, {"EXEC"})
<1> SUFFICES ASSUME FwInv, NEW i \in 1 .. Len(protected_regions)
             PROVE  ~Forbids(protected_regions[i], layout.kick, 1, {"EXEC"})
  BY DEF IsAllowed
<1>1. layout \in Layouts
  BY DEF FwInv, FwTypeOK
<1>2. CASE protected_regions[i] = Region(layout.textStart, layout.textEnd, {"READ", "EXEC"})
  BY <1>2 DEF Forbids, Region
<1>3. CASE protected_regions[i] = Region(layout.scrubStart, layout.scrubEnd, {"READ", "WRITE"})
  <2>1. ~region_overlaps(protected_regions[i], layout.kick, 1)
    BY <1>1, <1>3, LayoutFacts, NextAddress DEF region_overlaps, Region, Address
  <2> QED BY <2>1 DEF Forbids
<1> QED BY <1>2, <1>3, TableHolds

LEMMA ScrubAllowed ==
  ASSUME FwInv, NEW idx \in layout.scrubStart .. (layout.scrubEnd - 1),
         NEW access \in {"READ", "WRITE"}
  PROVE  IsAllowed(idx, 1, {access})
<1> SUFFICES ASSUME NEW i \in 1 .. Len(protected_regions)
             PROVE  ~Forbids(protected_regions[i], idx, 1, {access})
  BY DEF IsAllowed
<1>1. layout \in Layouts
  BY DEF FwInv, FwTypeOK
<1>2. CASE /\ protected_regions[i] = Region(layout.textStart, layout.textEnd, {"READ", "EXEC"})
           /\ layout.textStart < layout.textEnd
  <2>1. idx \in Address
    BY <1>1, LayoutFacts DEF Address
  <2>2. ~region_overlaps(protected_regions[i], idx, 1)
    BY <1>1, <1>2, <2>1, LayoutFacts, NextAddress DEF region_overlaps, Region, Address
  <2> QED BY <2>2 DEF Forbids
<1>3. CASE protected_regions[i] = Region(layout.scrubStart, layout.scrubEnd, {"READ", "WRITE"})
  BY <1>3 DEF Forbids, Region
<1> QED BY <1>2, <1>3, TableHolds

LEMMA CriticalTextType ==
  ASSUME NEW l \in Layouts
  PROVE  CriticalText(l) \in Seq(memory_region_t) /\ Len(CriticalText(l)) <= 1
<1>1. CASE l.textStart < l.textEnd
  <2>1. Region(l.textStart, l.textEnd, {"READ", "EXEC"}) \in memory_region_t
    BY <1>1, LayoutFacts DEF Region, memory_region_t, mem_perm_t
  <2> QED BY <1>1, <2>1 DEF CriticalText
<1>2. CASE ~(l.textStart < l.textEnd)
  BY <1>2 DEF CriticalText
<1> QED BY <1>1, <1>2

LEMMA FwInitInv == FwInit => FwInv
<1> SUFFICES ASSUME FwInit PROVE FwInv
  OBVIOUS
<1>1. layout \in Layouts
  BY DEF FwInit
<1>2. CriticalText(layout) \in Seq(memory_region_t) /\ Len(CriticalText(layout)) <= 1
  BY <1>1, CriticalTextType
<1>3. protected_regions = CriticalText(layout) \o <<>>
  BY <1>2 DEF FwInit
<1>4. ~scrubReady /\ scrubReady \in BOOLEAN
  BY DEF FwInit
<1>5. ProtTypeOK /\ NeverBlocked
  BY <1>2 DEF FwInit, ProtTypeOK, NeverBlocked
<1> QED BY <1>1, <1>3, <1>4, <1>5 DEF FwInv, FwTypeOK

LEMMA FwStepInv == FwInv /\ [FwNext]_fwVars => FwInv'
<1> SUFFICES ASSUME FwInv, [FwNext]_fwVars PROVE FwInv'
  OBVIOUS
<1>1. CASE MemoryScrubInit
  <2> DEFINE area == Region(layout.scrubStart, layout.scrubEnd, ScrubPermissions)
  <2>1. area \in memory_region_t
    BY LayoutFacts DEF FwInv, FwTypeOK, Region, memory_region_t, mem_perm_t, ScrubPermissions
  <2>2. /\ CriticalText(layout) \in Seq(memory_region_t)
        /\ Len(CriticalText(layout)) <= 1
        /\ protected_regions = CriticalText(layout)
    <3>1. CriticalText(layout) \in Seq(memory_region_t) /\ Len(CriticalText(layout)) <= 1
      BY CriticalTextType DEF FwInv, FwTypeOK
    <3> QED BY <1>1, <3>1 DEF FwInv, MemoryScrubInit
  <2>3. protected_regions' = CriticalText(layout) \o <<area>>
    BY <1>1, <2>1, <2>2 DEF MemoryScrubInit, ProtectRegion, AddRegion
  <2>4. ProtTypeOK'
    BY <1>1, <2>1, AddRegionType
       DEF FwInv, FwTypeOK, MemoryScrubInit, ProtectRegion, ProtTypeOK
  <2> QED BY <1>1, <2>3, <2>4
          DEF FwInv, FwTypeOK, NeverBlocked, MemoryScrubInit, ProtectRegion
<1>2. CASE WatchdogKick
  BY <1>2, KickAllowed
     DEF WatchdogKick, CheckAccess, FwInv, FwTypeOK, ProtTypeOK, NeverBlocked
<1>3. CASE ScrubAccess
  BY <1>3, ScrubAllowed
     DEF ScrubAccess, CheckAccess, FwInv, FwTypeOK, ProtTypeOK, NeverBlocked
<1>4. CASE UNCHANGED fwVars
  BY <1>4 DEF fwVars, protVars, FwInv, FwTypeOK, ProtTypeOK, NeverBlocked
<1> QED BY <1>1, <1>2, <1>3, <1>4 DEF FwNext

(* Once main has registered its regions, the table holds the critical text *)
(* and then the scrub area, with the permissions the accesses need.        *)
THEOREM FirmwareInvariance == FwSpec => []FwInv
<1> QED BY FwInitInv, FwStepInv, PTL DEF FwSpec

(* No kick of a watchdog and no access of the scrubber is ever blocked,    *)
(* for every layout: what allows Fdir to leave the checks out.             *)
THEOREM FirmwareNeverBlocked == FwSpec => []NeverBlocked
<1>1. FwInv => NeverBlocked
  BY DEF FwInv
<1> QED BY <1>1, FwInitInv, FwStepInv, PTL DEF FwSpec
=============================================================================
