------------------------------- MODULE Loader -------------------------------
(***************************************************************************)
(* Boot-time loading of the guest (loader.c): elf_load checks the ELF      *)
(* header, then Elf_LoadProgram populates the region table from the memory *)
(* map (ROM regions, RAM regions, malloc RAM carved into units, devices),  *)
(* registers the malloc units with the allocator, adds code-cache regions, *)
(* and copies the PT_LOAD segments that lie in ROM.  Each loop iteration   *)
(* is one step; the loop index is i.                                       *)
(*                                                                         *)
(* Addresses and sizes are in KB (the memory map's unit).  The region      *)
(* table calls (mpu_address_set_rom_ram, _set_dev, _get_rom,               *)
(* _set_malloc_region) are not part of the sources: a registration may     *)
(* succeed or fail (NULL), _get_rom finds a span inside a ROM region.      *)
(***************************************************************************)
EXTENDS Naturals, Sequences

CONSTANTS
    MemMaps,  \* memory maps main may read: [rom, ram, dev] sequences
    Elfs,     \* ELF images: [valid, ph] with ph a sequence of program headers
    UnitKB    \* MPU_MALLOC_REGION_UNIT_SIZE

VARIABLES
    memap,    \* the MemoryAddressMapType being loaded
    elf,      \* the ELF image being loaded
    pc,       \* which loop of elf_load / Elf_LoadProgram runs
    i,        \* its index
    regions,  \* region table entries registered
    mallocs,  \* start of every unit registered with mpu_address_set_malloc_region
    cache,    \* code-cache regions added
    written,  \* KBs the segment memcpy has written
    result    \* what elf_load returned

vars == <<memap, elf, pc, i, regions, mallocs, cache, written, result>>

\* MpuAddressRegionType, reduced to what the loader decides.
Region(kind, start, size) == [kind |-> kind, start |-> start, size |-> size]

KBs(r) == r.start .. (r.start + r.size - 1)

\* mpu_address_get_rom: the span lies inside a registered ROM region.
InRom(a, n) == \E r \in regions : r.kind = "ROM" /\ a .. (a + n - 1) \subseteq KBs(r)

\* set_cache_code_from_map: executable map entries become cache regions.
CacheFromMap(m) ==
    IF m.exec THEN cache \cup {[start |-> m.start, size |-> m.size]} ELSE cache

\* Mutant of MallocUnits: unit_num rounded up instead of down.
MallocUnitsCeil(m) ==
    {m.start + k * UnitKB : k \in 0 .. ((m.size + UnitKB - 1) \div UnitKB - 1)}

\* The unit starts a malloc RAM entry is cut into: unit_num = size /
\* MPU_MALLOC_REGION_UNIT_SIZE, start advancing by one unit each time; a
\* remainder smaller than a unit is not registered at all.
MallocUnits(m) ==
    {m.start + k * UnitKB : k \in 0 .. (m.size \div UnitKB - 1)}

\* set_malloc_region
SetMallocRegion(m) == mallocs \cup MallocUnits(m)

\* A registration of the current entry fails: Elf_LoadProgram prints and
\* returns STD_E_INVALID, leaving what it registered so far in place.
\* The unit registrations of malloc RAM are (void) and never fail here.
RegisterFails ==
    /\ \/ pc = "rom" /\ i <= Len(memap.rom)
       \/ pc = "ram" /\ i <= Len(memap.ram) /\ memap.ram[i].type # "MALLOC"
       \/ pc = "dev" /\ i <= Len(memap.dev)
    /\ pc' = "done"
    /\ result' = "INVALID"
    /\ UNCHANGED <<memap, elf, i, regions, mallocs, cache, written>>

\* elf_load's first call: Elf_Check, nine header fields compared with
\* what athrill runs; any mismatch is STD_E_INVALID.
Check ==
    /\ pc = "check"
    /\ IF elf.valid
       THEN pc' = "rom" /\ i' = 1 /\ UNCHANGED result
       ELSE pc' = "done" /\ result' = "INVALID" /\ UNCHANGED i
    /\ UNCHANGED <<memap, elf, regions, mallocs, cache, written>>

\* for each rom[i]: mpu_address_set_rom_ram, then set_cache_code_from_map.
RomStep ==
    /\ pc = "rom"
    /\ IF i > Len(memap.rom)
       THEN pc' = "ram" /\ i' = 1 /\ UNCHANGED <<regions, cache>>
       ELSE LET m == memap.rom[i] IN
            /\ regions' = regions \cup {Region("ROM", m.start, m.size)}
            /\ cache' = CacheFromMap(m)
            /\ i' = i + 1 /\ UNCHANGED pc
    /\ UNCHANGED <<memap, elf, mallocs, written, result>>

\* Mutant of RamStep: a plain RAM registration that returns NULL is not
\* checked, and the loop goes on.
RamStepIgnoreFail ==
    /\ pc = "ram"
    /\ IF i > Len(memap.ram)
       THEN pc' = "mset" /\ i' = 1 /\ UNCHANGED <<regions, cache>>
       ELSE LET m == memap.ram[i] IN
            /\ IF m.type # "MALLOC"
               THEN \E ok \in BOOLEAN :
                       regions' = IF ok THEN regions \cup {Region("RAM", m.start, m.size)}
                                  ELSE regions
               ELSE \E ok \in SUBSET MallocUnits(m) :
                       regions' = regions \cup {Region("MALLOC", u, UnitKB) : u \in ok}
            /\ cache' = CacheFromMap(m)
            /\ i' = i + 1 /\ UNCHANGED pc
    /\ UNCHANGED <<memap, elf, mallocs, written, result>>

\* for each ram[i]: a plain entry is one region; a malloc entry is
\* registered unit by unit, each call's result discarded, so any of the
\* units may be missing from the table.  Then set_cache_code_from_map.
RamStep ==
    /\ pc = "ram"
    /\ IF i > Len(memap.ram)
       THEN pc' = "mset" /\ i' = 1 /\ UNCHANGED <<regions, cache>>
       ELSE LET m == memap.ram[i] IN
            /\ IF m.type # "MALLOC"
               THEN regions' = regions \cup {Region("RAM", m.start, m.size)}
               ELSE \E ok \in SUBSET MallocUnits(m) :
                       regions' = regions \cup {Region("MALLOC", u, UnitKB) : u \in ok}
            /\ cache' = CacheFromMap(m)
            /\ i' = i + 1 /\ UNCHANGED pc
    /\ UNCHANGED <<memap, elf, mallocs, written, result>>

\* for each ram[i] of type MALLOC: set_malloc_region.
MallocSetStep ==
    /\ pc = "mset"
    /\ IF i > Len(memap.ram)
       THEN pc' = "dev" /\ i' = 1 /\ UNCHANGED mallocs
       ELSE /\ mallocs' = IF memap.ram[i].type = "MALLOC"
                          THEN SetMallocRegion(memap.ram[i]) ELSE mallocs
            /\ i' = i + 1 /\ UNCHANGED pc
    /\ UNCHANGED <<memap, elf, regions, cache, written, result>>

\* for each dev[i]: mpu_address_set_dev.
DevStep ==
    /\ pc = "dev"
    /\ IF i > Len(memap.dev)
       THEN pc' = "cache" /\ i' = 1 /\ UNCHANGED regions
       ELSE /\ regions' = regions \cup {Region("DEV", memap.dev[i].start, memap.dev[i].size)}
            /\ i' = i + 1 /\ UNCHANGED pc
    /\ UNCHANGED <<memap, elf, mallocs, cache, written, result>>

\* set_cache_code_from_elf: every program header with PF_X.
CacheElf ==
    /\ pc = "cache"
    /\ cache' = cache \cup {[start |-> p.vaddr, size |-> p.memsz] :
                            p \in {elf.ph[k] : k \in {k \in 1..Len(elf.ph) : elf.ph[k].exec}}}
    /\ pc' = "load"
    /\ UNCHANGED <<memap, elf, i, regions, mallocs, written, result>>

\* for each program header: anything but PT_LOAD is skipped, and so is a
\* segment mpu_address_get_rom does not find in ROM; the rest is copied
\* with memcpy (its mpu_get_pointer cannot fail once get_rom has found it).
\* After the loop Elf_LoadProgram returns 0.
LoadStep ==
    /\ pc = "load"
    /\ IF i > Len(elf.ph)
       THEN pc' = "syms" /\ UNCHANGED <<i, written, result>>
       ELSE LET p == elf.ph[i] IN
            /\ written' = IF p.type = "LOAD" /\ InRom(p.paddr, p.filesz)
                          THEN written \cup p.paddr .. (p.paddr + p.filesz - 1)
                          ELSE written
            /\ i' = i + 1 /\ UNCHANGED <<pc, result>>
    /\ UNCHANGED <<memap, elf, regions, mallocs, cache>>

\* The rest of elf_load: elf_symbol_load and the four DWARF loads, each
\* returning its error at once; they read the image and leave the region
\* table alone, so what is left is whether one of them failed.
SymbolLoad ==
    /\ pc = "syms"
    /\ pc' = "done"
    /\ result' \in {"OK", "INVALID"}
    /\ UNCHANGED <<memap, elf, i, regions, mallocs, cache, written>>

Init ==
    /\ memap \in MemMaps
    /\ elf \in Elfs
    /\ pc = "check"
    /\ i = 0
    /\ regions = {}
    /\ mallocs = {}
    /\ cache = {}
    /\ written = {}
    /\ result = "NONE"

Next ==
    \/ Check \/ RomStep \/ RamStep \/ MallocSetStep \/ DevStep
    \/ CacheElf \/ LoadStep \/ SymbolLoad \/ RegisterFails

Spec == Init /\ [][Next]_vars

-----------------------------------------------------------------------------
TypeOK ==
    /\ pc \in {"check", "rom", "ram", "mset", "dev", "cache", "load", "syms", "done"}
    /\ i \in Nat
    /\ \A r \in regions : r.kind \in {"ROM", "RAM", "MALLOC", "DEV"}
    /\ mallocs \subseteq Nat
    /\ written \subseteq Nat
    /\ result \in {"NONE", "OK", "INVALID"}

\* Configured KBs of each kind of memory map entry.
CfgKBs(s) == UNION {KBs(s[k]) : k \in 1..Len(s)}
MallocCfgKBs == UNION {KBs(memap.ram[k]) : k \in {k \in 1..Len(memap.ram) :
                                                  memap.ram[k].type = "MALLOC"}}

\* A load that elf_load reports OK registered every ROM, plain RAM and
\* device entry of the map and copied in full every PT_LOAD segment that
\* lies inside a configured ROM entry: no registration that failed, and
\* no segment skipped, is hidden behind an OK.
LoadComplete ==
    (pc = "done" /\ result = "OK") =>
        /\ \A k \in 1..Len(memap.rom) : Region("ROM", memap.rom[k].start, memap.rom[k].size) \in regions
        /\ \A k \in 1..Len(memap.ram) :
              memap.ram[k].type # "MALLOC" =>
                 Region("RAM", memap.ram[k].start, memap.ram[k].size) \in regions
        /\ \A k \in 1..Len(memap.dev) : Region("DEV", memap.dev[k].start, memap.dev[k].size) \in regions
        /\ \A k \in 1..Len(elf.ph) :
              LET p == elf.ph[k] IN
              p.type = "LOAD" /\ p.paddr .. (p.paddr + p.filesz - 1) \subseteq CfgKBs(memap.rom)
                 => p.paddr .. (p.paddr + p.filesz - 1) \subseteq written

\* Every unit handed to the malloc allocator by set_malloc_region lies
\* wholly inside a MALLOC entry of the map, so the allocator never serves
\* memory beyond the configured pool, even when the entry's size is not a
\* multiple of the unit.
MallocUnitsInPool ==
    \A u \in mallocs : u .. (u + UnitKB - 1) \subseteq MallocCfgKBs

=============================================================================
