------------------------------ MODULE MC_Loader ------------------------------
EXTENDS Loader

\* Map A: one executable ROM entry, a plain RAM entry, a 3 KB malloc entry
\* (one 2 KB unit and a 1 KB remainder) and a device.
MC_MapA ==
    [rom |-> << [start |-> 0, size |-> 2, exec |-> TRUE] >>,
     ram |-> << [type |-> "RAM", start |-> 4, size |-> 2, exec |-> FALSE],
                [type |-> "MALLOC", start |-> 8, size |-> 3, exec |-> FALSE] >>,
     dev |-> << [start |-> 12, size |-> 1] >>]

\* Map B: two ROM entries, a 4 KB malloc entry (two units), no device.
MC_MapB ==
    [rom |-> << [start |-> 0, size |-> 1, exec |-> TRUE],
                [start |-> 2, size |-> 1, exec |-> FALSE] >>,
     ram |-> << [type |-> "MALLOC", start |-> 4, size |-> 4, exec |-> FALSE] >>,
     dev |-> << >>]

\* Map C: a 1 KB malloc entry (unit_num = 0), an executable RAM entry
\* and two devices.
MC_MapC ==
    [rom |-> << [start |-> 0, size |-> 2, exec |-> TRUE] >>,
     ram |-> << [type |-> "MALLOC", start |-> 4, size |-> 1, exec |-> FALSE],
                [type |-> "RAM", start |-> 6, size |-> 2, exec |-> TRUE] >>,
     dev |-> << [start |-> 8, size |-> 1], [start |-> 9, size |-> 1] >>]

MC_MemMaps == {MC_MapA, MC_MapB, MC_MapC}

\* Program headers are linked at their load address: p_vaddr = p_paddr.
PH(t, a, f, x) == [type |-> t, paddr |-> a, vaddr |-> a, filesz |-> f, memsz |-> f, exec |-> x]

\* A valid image with a .data segment at 4 (RAM in map A, malloc in map
\* B), a note, a text segment at 0 and a segment at 2 (ROM only in map B);
\* and an image Elf_Check rejects.
MC_Elfs ==
    {[valid |-> TRUE, ph |-> << PH("LOAD", 4, 1, FALSE), PH("NOTE", 0, 1, FALSE),
                                PH("LOAD", 0, 1, TRUE), PH("LOAD", 2, 1, FALSE) >>],
     [valid |-> FALSE, ph |-> << >>]}

====
