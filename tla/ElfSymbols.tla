----------------------------- MODULE ElfSymbols -----------------------------
(***************************************************************************)
(* Symbol lookup on Linux, lib/elf-atos: the memory map of a process is    *)
(* read, then the symbol tables of all its files in parallel (async.map),  *)
(* and the Symbolicator made of them names addresses.                      *)
(*                                                                         *)
(* Names are model values.  An ELF file is the part of it the code uses:   *)
(* where its sections lie, and its two symbol tables.  A line of a memory  *)
(* map is what it says of one region; the kernel lists each region once.   *)
(***************************************************************************)
EXTENDS Integers, Sequences, FiniteSets, SequencesExt

CONSTANTS
    Maps,           \* possible contents of /proc/<pid>/maps
    Files,          \* names of files
    Names,          \* names of symbols
    Elfs,           \* possible contents of a file
    Unreadable,     \* a file that cannot be read
    Malformed,      \* a file that is read but cannot be parsed
    Addresses       \* addresses that are looked up

Line == [file : Files \cup {"none", "special"}, executable : BOOLEAN,
         start : Nat, end : Nat, offset : Nat]

Symbol == [name : Names, value : Nat, section : Nat, size : Nat]

Elf == [sections : Seq([offset : Nat, address : Nat]),
        dynsym : Seq(Symbol) \ {<<>>}, symtab : Seq(Symbol) \ {<<>>}]

(* Regions of a memory map do not overlap.                                 *)
ASSUME ElfAssumption ==
    /\ Unreadable # Malformed
    /\ {Unreadable, Malformed} \cap Elfs = {}
    /\ Addresses \subseteq Nat
    /\ Maps \subseteq Seq(Line)
    /\ \A m \in Maps : \A i, j \in DOMAIN m :
          i # j => m[i].end <= m[j].start \/ m[j].end <= m[i].start
    /\ Elfs \subseteq Elf

VARIABLES
    maps,           \* /proc/<pid>/maps
    disk,           \* the content of each file
    stage,          \* "start", "loading", "ready", "failed" or "thrown"
    procMap,        \* AddressMap of the process: a sequence of entries
    unread,         \* indices of the files whose readFile is under way
    symTables,      \* results of async.map, by index
    nameToMap,      \* symbol table of each file
    answers,        \* how often the callback was called
    found           \* the last lookup: its address and what atos returned

vars == <<maps, disk, stage, procMap, unread, symTables, nameToMap, answers, found>>

Entry(name, base, length, offset) ==
    [name |-> name, base |-> base, length |-> length, offset |-> offset]

NoTable == <<>>
Nothing == [address |-> 0, is |-> "none", name |-> Unreadable]

Init ==
    /\ maps \in Maps
    /\ disk \in [Files -> Elfs \cup {Unreadable, Malformed}]
    /\ stage = "start"
    /\ procMap = <<>>
    /\ unread = {}
    /\ symTables = <<>>
    /\ nameToMap = <<>>
    /\ answers = 0
    /\ found = Nothing

-----------------------------------------------------------------------------
(* proc_map_loader.js *)

(* The elements of a sequence that are kept, as each loop of the loaders   *)
(* collects them (SelectSeq, in a form that can be reasoned about).        *)
Among(s, Kept) ==
    LET first[n \in 0 .. Len(s)] ==
            IF n = 0 THEN <<>>
            ELSE IF s[n] \in Kept THEN Append(first[n - 1], s[n])
            ELSE first[n - 1]
    IN  first[Len(s)]

IsFile(line) == line.file # "none" /\ line.file # "special"

Parse(lines) ==
    LET mapped == Among(lines, {l \in ToSet(lines) : IsFile(l) /\ l.executable})
    IN  [i \in DOMAIN mapped |->
            Entry(mapped[i].file, mapped[i].start,
                  mapped[i].end - mapped[i].start, mapped[i].offset)]

Done(tables) ==
    /\ stage' = "ready"
    /\ answers' = answers + 1
    /\ nameToMap' = [f \in {procMap'[i].name : i \in DOMAIN procMap'} |->
                        LET last == SelectLastInSeq(procMap', LAMBDA e : e.name = f)
                        IN  tables[last]]

MapsRead ==
    /\ stage = "start"
    /\ procMap' = Parse(maps)
    /\ unread' = DOMAIN procMap'
    /\ symTables' = [i \in DOMAIN procMap' |-> NoTable]
    /\ IF unread' = {}
       THEN Done(symTables')
       ELSE stage' = "loading" /\ UNCHANGED <<answers, nameToMap>>
    /\ UNCHANGED <<maps, disk, found>>

MapsUnreadable ==
    /\ stage = "start"
    /\ stage' = "failed"
    /\ answers' = answers + 1
    /\ UNCHANGED <<maps, disk, procMap, unread, symTables, nameToMap, found>>

-----------------------------------------------------------------------------
(* elf_loader.js *)

FileOffset(section, value) == section.offset + (value - section.address)

(* A value of 0 is an external reference; the first symbol is always null. *)
(* Sections are numbered from 1, so the null section of a file is the 1st. *)
AddAll(elf, table) ==
    LET counts(s) == s.value # 0 /\ s.section \in DOMAIN elf.sections
        symbols == Among(Tail(table), {s \in ToSet(table) : counts(s)})
    IN  [i \in DOMAIN symbols |->
            LET s == symbols[i] IN
            Entry(s.name, s.value, s.size,
                  FileOffset(elf.sections[s.section], s.value))]

(* A file without one of its tables has it empty but for the null symbol.  *)
ElfDataToMap(elf) == AddAll(elf, elf.dynsym) \o AddAll(elf, elf.symtab)

\* mutant: tables are kept in the order in which they arrive
Collect_AsTheyCome(i, table) ==
    symTables' = [symTables EXCEPT ![Len(symTables) + 1 - Cardinality(unread)] = table]

Collect(i, table) == symTables' = [symTables EXCEPT ![i] = table]

FileRead(i) ==
    /\ i \in unread
    /\ stage # "thrown"
    /\ disk[procMap[i].name] \in Elfs
    /\ unread' = unread \ {i}
    /\ Collect(i, ElfDataToMap(disk[procMap[i].name]))
    /\ UNCHANGED <<maps, disk, procMap, found>>
    /\ IF unread' = {} /\ stage = "loading"
       THEN Done(symTables')
       ELSE UNCHANGED <<stage, answers, nameToMap>>

\* mutant: every failure calls the callback
Fail_EachTime == stage' = "failed" /\ answers' = answers + 1

\* mutant: a failure is not reported
Fail_Silently == stage' = stage /\ answers' = answers

(* async.map calls back for the first failure only.                        *)
Fail ==
    IF stage = "loading"
    THEN stage' = "failed" /\ answers' = answers + 1
    ELSE UNCHANGED <<stage, answers>>

FileUnreadable(i) ==
    /\ i \in unread
    /\ stage # "thrown"
    /\ disk[procMap[i].name] = Unreadable
    /\ unread' = unread \ {i}
    /\ Fail
    /\ UNCHANGED <<maps, disk, procMap, symTables, nameToMap, found>>

(* elfy.parse, or a read outside of a section, throws in the callback of   *)
(* readFile, where nothing catches it, whether or not another file failed. *)
FileMalformed(i) ==
    /\ i \in unread
    /\ stage # "thrown"
    /\ disk[procMap[i].name] = Malformed
    /\ stage' = "thrown"
    /\ UNCHANGED <<maps, disk, procMap, unread, symTables, nameToMap, answers, found>>

-----------------------------------------------------------------------------
(* address_map.js and symbolicator.js *)

\* mutant: the upper bound of an entry is off by more than one
Within_Beyond(x, from, length) == x >= from /\ x <= from + length + 1

(* Both ends belong to an entry.                                           *)
Within(x, from, length) == x >= from /\ x <= from + length

(* The index of the first entry that fits, or 0.                           *)
GetEntryForOffset(entries, address) ==
    SelectInSeq(entries, LAMBDA e : Within(address, e.base, e.length))

(* The loop's variable outlives it: when no entry fits it is the last one. *)
GetEntryForOffsetPhys(entries, address) ==
    LET first == SelectInSeq(entries, LAMBDA e : Within(address, e.offset, e.length))
    IN  IF first = 0 THEN Len(entries) ELSE first

\* mutant: the offset at which the file is mapped is forgotten
PhysOffset_FromStart(entry, address) == address - entry.base

PhysOffset(entry, address) == (address - entry.base) + entry.offset

(* "unknown": in unknown binary; "binary": only the file is known.         *)
Answer(address) ==
    LET v == GetEntryForOffset(procMap, address) IN
    IF v = 0 THEN [address |-> address, is |-> "unknown", name |-> Unreadable]
    ELSE LET table == nameToMap[procMap[v].name]
             o == GetEntryForOffsetPhys(table, PhysOffset(procMap[v], address))
         IN  IF o = 0
             THEN [address |-> address, is |-> "binary", name |-> procMap[v].name]
             ELSE [address |-> address, is |-> "symbol", name |-> table[o].name]

Atos(address) ==
    /\ stage = "ready"
    /\ found' = Answer(address)
    /\ UNCHANGED <<maps, disk, stage, procMap, unread, symTables, nameToMap, answers>>

Next ==
    \/ MapsRead \/ MapsUnreadable
    \/ \E i \in unread : FileRead(i) \/ FileUnreadable(i) \/ FileMalformed(i)
    \/ \E a \in Addresses : Atos(a)

Spec == Init /\ [][Next]_vars

(* The operating system answers every readFile.                            *)
FairSpec ==
    /\ Spec
    /\ WF_vars(MapsRead \/ MapsUnreadable)
    /\ WF_vars(\E i \in unread :
                  FileRead(i) \/ FileUnreadable(i) \/ FileMalformed(i))

-----------------------------------------------------------------------------
(* Properties *)

(* The symbols under a file's name are that file's, whatever the order in  *)
(* which the files were read, and however often a file is mapped.          *)
TablesByName ==
    stage = "ready" =>
        \A i \in DOMAIN procMap :
            nameToMap[procMap[i].name] = ElfDataToMap(disk[procMap[i].name])

(* The callback is called once, when the symbolicator is ready or the      *)
(* first of several reads has failed, also when a later one throws.        *)
AnsweredOnce ==
    /\ stage \in {"start", "loading"} => answers = 0
    /\ stage \in {"ready", "failed"} => answers = 1
    /\ stage = "thrown" => answers \in {0, 1}

(* An address inside a symbol of the file that is mapped there, neither at *)
(* its first byte nor beyond its last, is given the name of such a symbol. *)
Inside(x, from, length) == x > from /\ x < from + length

InsideHits ==
    found.is # "none" =>
        \A i \in DOMAIN procMap :
            LET m == procMap[i]
                x == (found.address - m.base) + m.offset
                symbols == ToSet(ElfDataToMap(disk[m.name])) IN
            /\ Inside(found.address, m.base, m.length)
            /\ \E e \in symbols : Inside(x, e.offset, e.length)
            => /\ found.is = "symbol"
               /\ \E e \in symbols :
                     /\ found.name = e.name
                     /\ x \in e.offset .. e.offset + e.length

(* A name that is given comes from a file whose code is mapped at the      *)
(* address, or right before it: it is that file's, or of one of its        *)
(* symbols.  "Right before" is no slip here but in the code, which counts  *)
(* the end address of a region in (address_map.js:52).  The kernel's       *)
(* regions end before it, so one unmapped address behind each is named.    *)
NamedByItsRegion ==
    found.is \in {"symbol", "binary"} =>
        \E i \in DOMAIN maps :
            LET m == maps[i] IN
            /\ IsFile(m) /\ m.executable
            /\ found.address \in m.start .. m.end
            /\ IF found.is = "binary"
               THEN found.name = m.file
               ELSE \E e \in ToSet(ElfDataToMap(disk[m.file])) : found.name = e.name

(* The client of getSymbolicatorForPid gets its answer, unless one of the  *)
(* files that are loaded for it cannot be parsed.                          *)
EndsReadyOrFailed ==
    <>(\/ stage \in {"ready", "failed"}
       \/ \E i \in DOMAIN procMap : disk[procMap[i].name] = Malformed)

=============================================================================
