-------------------------- MODULE ElfSymbolsProofs --------------------------
(***************************************************************************)
(* Proofs about ElfSymbols, for every memory map and all files.            *)
(***************************************************************************)
EXTENDS ElfSymbols, Recursion

(* What a step of the loader does to its stage and its callback.           *)
Staged ==
    /\ stage \in {"start", "loading", "ready", "failed", "thrown"}
    /\ AnsweredOnce

(* The stages of loading are five, and in each the callback has been       *)
(* called as often as AnsweredOnce says.                                   *)
LEMMA StagedInvariant == Spec => []Staged
<1>1. Init => Staged
  BY DEF Init, Staged, AnsweredOnce
<1>2. Staged /\ [Next]_vars => Staged'
  <2> SUFFICES ASSUME Staged, [Next]_vars PROVE Staged'
    OBVIOUS
  <2>1. ASSUME UNCHANGED <<stage, answers>> PROVE Staged'
    BY <2>1 DEF Staged, AnsweredOnce
  <2>2. ASSUME stage \in {"start", "loading"}, stage' \in {"ready", "failed"},
               answers' = answers + 1
        PROVE  Staged'
    BY <2>2 DEF Staged, AnsweredOnce
  <2>3. CASE MapsRead
    <3>1. /\ stage = "start"
          /\ \/ stage' = "ready" /\ answers' = answers + 1
             \/ stage' = "loading" /\ answers' = answers
      BY <2>3 DEF MapsRead, Done
    <3>2. QED
      BY <2>2, <3>1 DEF Staged, AnsweredOnce
  <2>4. CASE MapsUnreadable
    BY <2>2, <2>4 DEF MapsUnreadable
  <2>5. ASSUME NEW i \in unread, FileRead(i) PROVE Staged'
    <3>1. \/ stage = "loading" /\ stage' = "ready" /\ answers' = answers + 1
          \/ UNCHANGED <<stage, answers>>
      BY <2>5 DEF FileRead, Done
    <3>2. QED
      BY <2>1, <2>2, <3>1
  <2>6. ASSUME NEW i \in unread, FileUnreadable(i) PROVE Staged'
    <3>1. \/ stage = "loading" /\ stage' = "failed" /\ answers' = answers + 1
          \/ UNCHANGED <<stage, answers>>
      BY <2>6 DEF FileUnreadable, Fail
    <3>2. QED
      BY <2>1, <2>2, <3>1
  <2>7. ASSUME NEW i \in unread, FileMalformed(i) PROVE Staged'
    <3>1. stage' = "thrown" /\ answers' = answers
      BY <2>7 DEF FileMalformed
    <3>2. stage \in {"start", "loading", "ready", "failed"}
      BY <2>7 DEF FileMalformed, Staged
    <3>3. answers \in {0, 1}
      BY <3>2 DEF Staged, AnsweredOnce
    <3>4. QED
      BY <3>1, <3>3 DEF Staged, AnsweredOnce
  <2>8. ASSUME NEW a \in Addresses, Atos(a) PROVE Staged'
    BY <2>1, <2>8 DEF Atos
  <2>9. CASE UNCHANGED vars
    BY <2>1, <2>9 DEF vars
  <2>10. QED
    BY <2>3, <2>4, <2>5, <2>6, <2>7, <2>8, <2>9 DEF Next
<1>3. QED
  BY <1>1, <1>2, PTL DEF Spec

(* Whatever order the files are read in, and whichever of them fail, the   *)
(* callback of getSymbolicatorForPid is called once: async.map must not    *)
(* report a second failure, nor success after one.                         *)
THEOREM CallbackOnce == Spec => []AnsweredOnce
<1>1. Staged => AnsweredOnce
  BY DEF Staged
<1>2. QED
  BY <1>1, StagedInvariant, PTL

-----------------------------------------------------------------------------
(* Sequences of entries *)

(* What the loops of the loaders keep is a sequence of what they kept.     *)
LEMMA AmongType ==
    ASSUME NEW X, NEW s \in Seq(X), NEW Kept
    PROVE  Among(s, Kept) \in Seq(X \cap Kept)
<1> DEFINE m == Len(s)
           V == Seq(X \cap Kept)
           keep(n, v) == IF s[n] \in Kept THEN Append(v, s[n]) ELSE v
           step == [x \in (1 .. m) \X V |-> keep(x[1], x[2])]
           first == CHOOSE g : g = [n \in 0 .. m |->
                        IF n = 0 THEN <<>> ELSE keep(n, g[n - 1])]
<1>1. m \in Nat /\ <<>> \in V
  OBVIOUS
<1>2. \A n \in 1 .. m : \A v \in V : keep(n, v) \in V
  OBVIOUS
<1>3. Among(s, Kept) = first[m]
  BY DEF Among
<1> HIDE DEF m, V, keep
<1>4. PICK g : Chain(g, m, V, <<>>, step)
  <2>1. \A n \in 1 .. m : \A v \in V : step[<<n, v>>] \in V
    BY <1>2
  <2> HIDE DEF step
  <2>2. QED
    BY <1>1, <2>1, ChainsExist
<1>5. ASSUME NEW n \in 1 .. m PROVE g[n] = keep(n, g[n - 1])
  <2>1. n - 1 \in 0 .. m
    BY <1>1
  <2>2. g[n - 1] \in V /\ g[n] = step[<<n, g[n - 1]>>]
    BY <1>4, <2>1 DEF Chain
  <2>3. QED
    BY <2>2
<1>6. g = [n \in 0 .. m |-> IF n = 0 THEN <<>> ELSE keep(n, g[n - 1])]
  <2>1. g = [n \in 0 .. m |-> g[n]] /\ g[0] = <<>>
    BY <1>4 DEF Chain
  <2>2. QED
    BY <1>1, <1>5, <2>1
<1>7. first = [n \in 0 .. m |-> IF n = 0 THEN <<>> ELSE keep(n, first[n - 1])]
  BY <1>6, Zenon
<1> HIDE DEF first
<1> DEFINE S == {n \in Nat : n <= m => first[n] \in V}
<1>8. 0 \in S
  BY <1>1, <1>7
<1>9. ASSUME NEW n \in Nat, n \in S PROVE n + 1 \in S
  BY <1>1, <1>2, <1>7, <1>9
<1> HIDE DEF S
<1>10. m \in S
  BY <1>1, <1>8, <1>9, SetInduction
<1>11. QED
  BY <1>1, <1>3, <1>10 DEF S, V

(* getEntryForOffset returns an entry that fits, if there is one.          *)
LEMMA EntryFits ==
    ASSUME NEW X, NEW entries \in Seq(X), NEW address
    PROVE  LET v == GetEntryForOffset(entries, address) IN
           \/ /\ v = 0
              /\ \A i \in DOMAIN entries :
                    ~ Within(address, entries[i].base, entries[i].length)
           \/ /\ v \in DOMAIN entries
              /\ Within(address, entries[v].base, entries[v].length)
<1> DEFINE I == {i \in 1 .. Len(entries) :
                    Within(address, entries[i].base, entries[i].length)}
<1>1. GetEntryForOffset(entries, address) = IF I # {} THEN Min(I) ELSE 0
  BY DEF GetEntryForOffset, SelectInSeq
<1>2. I \in SUBSET Nat
  OBVIOUS
<1>3. CASE I = {}
  BY <1>1, <1>3
<1>4. CASE I # {}
  <2> HIDE DEF I
  <2>1. PICK n \in I : \A m \in I : n <= m
    BY <1>2, <1>4, LeastNatural
  <2>2. Min(I) \in I
    BY <2>1 DEF Min
  <2>3. QED
    BY <1>1, <1>4, <2>2 DEF I
<1>5. QED
  BY <1>3, <1>4

(* getEntryForOffsetPhys returns an entry that fits, if there is one.      *)
LEMMA PhysEntryFits ==
    ASSUME NEW X, NEW entries \in Seq(X), NEW address,
           NEW i \in DOMAIN entries,
           Within(address, entries[i].offset, entries[i].length)
    PROVE  LET o == GetEntryForOffsetPhys(entries, address) IN
           /\ o \in DOMAIN entries
           /\ Within(address, entries[o].offset, entries[o].length)
<1> DEFINE I == {k \in 1 .. Len(entries) :
                    Within(address, entries[k].offset, entries[k].length)}
<1>1. I # {} /\ I \in SUBSET Nat
  OBVIOUS
<1>2. SelectInSeq(entries, LAMBDA e : Within(address, e.offset, e.length)) = Min(I)
  BY <1>1 DEF SelectInSeq
<1> HIDE DEF I
<1>3. PICK n \in I : \A m \in I : n <= m
  BY <1>1, LeastNatural
<1>4. Min(I) \in I
  BY <1>3 DEF Min
<1>5. Min(I) # 0
  BY <1>4 DEF I
<1>6. GetEntryForOffsetPhys(entries, address) = Min(I)
  BY <1>2, <1>5 DEF GetEntryForOffsetPhys
<1>7. QED
  BY <1>4, <1>6 DEF I

(* Whether or not an entry fits, what getEntryForOffsetPhys returns is one *)
(* of the table, unless the table is empty.                                *)
LEMMA PhysEntryExists ==
    ASSUME NEW X, NEW entries \in Seq(X), NEW address,
           GetEntryForOffsetPhys(entries, address) # 0
    PROVE  GetEntryForOffsetPhys(entries, address) \in DOMAIN entries
<1> DEFINE o == GetEntryForOffsetPhys(entries, address)
<1>1. CASE o = Len(entries)
  BY <1>1
<1>2. CASE o # Len(entries)
  <2> DEFINE I == {k \in 1 .. Len(entries) :
                      Within(address, entries[k].offset, entries[k].length)}
  <2>1. SelectInSeq(entries, LAMBDA e : Within(address, e.offset, e.length))
          = IF I # {} THEN Min(I) ELSE 0
    BY DEF SelectInSeq
  <2>2. I \in SUBSET Nat
    OBVIOUS
  <2> HIDE DEF I
  <2>3. I # {} /\ o = Min(I)
    BY <1>2, <2>1 DEF GetEntryForOffsetPhys
  <2>4. PICK n \in I : \A m \in I : n <= m
    BY <2>2, <2>3, LeastNatural
  <2>5. Min(I) \in I
    BY <2>4 DEF Min
  <2>6. QED
    BY <2>3, <2>5 DEF I
<1>3. QED
  BY <1>1, <1>2

(* A name is looked up under the last index of an entry that has it.       *)
LEMMA LastOfName ==
    ASSUME NEW X, NEW entries \in Seq(X), NEW i \in DOMAIN entries
    PROVE  LET last == SelectLastInSeq(entries, LAMBDA e : e.name = entries[i].name)
           IN  /\ last \in DOMAIN entries
               /\ entries[last].name = entries[i].name
<1> DEFINE I == {k \in 1 .. Len(entries) : entries[k].name = entries[i].name}
<1>1. I # {} /\ I \in SUBSET Nat /\ \A k \in I : k <= Len(entries)
  OBVIOUS
<1>2. SelectLastInSeq(entries, LAMBDA e : e.name = entries[i].name) = Max(I)
  BY <1>1 DEF SelectLastInSeq
<1>3. Len(entries) \in Nat
  OBVIOUS
<1> HIDE DEF I
<1>4. PICK n \in I : \A m \in I : m <= n
  BY <1>1, <1>3, GreatestNatural
<1>5. Max(I) \in I
  BY <1>1, <1>4 DEF Max
<1>6. QED
  BY <1>2, <1>5 DEF I

-----------------------------------------------------------------------------
(* What the loaders make of memory maps and of files *)

TableEntry == [name : Names, base : Nat, length : Nat, offset : Int]
MapEntry == [name : Files, base : Nat, length : Int, offset : Nat]

LEMMA AddAllType ==
    ASSUME NEW elf \in Elf, NEW table \in Seq(Symbol) \ {<<>>}
    PROVE  AddAll(elf, table) \in Seq(TableEntry)
<1> DEFINE counts(s) == s.value # 0 /\ s.section \in DOMAIN elf.sections
           Counted == {s \in ToSet(table) : counts(s)}
           symbols == Among(Tail(table), Counted)
<1>1. Tail(table) \in Seq(Symbol)
  OBVIOUS
<1> HIDE DEF Counted
<1>2. symbols \in Seq(Symbol \cap Counted)
  BY <1>1, AmongType
<1> HIDE DEF symbols
<1>3. ASSUME NEW i \in DOMAIN symbols
      PROVE  LET s == symbols[i] IN
             Entry(s.name, s.value, s.size,
                   FileOffset(elf.sections[s.section], s.value)) \in TableEntry
  <2>1. symbols[i] \in Symbol /\ counts(symbols[i])
    BY <1>2 DEF Counted
  <2>2. elf.sections[symbols[i].section] \in [offset : Nat, address : Nat]
    <3> DEFINE R == [offset : Nat, address : Nat]
    <3>1. elf.sections \in Seq(R)
      BY DEF Elf
    <3>2. symbols[i].section \in DOMAIN elf.sections
      BY <2>1
    <3> HIDE DEF R
    <3>3. elf.sections[symbols[i].section] \in R
      BY <3>1, <3>2
    <3>4. QED
      BY <3>3 DEF R
  <2>3. QED
    BY <2>1, <2>2 DEF Symbol, Entry, FileOffset, TableEntry
<1>4. AddAll(elf, table) =
        [i \in DOMAIN symbols |->
            LET s == symbols[i] IN
            Entry(s.name, s.value, s.size,
                  FileOffset(elf.sections[s.section], s.value))]
  BY DEF AddAll, symbols, Counted
<1>5. DOMAIN symbols = 1 .. Len(symbols) /\ Len(symbols) \in Nat
  BY <1>2
<1>6. QED
  BY <1>3, <1>4, <1>5

LEMMA ElfDataToMapType ==
    ASSUME NEW elf \in Elf
    PROVE  ElfDataToMap(elf) \in Seq(TableEntry)
<1>1. /\ elf.dynsym \in Seq(Symbol) \ {<<>>}
      /\ elf.symtab \in Seq(Symbol) \ {<<>>}
  BY DEF Elf
<1>2. /\ AddAll(elf, elf.dynsym) \in Seq(TableEntry)
      /\ AddAll(elf, elf.symtab) \in Seq(TableEntry)
  BY <1>1, AddAllType
<1>3. QED
  BY <1>2 DEF ElfDataToMap

(* Every entry of the process's map is one of the lines.                   *)
LEMMA ParseType ==
    ASSUME NEW lines \in Seq(Line)
    PROVE  /\ Parse(lines) \in Seq(MapEntry)
           /\ \A i \in DOMAIN Parse(lines) : \E j \in DOMAIN lines :
                 /\ IsFile(lines[j]) /\ lines[j].executable
                 /\ Parse(lines)[i] = Entry(lines[j].file, lines[j].start,
                        lines[j].end - lines[j].start, lines[j].offset)
<1> DEFINE Kept == {l \in ToSet(lines) : IsFile(l) /\ l.executable}
           mapped == Among(lines, Kept)
           entry(l) == Entry(l.file, l.start, l.end - l.start, l.offset)
<1> HIDE DEF Kept
<1>1. mapped \in Seq(Line \cap Kept)
  BY AmongType
<1> HIDE DEF mapped
<1>2. Parse(lines) = [i \in DOMAIN mapped |-> entry(mapped[i])]
  BY DEF Parse, mapped, Kept
<1>3. DOMAIN mapped = 1 .. Len(mapped) /\ Len(mapped) \in Nat
  BY <1>1
<1>4. ASSUME NEW i \in DOMAIN mapped
      PROVE  /\ entry(mapped[i]) \in MapEntry
             /\ \E j \in DOMAIN lines :
                   /\ IsFile(lines[j]) /\ lines[j].executable
                   /\ mapped[i] = lines[j]
  <2>1. mapped[i] \in Line /\ mapped[i] \in Kept
    BY <1>1
  <2>2. IsFile(mapped[i]) /\ mapped[i].executable /\ mapped[i] \in ToSet(lines)
    BY <2>1 DEF Kept
  <2>3. entry(mapped[i]) \in MapEntry
    BY <2>1, <2>2 DEF Line, IsFile, Entry, MapEntry
  <2>4. QED
    BY <2>2, <2>3 DEF ToSet
<1>5. Parse(lines) \in Seq(MapEntry)
  BY <1>2, <1>3, <1>4
<1>6. ASSUME NEW i \in DOMAIN Parse(lines)
      PROVE  \E j \in DOMAIN lines :
                /\ IsFile(lines[j]) /\ lines[j].executable
                /\ Parse(lines)[i] = entry(lines[j])
  BY <1>2, <1>4
<1>7. QED
  BY <1>5, <1>6

-----------------------------------------------------------------------------
(* Loading *)

Table(i) == ElfDataToMap(disk[procMap[i].name])

(* The tables that have arrived are those of the files at their indices.   *)
Arrived ==
    stage = "loading" =>
        /\ DOMAIN symTables = DOMAIN procMap
        /\ \A i \in DOMAIN procMap \ unread :
              disk[procMap[i].name] \in Elfs /\ symTables[i] = Table(i)

Finished ==
    stage = "ready" =>
        \A i \in DOMAIN procMap :
            disk[procMap[i].name] \in Elfs /\ nameToMap[procMap[i].name] = Table(i)

Loading ==
    /\ maps \in Maps
    /\ stage \in {"start", "loading", "ready", "failed", "thrown"}
    /\ stage \in {"start", "ready"} => unread = {}
    /\ stage \in {"loading", "ready"} => procMap = Parse(maps)
    /\ unread \subseteq DOMAIN procMap
    /\ Arrived
    /\ Finished

LEMMA MapsTyped == Maps \subseteq Seq(Line)
BY ElfAssumption DEF ElfAssumption

(* When the last table has arrived, each name is given the table of the    *)
(* last of its files, which is the same file.                              *)
LEMMA DoneFinishes ==
    ASSUME NEW tables, Done(tables), procMap' \in Seq(MapEntry),
           \A i \in DOMAIN procMap' :
               disk'[procMap'[i].name] \in Elfs /\ tables[i] = Table(i)'
    PROVE  /\ stage' = "ready"
           /\ Finished'
<1>1. stage' = "ready"
  BY DEF Done
<1>2. ASSUME NEW i \in DOMAIN procMap'
      PROVE  nameToMap'[procMap'[i].name] = Table(i)'
  <2>1. PICK k \in DOMAIN procMap' :
           /\ k = SelectLastInSeq(procMap', LAMBDA e : e.name = procMap'[i].name)
           /\ procMap'[k].name = procMap'[i].name
    BY LastOfName
  <2>2. nameToMap'[procMap'[i].name] = tables[k]
    BY <2>1 DEF Done
  <2>3. Table(k)' = Table(i)'
    BY <2>1 DEF Table
  <2>4. QED
    BY <2>2, <2>3
<1>3. QED
  BY <1>1, <1>2 DEF Finished

LEMMA LoadingInvariant == Spec => []Loading
<1>1. Init => Loading
  BY DEF Init, Loading, Arrived, Finished
<1>2. Loading /\ [Next]_vars => Loading'
  <2> SUFFICES ASSUME Loading, [Next]_vars PROVE Loading'
    OBVIOUS
  <2>1. CASE MapsRead
    <3>1. /\ stage = "start" /\ UNCHANGED <<maps, disk>>
          /\ procMap' = Parse(maps) /\ unread' = DOMAIN procMap'
          /\ DOMAIN symTables' = DOMAIN procMap'
      BY <2>1 DEF MapsRead
    <3>2. procMap' \in Seq(MapEntry)
      BY <3>1, MapsTyped, ParseType DEF Loading
    <3>3. CASE unread' = {}
      <4>1. Done(symTables')
        BY <2>1, <3>3 DEF MapsRead
      <4>2. stage' = "ready" /\ Finished'
        BY <3>1, <3>2, <3>3, <4>1, DoneFinishes
      <4>3. QED
        BY <3>1, <3>3, <4>2 DEF Loading, Arrived
    <3>4. CASE unread' # {}
      <4>1. stage' = "loading"
        BY <2>1, <3>4 DEF MapsRead
      <4>2. QED
        BY <3>1, <4>1 DEF Loading, Arrived, Finished
    <3>5. QED
      BY <3>3, <3>4
  <2>2. CASE MapsUnreadable
    BY <2>2 DEF MapsUnreadable, Loading, Arrived, Finished
  <2>3. ASSUME NEW i \in unread, FileRead(i) PROVE Loading'
    <3>1. /\ UNCHANGED <<maps, disk, procMap>>
          /\ disk[procMap[i].name] \in Elfs
          /\ unread' = unread \ {i}
          /\ symTables' = [symTables EXCEPT ![i] = Table(i)]
      BY <2>3 DEF FileRead, Collect, Table
    <3>2. \A j : Table(j)' = Table(j)
      BY <3>1 DEF Table
    <3>3. stage \in {"loading", "failed"} /\ i \in DOMAIN procMap
      BY <2>3 DEF FileRead, Loading
    <3>4. stage = "loading" =>
            /\ DOMAIN symTables' = DOMAIN procMap'
            /\ \A j \in DOMAIN procMap' \ unread' :
                  disk'[procMap'[j].name] \in Elfs /\ symTables'[j] = Table(j)'
      BY <3>1, <3>2, <3>3 DEF Loading, Arrived
    <3>5. CASE unread' = {} /\ stage = "loading"
      <4>1. Done(symTables')
        BY <2>3, <3>5 DEF FileRead
      <4>2. procMap' \in Seq(MapEntry)
        BY <3>1, <3>5, MapsTyped, ParseType DEF Loading
      <4>3. stage' = "ready" /\ Finished'
        BY <3>4, <3>5, <4>1, <4>2, DoneFinishes
      <4>4. QED
        BY <3>1, <3>5, <4>3 DEF Loading, Arrived
    <3>6. CASE ~(unread' = {} /\ stage = "loading")
      <4>1. UNCHANGED <<stage, nameToMap>>
        BY <2>3, <3>6 DEF FileRead
      <4>2. QED
        BY <3>1, <3>3, <3>4, <4>1 DEF Loading, Arrived, Finished
    <3>7. QED
      BY <3>5, <3>6
  <2>4. ASSUME NEW i \in unread, FileUnreadable(i) \/ FileMalformed(i)
        PROVE  Loading'
    <3>1. /\ UNCHANGED <<maps, procMap>>
          /\ unread' \subseteq unread
          /\ stage' \in {"failed", "thrown"}
      BY <2>4 DEF FileUnreadable, FileMalformed, Fail, Loading
    <3>2. QED
      BY <3>1 DEF Loading, Arrived, Finished
  <2>5. ASSUME NEW a \in Addresses, Atos(a) PROVE Loading'
    BY <2>5 DEF Atos, Loading, Arrived, Finished, Table
  <2>6. CASE UNCHANGED vars
    BY <2>6 DEF vars, Loading, Arrived, Finished, Table
  <2>7. QED
    BY <2>1, <2>2, <2>3, <2>4, <2>5, <2>6 DEF Next
<1>3. QED
  BY <1>1, <1>2, PTL DEF Spec

(* The symbols under a file's name are the file's own: tables loaded in    *)
(* parallel do not change places, whatever order they arrive in, and a     *)
(* file that is mapped twice is given either of its tables.                *)
THEOREM TablesMatchFiles == Spec => []TablesByName
<1>1. Loading => TablesByName
  BY DEF Loading, Finished, Table, TablesByName
<1>2. QED
  BY <1>1, LoadingInvariant, PTL

-----------------------------------------------------------------------------
(* Lookup *)

(* The last lookup is still true: nothing changes after the loaders.       *)
Looked ==
    found.is # "none" =>
        /\ stage = "ready"
        /\ found.address \in Nat
        /\ found = Answer(found.address)

LEMMA LookedInvariant == Spec => []Looked
<1>1. Init => Looked
  BY DEF Init, Looked, Nothing
<1>2. Loading /\ Looked /\ [Next]_vars => Looked'
  <2> SUFFICES ASSUME Loading, Looked, [Next]_vars PROVE Looked'
    OBVIOUS
  <2>1. ASSUME UNCHANGED found, stage # "ready" PROVE Looked'
    BY <2>1 DEF Looked
  <2>2. ASSUME NEW a \in Addresses, Atos(a) PROVE Looked'
    <3>1. /\ stage = "ready" /\ found' = Answer(a)
          /\ UNCHANGED <<stage, procMap, nameToMap>>
      BY <2>2 DEF Atos
    <3>2. Answer(a).address = a
      BY DEF Answer
    <3>3. a \in Nat
      BY ElfAssumption DEF ElfAssumption
    <3>4. Answer(a)' = Answer(a)
      BY <3>1 DEF Answer
    <3>5. QED
      BY <3>1, <3>2, <3>3, <3>4 DEF Looked
  <2>3. ASSUME NEW i \in unread PROVE stage # "ready"
    BY <2>3 DEF Loading
  <2>4. ASSUME NEW i \in unread,
               FileRead(i) \/ FileUnreadable(i) \/ FileMalformed(i)
        PROVE  Looked'
    BY <2>1, <2>3, <2>4 DEF FileRead, FileUnreadable, FileMalformed
  <2>5. CASE MapsRead \/ MapsUnreadable
    BY <2>1, <2>5 DEF MapsRead, MapsUnreadable
  <2>6. CASE UNCHANGED vars
    <3>1. UNCHANGED <<stage, procMap, nameToMap, found>>
      BY <2>6 DEF vars
    <3>2. Answer(found.address)' = Answer(found.address)
      BY <3>1 DEF Answer
    <3>3. QED
      BY <3>1, <3>2 DEF Looked
  <2>7. QED
    BY <2>2, <2>4, <2>5, <2>6 DEF Next
<1>3. QED
  BY <1>1, <1>2, LoadingInvariant, PTL DEF Spec

(* A name comes from the file of the region in which the address lies, or  *)
(* which ends there: every entry of the map is a region of the process,    *)
(* and the table under its name is that of its file, the last entry        *)
(* included, which is what a lookup that finds none falls back to.         *)
THEOREM NamesComeFromTheirRegion == Spec => []NamedByItsRegion
<1>1. Loading /\ Looked => NamedByItsRegion
  <2> SUFFICES ASSUME Loading, Looked, found.is \in {"symbol", "binary"}
               PROVE  NamedByItsRegion
    BY DEF NamedByItsRegion
  <2> DEFINE x == found.address
             v == GetEntryForOffset(procMap, x)
             o == GetEntryForOffsetPhys(Table(v), PhysOffset(procMap[v], x))
  <2>1. /\ x \in Nat /\ found = Answer(x) /\ procMap = Parse(maps)
        /\ stage = "ready"
    BY DEF Looked, Loading
  <2>2. maps \in Seq(Line)
    BY MapsTyped DEF Loading
  <2>3. procMap \in Seq(MapEntry)
    BY <2>1, <2>2, ParseType
  <2>4. v # 0
    BY <2>1 DEF Answer
  <2>5. v \in DOMAIN procMap /\ Within(x, procMap[v].base, procMap[v].length)
    BY <2>3, <2>4, EntryFits
  <2>6. Table(v) \in Seq(TableEntry) /\ nameToMap[procMap[v].name] = Table(v)
    <3> HIDE DEF v
    <3>1. /\ disk[procMap[v].name] \in Elfs
          /\ nameToMap[procMap[v].name] = Table(v)
      BY <2>1, <2>5 DEF Loading, Finished
    <3>2. disk[procMap[v].name] \in Elf
      BY <3>1, ElfAssumption DEF ElfAssumption
    <3>3. QED
      BY <3>1, <3>2, ElfDataToMapType DEF Table
  <2>7. \/ o = 0 /\ found.is = "binary" /\ found.name = procMap[v].name
        \/ o # 0 /\ found.is = "symbol" /\ found.name = Table(v)[o].name
    BY <2>1, <2>4, <2>6 DEF Answer
  <2> HIDE DEF v
  <2>8. PICK j \in DOMAIN maps :
           /\ IsFile(maps[j]) /\ maps[j].executable
           /\ procMap[v] = Entry(maps[j].file, maps[j].start,
                                 maps[j].end - maps[j].start, maps[j].offset)
    BY <2>1, <2>2, <2>5, ParseType
  <2>9. maps[j].start \in Nat /\ maps[j].end \in Nat
    <3>1. maps[j] \in Line
      BY <2>2
    <3>2. QED
      BY <3>1 DEF Line
  <2>10. procMap[v].name = maps[j].file
    BY <2>8 DEF Entry
  <2>11. x \in maps[j].start .. maps[j].end
    <3>1. x >= maps[j].start /\ x <= maps[j].start + (maps[j].end - maps[j].start)
      BY <2>5, <2>8 DEF Within, Entry
    <3>2. QED
      BY <2>1, <2>9, <3>1
  <2>12. CASE o = 0
    BY <2>7, <2>8, <2>10, <2>11, <2>12 DEF NamedByItsRegion
  <2>13. CASE o # 0
    <3>1. o \in DOMAIN Table(v)
      BY <2>6, <2>13, PhysEntryExists
    <3> HIDE DEF o
    <3>2. Table(v)[o] \in ToSet(ElfDataToMap(disk[maps[j].file]))
      BY <2>10, <3>1 DEF Table, ToSet
    <3>3. \E e \in ToSet(ElfDataToMap(disk[maps[j].file])) : found.name = e.name
      BY <2>7, <2>13, <3>2
    <3>4. found.is # "binary"
      BY <2>7, <2>13
    <3>5. QED
      BY <2>8, <2>11, <3>3, <3>4 DEF NamedByItsRegion
  <2>14. QED
    BY <2>12, <2>13
<1>2. QED
  BY <1>1, LoadingInvariant, LookedInvariant, PTL

(* Regions do not overlap, so that an address inside one is not found in   *)
(* another, although both bounds of an entry belong to it.                 *)
LEMMA InsideOnlyOne ==
    ASSUME maps \in Maps, procMap = Parse(maps), NEW x \in Nat,
           NEW i \in DOMAIN procMap, NEW v \in DOMAIN procMap,
           Inside(x, procMap[i].base, procMap[i].length),
           Within(x, procMap[v].base, procMap[v].length)
    PROVE  procMap[v] = procMap[i]
<1> DEFINE entry(l) == Entry(l.file, l.start, l.end - l.start, l.offset)
<1>1. maps \in Seq(Line)
  BY MapsTyped
<1>2. PICK j \in DOMAIN maps : procMap[i] = entry(maps[j])
  BY <1>1, ParseType
<1>3. PICK k \in DOMAIN maps : procMap[v] = entry(maps[k])
  BY <1>1, ParseType
<1>4. /\ maps[j].start \in Nat /\ maps[j].end \in Nat
      /\ maps[k].start \in Nat /\ maps[k].end \in Nat
  <2>1. maps[j] \in Line /\ maps[k] \in Line
    BY <1>1
  <2>2. QED
    BY <2>1 DEF Line
<1>5. /\ x > maps[j].start /\ x < maps[j].start + (maps[j].end - maps[j].start)
      /\ x >= maps[k].start /\ x <= maps[k].start + (maps[k].end - maps[k].start)
  BY <1>2, <1>3 DEF Inside, Within, Entry
<1>6. j # k => maps[j].end <= maps[k].start \/ maps[k].end <= maps[j].start
  BY ElfAssumption DEF ElfAssumption
<1>7. j = k
  BY <1>4, <1>5, <1>6
<1>8. QED
  BY <1>2, <1>3, <1>7

(* An address inside a symbol is given the name of a symbol that has it.   *)
(* What getEntryForOffsetPhys falls back to, the last entry, is never      *)
(* taken for it.                                                           *)
THEOREM InsideIsNamed == Spec => []InsideHits
<1>1. Loading /\ Looked => InsideHits
  <2> SUFFICES ASSUME Loading, Looked, found.is # "none", NEW i \in DOMAIN procMap,
                      Inside(found.address, procMap[i].base, procMap[i].length),
                      NEW e \in ToSet(Table(i)),
                      Inside((found.address - procMap[i].base) + procMap[i].offset,
                             e.offset, e.length)
               PROVE  /\ found.is = "symbol"
                      /\ \E s \in ToSet(Table(i)) :
                            /\ found.name = s.name
                            /\ (found.address - procMap[i].base) + procMap[i].offset
                                 \in s.offset .. s.offset + s.length
    BY DEF InsideHits, Table
  <2> DEFINE x == found.address
             v == GetEntryForOffset(procMap, x)
             y == (x - procMap[i].base) + procMap[i].offset
             o == GetEntryForOffsetPhys(Table(i), y)
  <2>1. /\ x \in Nat /\ found = Answer(x) /\ stage = "ready"
        /\ maps \in Maps /\ procMap = Parse(maps)
    BY DEF Looked, Loading
  <2>2. procMap \in Seq(MapEntry)
    BY <2>1, MapsTyped, ParseType
  <2>3. procMap[i] \in MapEntry
    BY <2>2
  <2>4. Within(x, procMap[i].base, procMap[i].length)
    BY <2>1, <2>3 DEF Inside, Within, MapEntry
  <2>5. v \in DOMAIN procMap /\ Within(x, procMap[v].base, procMap[v].length)
    BY <2>2, <2>4, EntryFits
  <2>6. v # 0
    BY <2>2, <2>5
  <2> HIDE DEF v
  <2>7. procMap[v] = procMap[i]
    BY <2>1, <2>5, InsideOnlyOne
  <2>8. Table(i) \in Seq(TableEntry) /\ nameToMap[procMap[i].name] = Table(i)
    <3>1. /\ disk[procMap[i].name] \in Elfs
          /\ nameToMap[procMap[i].name] = Table(i)
      BY <2>1 DEF Loading, Finished
    <3>2. disk[procMap[i].name] \in Elf
      BY <3>1, ElfAssumption DEF ElfAssumption
    <3>3. QED
      BY <3>1, <3>2, ElfDataToMapType DEF Table
  <2>9. PICK k \in DOMAIN Table(i) : e = Table(i)[k]
    BY DEF ToSet
  <2>10. y \in Int
    BY <2>1, <2>3 DEF MapEntry
  <2>11. Within(y, Table(i)[k].offset, Table(i)[k].length)
    <3>1. Table(i)[k] \in TableEntry
      BY <2>8
    <3>2. QED
      BY <2>9, <2>10, <3>1 DEF Inside, Within, TableEntry
  <2>12. o \in DOMAIN Table(i) /\ Within(y, Table(i)[o].offset, Table(i)[o].length)
    BY <2>8, <2>11, PhysEntryFits
  <2>13. o # 0 /\ Table(i)[o] \in TableEntry /\ Table(i)[o] \in ToSet(Table(i))
    BY <2>8, <2>12 DEF ToSet
  <2>14. found.is = "symbol" /\ found.name = Table(i)[o].name
    <3>1. PhysOffset(procMap[v], x) = y
      BY <2>7 DEF PhysOffset
    <3>2. GetEntryForOffsetPhys(nameToMap[procMap[v].name],
                                PhysOffset(procMap[v], x)) = o
      BY <2>7, <2>8, <3>1
    <3> HIDE DEF o, y
    <3>3. QED
      BY <2>1, <2>6, <2>7, <2>8, <2>13, <3>2 DEF Answer, v
  <2>15. y \in Table(i)[o].offset .. Table(i)[o].offset + Table(i)[o].length
    <3> HIDE DEF o, y
    <3>1. QED
      BY <2>10, <2>12, <2>13 DEF Within, TableEntry
  <2>16. QED
    BY <2>13, <2>14, <2>15
<1>2. QED
  BY <1>1, LoadingInvariant, LookedInvariant, PTL

=============================================================================
