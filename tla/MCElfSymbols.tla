---------------------------- MODULE MCElfSymbols ----------------------------
(* Instances of ElfSymbols for TLC.                                        *)
EXTENDS ElfSymbols

CONSTANTS f, g, unreadable, malformed, null, foo, bar, baz

TwoFiles == {f, g}
SomeNames == {null, foo, bar, baz}

Region(file, executable, start, end, offset) ==
    [file |-> file, executable |-> executable, start |-> start, end |-> end,
     offset |-> offset]

(* Two files; one mapped twice, at different offsets, with a neighbour and *)
(* with lines that do not count; no file at all.                           *)
SomeMaps == {
    << Region(f, TRUE, 2, 8, 0), Region(g, TRUE, 10, 16, 2) >>,
    << Region(f, FALSE, 0, 2, 0), Region(f, TRUE, 2, 6, 2), Region(g, TRUE, 6, 10, 4),
       Region("none", TRUE, 11, 12, 0), Region(f, TRUE, 13, 19, 4) >>,
    << Region("special", TRUE, 2, 8, 0) >> }

Sym(name, value, section, size) ==
    [name |-> name, value |-> value, section |-> section, size |-> size]

NullSym == Sym(null, 0, 0, 0)

(* Linked at its file offsets, or at other addresses; with external        *)
(* references, an absolute symbol, symbols that overlap, or none at all.   *)
SomeElfs == {
    [sections |-> << [offset |-> 2, address |-> 2] >>,
     dynsym |-> << NullSym, Sym(foo, 2, 1, 3), Sym(bar, 0, 0, 0) >>,
     symtab |-> << NullSym, Sym(bar, 7, 9, 5), Sym(bar, 5, 1, 4), Sym(baz, 6, 1, 2) >>],
    [sections |-> << [offset |-> 0, address |-> 20], [offset |-> 4, address |-> 30] >>,
     dynsym |-> << NullSym >>,
     symtab |-> << NullSym, Sym(baz, 30, 2, 3), Sym(foo, 20, 1, 3) >>],
    [sections |-> << >>, dynsym |-> << NullSym >>, symtab |-> << NullSym >>] }

SomeAddresses == 0 .. 20
=============================================================================
