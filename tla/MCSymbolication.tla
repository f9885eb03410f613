--------------------------- MODULE MCSymbolication ---------------------------
(* Instances of Symbolication for TLC.                                     *)
EXTENDS Symbolication

CONSTANTS a, b

TwoAddresses == {a, b}
=============================================================================
