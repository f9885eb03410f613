----------------------------- MODULE LineNumber -----------------------------
(***************************************************************************)
(* readFuncSharedInfoLineNumber of lib/heap-reader.js: the line a function *)
(* starts at, found by bisection in the script's array of line ends while  *)
(* the profiled process is paused.  A step is one round of its loop, the   *)
(* reads of the profiled process's memory included.                        *)
(*                                                                         *)
(* The memory is whatever the process has there: V8's sorted array of line *)
(* ends, or anything, when a pointer was misread.  A word read as a small  *)
(* integer loses its sign (smiValue).                                      *)
(***************************************************************************)
EXTENDS Integers

CONSTANTS
    Word,           \* 2^32: how many small integers there are
    MaxSize,        \* bound: lengths of an array of line ends
    Position,       \* positions in a script, as they occur in memory
    LineOffset      \* line offsets of scripts, as they occur in memory

ASSUME LineNumberAssumption ==
    /\ Word \in Nat \ {0}
    /\ MaxSize \in Nat
    /\ Position \subseteq Nat
    /\ LineOffset \subseteq Int

VARIABLES
    lineEnds,       \* the array, from 0
    size,           \* its length
    startPosition,  \* of the function
    lineOffset,     \* of the script
    low, high,      \* the bisection
    probes,         \* history: rounds of the loop
    probed,         \* history: the last element read
    result          \* of the call: NotCalled, None, Unknown or a line number

memory == <<lineEnds, size, startPosition, lineOffset>>
search == <<low, high, probes, probed>>
vars == <<memory, search, result>>

None == -1
Unknown == -2       \* '[unknown]'
NotCalled == -3

(* smiValue of a 64 bit word: its upper half, without the sign             *)
SmiValue(n) == n % Word

Sorted(ends) == \A i, j \in DOMAIN ends : i <= j => ends[i] <= ends[j]

Init ==
    /\ size = 0
    /\ lineEnds = [i \in 0 .. -1 |-> 0]
    /\ startPosition = 0 /\ lineOffset = 0
    /\ low = 0 /\ high = -1
    /\ probes = 0 /\ probed = None
    /\ result = NotCalled

(* The reads before the loop, when the map says that this is a FixedArray. *)
ReadArray ==
    /\ result = NotCalled
    /\ \E n \in 0 .. MaxSize :
        /\ size' = n
        /\ lineEnds' \in [0 .. n - 1 -> Position]
        /\ high' = n - 1
    /\ startPosition' \in Position
    /\ lineOffset' \in {SmiValue(n) : n \in LineOffset}
    /\ low' = 0 /\ probes' = 0 /\ probed' = None
    /\ result' = None

(* ... and when it does not.                                               *)
NotAnArray ==
    /\ result = NotCalled
    /\ result' = Unknown
    /\ UNCHANGED <<memory, search>>

Mid == (high + low) \div 2

\* mutant: a line that ends where the function starts is skipped
Narrow_Leq(mid) ==
    IF lineEnds[mid] <= startPosition
    THEN low' = mid + 1 /\ UNCHANGED high
    ELSE high' = mid /\ UNCHANGED low

\* mutant: low = mid
Narrow_Stuck(mid) ==
    IF lineEnds[mid] < startPosition
    THEN low' = mid /\ UNCHANGED high
    ELSE high' = mid /\ UNCHANGED low

\* mutant: high = mid - 1, as for a search by equality
Narrow_Past(mid) ==
    IF lineEnds[mid] < startPosition
    THEN low' = mid + 1 /\ UNCHANGED high
    ELSE high' = mid - 1 /\ UNCHANGED low

\* mutant: linear search
Narrow_Linear(mid) ==
    IF lineEnds[low] < startPosition
    THEN low' = low + 1 /\ UNCHANGED high
    ELSE high' = low /\ UNCHANGED low

Narrow(mid) ==
    IF lineEnds[mid] < startPosition
    THEN low' = mid + 1 /\ UNCHANGED high
    ELSE high' = mid /\ UNCHANGED low

Probe ==
    /\ result = None
    /\ low < high
    /\ Narrow(Mid)
    /\ probes' = IF probes > size THEN probes ELSE probes + 1     \* bound
    /\ probed' = Mid
    /\ UNCHANGED <<memory, result>>

(* The test for a negative line is never true: smiValue has no sign.       *)
Answer ==
    /\ result = None
    /\ low >= high
    /\ result' = low + lineOffset
    /\ UNCHANGED <<memory, search>>

Next == ReadArray \/ NotAnArray \/ Probe \/ Answer

Spec == Init /\ [][Next]_vars

-----------------------------------------------------------------------------
(* Properties *)

(* Whatever is in memory, the search stays within the array.               *)
TypeOK ==
    /\ size \in Nat
    /\ lineEnds \in [0 .. size - 1 -> Nat]
    /\ startPosition \in Nat
    /\ lineOffset \in Nat
    /\ low \in Nat
    /\ high \in -1 .. size - 1
    /\ low <= high \/ (size = 0 /\ low = 0)
    /\ probes \in Nat
    /\ probed \in {None} \cup 0 .. size - 1
    /\ result \in {NotCalled, None, Unknown} \cup Nat

(* In a sorted array the answer is the first line that does not end before *)
(* the function starts; the last one, if all do.  The code does not look   *)
(* at the last line end at all.                                            *)
IsLineOf(i) ==
    /\ \A j \in 0 .. i - 1 : lineEnds[j] < startPosition
    /\ lineEnds[i] >= startPosition \/ i = size - 1

FindsLine ==
    result >= 0 /\ Sorted(lineEnds) /\ size > 0 =>
        /\ result - lineOffset \in DOMAIN lineEnds
        /\ IsLineOf(result - lineOffset)

(* The process is paused no longer than the logarithm of the array's       *)
(* length, and of what is read in place of a length.                       *)
PowerOf2[n \in 0 .. MaxSize + 1] == IF n = 0 THEN 1 ELSE 2 * PowerOf2[n - 1]

ProbesAreFew == size > 0 => (high - low) * PowerOf2[probes] <= size - 1

=============================================================================
