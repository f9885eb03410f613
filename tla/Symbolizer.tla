----------------------------- MODULE Symbolizer -----------------------------
(***************************************************************************)
(* What resolveNativeFrames (index.js) promises the rest of the profiler,  *)
(* and what NodeProfiler's SymbolsFail and SymbolsResolved take for        *)
(* granted: one answer; an error leaves the profile as it was sampled;     *)
(* success, which needs something to name, names every native frame and    *)
(* touches no other.                                                       *)
(***************************************************************************)
EXTENDS Naturals, Sequences

CONSTANTS
    Addresses,      \* program counters of native frames
    JsFrame,        \* any frame whose annotation is a name already
    MaxFrames       \* bound: frames in a profile

VARIABLES outcome, profile

(* A profile is the sequence of its frames, stack after stack: nothing     *)
(* here depends on where a stack ends.                                     *)
Frame == Addresses \cup {JsFrame}
Profiles == UNION {[1 .. n -> Frame] : n \in 0 .. MaxFrames}
Natives(p) == {i \in DOMAIN p : p[i] \in Addresses}

Init ==
    /\ outcome = "pending"
    /\ profile \in Profiles

Fail ==
    /\ outcome = "pending"
    /\ outcome' = "error"
    /\ UNCHANGED profile

Resolve ==
    /\ outcome = "pending"
    /\ outcome' = "resolved"
    /\ Natives(profile) # {}
    /\ Natives(profile') = {}
    /\ DOMAIN profile' = DOMAIN profile
    /\ \A i \in DOMAIN profile \ Natives(profile) : profile'[i] = profile[i]

Spec == Init /\ [][Fail \/ Resolve]_<<outcome, profile>>

=============================================================================
