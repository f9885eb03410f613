---------------------------- MODULE ProfileCalls ----------------------------
(***************************************************************************)
(* What NodeProfiler promises the client that waits for each answer before *)
(* it calls profile() again: the calls one after the other, each with its  *)
(* own answers, and nothing of timers, tracers or atos.                    *)
(***************************************************************************)
EXTENDS Naturals, Sequences

CONSTANTS
    MaxSessions,    \* bound: how often the client calls profile()
    SpawnMayFail    \* atos may fail to start

Sessions == 1 .. MaxSessions
None == 0

VARIABLES
    nCalls,     \* number of profile() calls so far
    calls,      \* what each call's client has been told
    active,     \* the call that is still to be answered, or None
    waits,      \* its atos was given no address and waits for some
    crashed     \* an exception ended the program

vars == <<nCalls, calls, active, waits, crashed>>

Init ==
    /\ nCalls = 0
    /\ calls = [s \in Sessions |-> <<>>]
    /\ active = None
    /\ waits = FALSE
    /\ crashed = FALSE

Told(kind, array) == [kind |-> kind, profile |-> array]

Tell(s, kind, array) == calls' = [calls EXCEPT ![s] = Append(@, Told(kind, array))]

AttachFailed(s) == Told("attachErr", None) \in {calls[s][i] : i \in DOMAIN calls[s]}

Call ==
    /\ ~crashed
    /\ nCalls < MaxSessions
    /\ nCalls' = nCalls + 1

(* An argument is no positive integer, or a call is active already.        *)
Refuse ==
    /\ Call
    /\ Tell(nCalls', "rejected", None)
    /\ UNCHANGED <<active, waits, crashed>>

Begin ==
    /\ Call
    /\ active = None
    /\ active' = nCalls'
    /\ UNCHANGED <<calls, waits, crashed>>

(* The client is told of an error, and yet the call goes on.               *)
BeginUnattached ==
    /\ Call
    /\ active = None
    /\ active' = nCalls'
    /\ Tell(nCalls', "attachErr", None)
    /\ UNCHANGED <<waits, crashed>>

(* Attaching throws into the client, which may not catch.                  *)
Throw ==
    /\ Call
    /\ active = None
    /\ Tell(nCalls', "threw", None)
    /\ crashed' \in BOOLEAN
    /\ UNCHANGED <<active, waits>>

(* No sampled frame has an address to be named.                            *)
Wait ==
    /\ ~crashed
    /\ active # None
    /\ ~waits
    /\ waits' = TRUE
    /\ UNCHANGED <<nCalls, calls, active, crashed>>

(* The last answer: an error, or the profile this call has collected.      *)
End ==
    /\ ~crashed
    /\ active # None
    /\ \/ \E kind \in {"detachErr", "symbolErr"} : Tell(active, kind, None)
       \/ ~waits /\ Tell(active, "ok", active)
    /\ active' = None
    /\ waits' = FALSE
    /\ UNCHANGED <<nCalls, crashed>>

(* Only an unattached call, or one whose atos cannot start, crashes.       *)
Crash ==
    /\ ~crashed
    /\ active # None
    /\ SpawnMayFail \/ AttachFailed(active)
    /\ crashed' = TRUE
    /\ active' = None
    /\ waits' = FALSE
    /\ UNCHANGED <<nCalls, calls>>

Next == Refuse \/ Begin \/ BeginUnattached \/ Throw \/ Wait \/ End \/ Crash

Spec == Init /\ [][Next]_vars

Ending == ~waits /\ (Wait \/ End \/ Crash)

FairSpec == Spec /\ WF_vars(Ending)

(* A call is answered for good, unless the program crashes or atos waits.  *)
EveryCallEnds == \A s \in Sessions : active = s ~> active # s \/ waits

=============================================================================
