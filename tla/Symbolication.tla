---------------------------- MODULE Symbolication ----------------------------
(***************************************************************************)
(* How native frames get their names on macOS: resolveNativeFrames and     *)
(* replaceSymbols of index.js around resolveSymbols of lib/osx-atos.js,    *)
(* which runs the program atos.                                            *)
(*                                                                         *)
(* atos is external: it prints one line for each address, in order, and    *)
(* may die before it has printed them all; it may also complain on its     *)
(* standard error.  Node hands both outputs over in chunks, split anywhere *)
(* and in any order, and emits 'close' when both have ended.  Text is a    *)
(* sequence of characters that only tell names, line ends and complaints   *)
(* apart.                                                                  *)
(***************************************************************************)
EXTENDS Naturals, Sequences, SequencesExt

CONSTANTS
    Addresses, JsFrame, MaxFrames,      \* as in Symbolizer
    NL, Noise,                          \* a line end; a character of a complaint
    MaxNoise                            \* bound: characters on standard error

Character == Addresses \cup {NL, Noise}

(* Addresses are told apart from line ends, and from named frames.         *)
ASSUME SymbolicationAssumption ==
    /\ MaxFrames \in Nat /\ MaxNoise \in Nat
    /\ NL \notin Addresses
    /\ \A a \in Addresses : a \notin [native : Seq(Character) \cup {"Unknown"}]

VARIABLES
    profile,        \* the session's cpuProfile
    sampled,        \* history: the same, before any name was replaced
    outcome,        \* "pending", "running" (atos), "error" or "resolved"
    addresses,      \* framesArray, the arguments of atos
    out, err,       \* what atos has written and node not yet handed over
    complete,       \* history: atos printed every line
    complained,     \* history: atos wrote to its standard error
    stdoutBuffers, stderrBuffers,   \* of resolveSymbols, concatenated
    oneBuffer,                      \* whether stdoutBuffers is one chunk
    stdoutLength, stderrLength

bufferVars == <<stdoutBuffers, oneBuffer, stderrBuffers, stdoutLength, stderrLength>>
vars == <<profile, sampled, outcome, addresses, out, err, complete, complained,
          bufferVars>>

S == INSTANCE Symbolizer WITH
        outcome <- IF outcome = "running" THEN "pending" ELSE outcome

(* The name atos knows an address by is two characters long; it is printed *)
(* on a line of its own.                                                   *)
Name(a) == <<a, a>>
Printed(as) ==
    [i \in 1 .. 3 * Len(as) |-> IF i % 3 = 0 THEN NL ELSE as[(i + 2) \div 3]]

Init ==
    /\ profile \in S!Profiles
    /\ sampled = profile
    /\ outcome = "pending"
    /\ addresses = <<>> /\ out = <<>> /\ err = <<>>
    /\ complete = FALSE /\ complained = FALSE
    /\ stdoutBuffers = <<>> /\ stderrBuffers = <<>> /\ oneBuffer = FALSE
    /\ stdoutLength = 0 /\ stderrLength = 0

-----------------------------------------------------------------------------
(* resolveNativeFrames: ask for each address once *)

FramesArray(p) ==
    LET add(as, f) == IF f \in Addresses /\ ~Contains(as, f) THEN Append(as, f) ELSE as
        seen[n \in 0 .. Len(p)] == IF n = 0 THEN <<>> ELSE add(seen[n - 1], p[n])
    IN  seen[Len(p)]

ResolveNativeFrames ==
    /\ outcome = "pending"
    /\ outcome' = "running"
    /\ addresses' = FramesArray(profile)
    /\ out' \in Prefixes(Printed(addresses'))
    /\ err' \in SeqOf({NL, Noise}, MaxNoise)
    /\ complete' = (out' = Printed(addresses'))
    /\ complained' = (err' # <<>>)
    /\ UNCHANGED <<profile, sampled, bufferVars>>

-----------------------------------------------------------------------------
(* resolveSymbols *)

(* A chunk is never empty.                                                 *)
Push(data) ==
    /\ stdoutBuffers' = stdoutBuffers \o data
    /\ oneBuffer' = (stdoutBuffers = <<>>)

\* mutant: unshift in place of push
OnStdout_Unshift(k) ==
    /\ stdoutBuffers' = SubSeq(out, 1, k) \o stdoutBuffers
    /\ oneBuffer' = (stdoutBuffers = <<>>)
    /\ stdoutLength' = stdoutLength + k
    /\ out' = SubSeq(out, k + 1, Len(out))
    /\ UNCHANGED <<profile, sampled, outcome, addresses, err, complete,
                   complained, stderrBuffers, stderrLength>>

\* mutant: the length is counted and the data not kept
OnStdout_Drops(k) ==
    /\ stdoutLength' = stdoutLength + k
    /\ out' = SubSeq(out, k + 1, Len(out))
    /\ UNCHANGED <<profile, sampled, outcome, addresses, err, complete,
                   complained, stdoutBuffers, oneBuffer, stderrBuffers, stderrLength>>

OnStdout(k) ==
    /\ Push(SubSeq(out, 1, k))
    /\ stdoutLength' = stdoutLength + k
    /\ out' = SubSeq(out, k + 1, Len(out))
    /\ UNCHANGED <<profile, sampled, outcome, addresses, err, complete,
                   complained, stderrBuffers, stderrLength>>

(* The data goes to stdoutBuffers and only its length to stderrLength.     *)
OnStderr(k) ==
    /\ Push(SubSeq(err, 1, k))
    /\ stderrLength' = stderrLength + k
    /\ err' = SubSeq(err, k + 1, Len(err))
    /\ UNCHANGED <<profile, sampled, outcome, addresses, out, complete,
                   complained, stderrBuffers, stdoutLength>>

Trim(t) ==
    LET ink == {i \in DOMAIN t : t[i] # NL}
    IN  IF ink = {} THEN <<>> ELSE SubSeq(t, Min(ink), Max(ink))

(* The pieces between line ends: always at least one.                      *)
Split(t) ==
    LET read(ps, c) == IF c = NL THEN Append(ps, <<>>)
                       ELSE [ps EXCEPT ![Len(ps)] = Append(@, c)]
        pieces[n \in 0 .. Len(t)] ==
            IF n = 0 THEN << <<>> >> ELSE read(pieces[n - 1], t[n])
    IN  pieces[Len(t)]

(* Buffer.concat (node 0.10) returns an only buffer as it is, and cuts the *)
(* text of several off at the total length it is given.                    *)
Concat == IF oneBuffer THEN stdoutBuffers ELSE SubSeq(stdoutBuffers, 1, stdoutLength)

Symbols == Split(Trim(Concat))

(* replaceSymbols; an empty symbol is falsy, and so 'Unknown'.             *)
Replaced(symbols) ==
    LET at(a) == CHOOSE i \in DOMAIN addresses : addresses[i] = a
        symbol(a) == IF symbols[at(a)] = <<>> THEN "Unknown" ELSE symbols[at(a)]
    IN  [i \in DOMAIN profile |->
            IF profile[i] \in Addresses
            THEN [native |-> symbol(profile[i])]
            ELSE profile[i]]

\* mutant: the errors are reported, and the frames replaced all the same
OnClose_GoesOn ==
    /\ outcome' = IF Len(Symbols) # Len(addresses) THEN "error" ELSE "resolved"
    /\ profile' = Replaced(Symbols \o [i \in DOMAIN addresses |-> <<>>])

\* mutant: only too many lines are an error
OnClose_TooMany ==
    IF Len(Symbols) > Len(addresses)
    THEN outcome' = "error" /\ UNCHANGED profile
    ELSE /\ outcome' = "resolved"
         /\ profile' = Replaced(Symbols \o [i \in DOMAIN addresses |-> <<>>])

\* mutant: nothing printed is taken for nothing to report
OnClose_NeedsOutput ==
    /\ outcome' = IF stdoutLength = 0 THEN "running" ELSE "error"
    /\ UNCHANGED profile

(* The exit code is not looked at, and nothing is ever put into            *)
(* stderrBuffers: only the number of lines can give an error away.         *)
OnClose ==
    LET symbols == Symbols IN
    \/ /\ stderrBuffers # <<>> \/ Len(symbols) # Len(addresses)
       /\ outcome' = "error"
       /\ UNCHANGED profile
    \/ /\ stderrBuffers = <<>> /\ Len(symbols) = Len(addresses)
       /\ outcome' = "resolved"
       /\ profile' = Replaced(symbols)

Data ==
    /\ outcome = "running"
    /\ \/ \E k \in 1 .. Len(out) : OnStdout(k)
       \/ \E k \in 1 .. Len(err) : OnStderr(k)

Close ==
    /\ outcome = "running"
    /\ out = <<>> /\ err = <<>>
    /\ OnClose
    /\ UNCHANGED <<sampled, addresses, out, err, complete, complained, bufferVars>>

Next == ResolveNativeFrames \/ Data \/ Close

Spec == Init /\ [][Next]_vars

(* Node delivers what was written and then 'close', once atos exits; given *)
(* no address, it waits for some on its standard input, which stays open.  *)
FairSpec ==
    /\ Spec
    /\ WF_vars(ResolveNativeFrames) /\ WF_vars(Data)
    /\ WF_vars(addresses # <<>> /\ Close)

-----------------------------------------------------------------------------
(* Properties *)

TypeOK ==
    /\ sampled \in S!Profiles
    /\ DOMAIN profile = DOMAIN sampled
    /\ outcome \in {"pending", "running", "error", "resolved"}
    /\ addresses \in SeqOf(Addresses, MaxFrames)
    /\ stdoutLength \in 0 .. Len(stdoutBuffers)
    /\ oneBuffer \in BOOLEAN
    /\ stderrLength \in 0 .. MaxNoise

(* When atos does its work in silence, every native frame gets the name    *)
(* atos knows its address by, however the output was cut into chunks and   *)
(* however often an address was sampled.                                   *)
NamedByAtos ==
    outcome = "resolved" /\ complete /\ ~complained =>
        \A i \in DOMAIN sampled : sampled[i] \in Addresses =>
            profile[i] = [native |-> Name(sampled[i])]

(* If atos died in silence before it began the last line, the caller gets  *)
(* an error: no name is given to another address.  Except for an only      *)
(* address, for '' splits into one piece: that one is called 'Unknown'.    *)
ShortOutputIsAnError ==
    outcome = "resolved" /\ ~complained =>
        \/ Contains(stdoutBuffers, Last(addresses))
        \/ \A i \in S!Natives(sampled) : profile[i] = [native |-> "Unknown"]

(* Whatever atos prints: one answer, which leaves the profile as sampled   *)
(* or names all native frames, of which there are some, and nothing else.  *)
KeepsPromise == S!Spec

(* A run of atos with addresses to name is answered, however it ends.      *)
Answered == (outcome = "running" /\ addresses # <<>>) ~> outcome \in {"error", "resolved"}

(* resolveSymbols gives its caller an error whenever atos wrote to its     *)
(* standard error.                                                         *)
ComplaintIsAnError == complained => outcome # "resolved"

=============================================================================
