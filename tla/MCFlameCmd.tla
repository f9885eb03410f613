----------------------------- MODULE MCFlameCmd -----------------------------
(* Instances of FlameCmd for TLC.                                          *)
EXTENDS FlameCmd

(* A JavaScript frame with a path, two more of which differ in one piece,  *)
(* and a native one.                                                       *)
SomeFrames == {<<"f:", "lib", "a.js:1">>, <<"f:", "test", "a.js:1">>, <<"start">>}

SomeStacks == {<<>>} \cup {<<f>> : f \in SomeFrames}
                \cup {<<f, g>> : f, g \in SomeFrames}

SomeProfiles ==
    {p \in {<<s>> : s \in SomeStacks} \cup {<<s, t>> : s, t \in SomeStacks} :
        \E i \in DOMAIN p : p[i] # <<>>}
=============================================================================
