----------------------------- MODULE HeapReader -----------------------------
(***************************************************************************)
(* readStackFrameAnnotation of lib/heap-reader.js: the text for one stack  *)
(* frame, read from the V8 heap of the paused process.                     *)
(*                                                                         *)
(* The stages of the call are the values of `stage`; the last one is the   *)
(* bisection of LineNumber.  A word of memory is whatever the process has  *)
(* there: each is chosen when it is read, out of what the code tells       *)
(* apart.  So an unreadable word that reads as 0 (tracer.mac.js) is one of *)
(* the choices; that a read throws (tracer.linux.js) is Throw.             *)
(*                                                                         *)
(* Strings are the exception: a string object may be met twice.  They are  *)
(* a graph that is chosen as a whole when its root is read, cons strings   *)
(* that contain themselves included, and its characters are abstracted.    *)
(***************************************************************************)
EXTENDS LineNumber, Sequences

CONSTANT Nodes      \* addresses of strings

ASSUME HeapReaderAssumption == Nodes # {}

VARIABLES
    stage,          \* of the call: see Stages
    annotation,     \* its result, once it has one
    strings,        \* the objects at Nodes
    root,           \* the string that is read, now or last
    todo,           \* strings still to read, depth first, each with its depth
    text,           \* what was read of the root: a sequence of pieces
    objects         \* history: how many objects were read for it

stringVars == <<strings, root, todo, text, objects>>
heapVars == <<stage, annotation, stringVars, vars>>

MAX_CONS_STRING_DEPTH == 5

(* "receiver" and "hidden" are the two tests for a builtin.                *)
Walks == {"nameString", "fileString"}
Stages == {"frameType", "objectType", "function", "receiver", "hidden",
           "sharedInfo", "name", "file", "line", "done", "escaped"} \cup Walks

(* A string object, by its shape and length: length 0, longer than 100, a  *)
(* sequence of one or two byte characters, a cons, or anything else.       *)
StringObject ==
    [kind : {"empty", "long", "seq", "unknown"}]
        \cup [kind : {"cons"}, first : Nodes, second : Nodes]

NoStrings == [n \in Nodes |-> [kind |-> "empty"]]

HeapInit ==
    /\ Init
    /\ stage = "frameType"
    /\ annotation = "none"
    /\ strings = NoStrings
    /\ root \in Nodes
    /\ todo = <<>> /\ text = <<>> /\ objects = 0

Goto(next) == stage' = next /\ UNCHANGED annotation
Finish(with) == stage' = "done" /\ annotation' = with

-----------------------------------------------------------------------------
(* readFrameType and annotateNonJSFrame *)

FRAME_TYPE_NATIVE == -1
FRAME_TYPE_JAVA_SCRIPT == 4
FRAME_TYPE_INTERNAL == 6
FRAME_TYPE_ARGUMENTS_ADAPTOR == 8

AnnotateNonJSFrame(type) ==
    CASE type = 1 -> "entry"    [] type = 2 -> "constructor entry"
      [] type = 3 -> "exit"     [] type = FRAME_TYPE_INTERNAL -> "internal"
      [] type = 7 -> "constructor"
      [] type = FRAME_TYPE_ARGUMENTS_ADAPTOR -> "arguments adaptor"
      [] OTHER -> "native"

Typed(type) ==
    IF type = FRAME_TYPE_JAVA_SCRIPT
    THEN Goto("function")
    ELSE Finish(AnnotateNonJSFrame(type))

(* An adaptor's context, a small integer where the function should be,     *)
(* which is then the type, or a pointer to follow.                         *)
ReadFrameType ==
    /\ stage = "frameType"
    /\ \/ Typed(FRAME_TYPE_ARGUMENTS_ADAPTOR)
       \/ \E type \in 0 .. Word - 1 : Typed(type)
       \/ Goto("objectType")
    /\ UNCHANGED <<stringVars, vars>>

ReadObjectType ==
    /\ stage = "objectType"
    /\ \E type \in {FRAME_TYPE_JAVA_SCRIPT, FRAME_TYPE_INTERNAL, FRAME_TYPE_NATIVE} :
          Typed(type)
    /\ UNCHANGED <<stringVars, vars>>

(* The function pointer, the receiver, or the shared info of the function. *)
ReadPointer ==
    /\ \/ stage = "function" /\ Goto("receiver")
       \/ stage = "receiver" /\ (Goto("hidden") \/ Finish("builtin"))
       \/ stage = "sharedInfo" /\ Goto("name")
    /\ UNCHANGED <<stringVars, vars>>

-----------------------------------------------------------------------------
(* readString, of the function's name and of its file *)

BeginString(pointer, next) ==
    /\ root' = pointer
    /\ todo' = <<[at |-> pointer, depth |-> 0]>>
    /\ Goto(next)
    /\ UNCHANGED <<text, objects, vars>>

(* A name of length 0 gives way to the inferred name.                      *)
ReadFuncSharedInfoName ==
    /\ stage = "name"
    /\ strings' \in [Nodes -> StringObject]
    /\ \E name, inferred \in Nodes :
          BeginString(IF strings'[name].kind = "empty" THEN inferred ELSE name,
                      "nameString")

ReadFuncSharedInfoFileName ==
    /\ stage = "file"
    /\ strings' \in [Nodes -> StringObject]
    /\ \E name \in Nodes : BeginString(name, "fileString")

(* The piece that an object gives by itself; that of a sequence is its own.*)
Own(n) ==
    CASE strings[n].kind = "seq" -> <<n>>
      [] strings[n].kind = "unknown" -> <<"[unknown]">>
      [] OTHER -> <<>>

\* mutant: the second string is read first
ReadConsString_SecondFirst(object, depth) ==
    <<[at |-> object.second, depth |-> depth + 1],
      [at |-> object.first, depth |-> depth + 1]>>

\* mutant: a cons string is counted once, not twice
ReadConsString_CountsOnce(object, depth) ==
    <<[at |-> object.first, depth |-> depth], [at |-> object.second, depth |-> depth]>>

ReadConsString(object, depth) ==
    <<[at |-> object.first, depth |-> depth + 1],
      [at |-> object.second, depth |-> depth + 1]>>

ReadStringInternal ==
    /\ stage \in Walks
    /\ todo # <<>>
    /\ LET object == strings[Head(todo).at]
           depth == Head(todo).depth
       IN  \/ /\ depth >= MAX_CONS_STRING_DEPTH
              /\ text' = Append(text, "...")
              /\ todo' = Tail(todo)
              /\ UNCHANGED objects
           \/ /\ depth < MAX_CONS_STRING_DEPTH
              /\ text' = text \o Own(Head(todo).at)
              /\ todo' = (IF object.kind = "cons"
                          THEN ReadConsString(object, depth + 1)
                          ELSE <<>>) \o Tail(todo)
              /\ objects' = objects + 1
    /\ UNCHANGED <<stage, annotation, strings, root, vars>>

(* The text is dropped, for nothing depends on it (readJSFunction puts     *)
(* '[empty]' for the empty one).                                           *)
ForgetStrings ==
    /\ strings' = NoStrings
    /\ todo' = <<>> /\ text' = <<>> /\ objects' = 0
    /\ UNCHANGED <<root, vars>>

AfterString == IF stage = "nameString" THEN "file" ELSE "line"

EndString ==
    /\ stage \in Walks
    /\ todo = <<>>
    /\ Goto(AfterString)
    /\ ForgetStrings

-----------------------------------------------------------------------------
(* readFuncSharedInfoLineNumber, and the end of readJSFunction *)

ReadLineNumber ==
    /\ stage = "line"
    /\ \/ Next /\ UNCHANGED <<stage, annotation>>
       \/ result \notin {NotCalled, None} /\ Finish("function") /\ UNCHANGED vars
    /\ UNCHANGED stringVars

-----------------------------------------------------------------------------
(* Exceptions *)

\* mutant: readFuncIsHiddenBuiltin does not catch
CatchInTests_NotHidden ==
    \/ stage = "receiver" /\ Goto("hidden")
    \/ stage = "hidden" /\ Goto("escaped")

(* readFrameIsJSBuiltin and readFuncIsHiddenBuiltin answer false.          *)
CatchInTests ==
    \/ stage = "receiver" /\ Goto("hidden")
    \/ stage = "hidden" /\ Goto("sharedInfo")

(* The `catch` that surrounds each of the other stages.                    *)
Catch ==
    \/ stage \in {"frameType", "function"} /\ Finish("unknown")
    \/ stage = "objectType" /\ Typed(FRAME_TYPE_NATIVE)
    \/ stage = "sharedInfo" /\ Finish("empty")
    \/ stage = "name" /\ Goto("file")
    \/ stage = "file" /\ Goto("line")
    \/ stage \in Walks /\ Goto(AfterString)
    \/ stage = "line" /\ Finish("function")

(* A read throws.  In "hidden" there is no other outcome: self.readContex  *)
(* is not a function.                                                      *)
Throw == (CatchInTests \/ Catch) /\ ForgetStrings

HeapRead ==
    \/ ReadFrameType \/ ReadObjectType \/ ReadPointer
    \/ ReadFuncSharedInfoName \/ ReadFuncSharedInfoFileName
    \/ ReadStringInternal \/ EndString
    \/ ReadLineNumber

HeapNext == HeapRead \/ Throw

HeapSpec == HeapInit /\ [][HeapNext]_heapVars

(* One call, in one turn of the event loop, in which no read need throw.   *)
HeapFairSpec ==
    HeapSpec /\ WF_heapVars(HeapRead \/ (stage = "hidden" /\ Throw))

-----------------------------------------------------------------------------
(* Properties *)

(* tracer.backtrace has the process paused: whatever a read finds, and     *)
(* wherever it throws, the call returns.                                   *)
AnnotationEnds == <>(stage \in {"done", "escaped"})

(* ... and it returns a text, for an exception would leave the process     *)
(* paused (OSXBacktrace and LinuxBacktrace of Tracer rely on this).        *)
AlwaysAnnotates ==
    stage # "escaped" /\ (stage = "done" => annotation # "none")

(* What a string says when its cons strings are followed over three levels *)
(* of objects: the pieces from left to right.                              *)
Elided == [n \in Nodes |-> <<"...">>]

Expanded(below) ==
    [n \in Nodes |->
        IF strings[n].kind = "cons"
        THEN below[strings[n].first] \o below[strings[n].second]
        ELSE Own(n)]

Whole == Expanded(Expanded(Expanded(Elided)))

(* A string is read whole and in order, up to three levels of objects,     *)
(* however its cons strings are nested or shared; the rest is elided.      *)
StringsInOrder == stage \in Walks /\ todo = <<>> => text = Whole[root]

(* The process is not paused for longer than seven string objects, even    *)
(* for one that contains itself.                                           *)
FewStringsRead == objects <= 2 ^ 3 - 1

=============================================================================
