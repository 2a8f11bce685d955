----------------------------- MODULE MCTestRun -----------------------------
(* Two tests that run and one that does not, with some of everything a test can do. *)
EXTENDS TestRun

CONSTANTS a, b, c, f, g, o

MCInstalled == <<a, b, c>>

MCGroup == a :> "g" @@ b :> "g" @@ c :> "h"
MCName == a :> "a" @@ b :> "ab" @@ c :> "c"
MCNumbers == "2" :> 2
MCWithin == {<<"a", "ab">>}

(* All tests, in one process and in processes of their own; c alone, twice, named in
   four ways; none; and lines with an argument that is wrong. *)
MCCommandLines ==
  {<<>>, <<Flag("-p", ""), Flag("-v", ""), Flag("-o", "junit")>>,
   <<Flag("-r", ""), Flag("-sg", "h")>>, <<Flag("-n", ""), Word("c"), Flag("-r", ""), Word("2")>>,
   <<Flag("-n", "a"), Verbose("h", "c"), Flag("-r", "2")>>,
   <<Flag("-sn", ""), Word("c"), Flag("-r", ""), Flag("-v", "")>>,
   <<Flag("-g", ""), Word("none")>>,
   <<Word("2")>>, <<Flag("-o", ""), Word("2")>>, <<Flag("-r", ""), Word("c")>>, <<Flag("-o", "")>>}

(* b is the first that runs, and a what comes after it. *)
MCRepertoires ==
  b :> {{"Allocate", "Release", "ExpectLeaks"}, {"Allocate", "Release", "Reallocate", "Overrun"},
        {"Allocate", "OutOfMemory", "Release"}, {"PtrSet", "Fail"}, {"Crash", "Allocate"},
        {"Expect", "Call", "StrictOrder"}, {"Expect", "Call", "IgnoreOtherCalls"},
        {"Expect", "Call", "Enable"}, {"Expect", "Call", "Check", "Clear"}}
  @@ a :> {{"Expect", "Call", "Check"}, {"Allocate", "Release", "PtrSet", "Fail"}}

MCMaxSteps ==
  [r \in MCRepertoires[a] \union MCRepertoires[b] |-> IF "StrictOrder" \in r THEN 5 ELSE 4]

MCDoable ==
  [phase \in Phases |->
     CASE phase = "body" -> UNION (MCRepertoires[a] \union MCRepertoires[b])
       [] phase = "setup" -> {"Allocate", "Fail", "PtrSet", "StrictOrder"}
       [] phase = "teardown" -> {"Check", "Release", "Fail"}
       [] phase \in {"create", "destroy"} -> {"Allocate", "Fail"}]

Named(name, parameters, on, ignore) ==
  [name |-> name, parameters |-> parameters, object |-> on, ignore |-> ignore]

(* f has a parameter, and g, that is called on an object, some that are ignored. *)
MCExpectable ==
  {Named(f, <<<<"p", 1>>>>, NoObject, FALSE), Named(f, <<<<"p", 2>>>>, NoObject, FALSE),
   Named(g, <<<<"p", 1>>>>, o, TRUE)}

MCCallable ==
  {Named(f, <<>>, NoObject, FALSE), Named(f, <<<<"p", 1>>>>, NoObject, FALSE),
   Named(f, <<<<"p", 2>>>>, NoObject, FALSE),
   Named(g, <<<<"p", 1>>, <<"q", 1>>>>, o, FALSE)}
=============================================================================
