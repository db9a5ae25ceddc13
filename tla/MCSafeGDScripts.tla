-------------------------- MODULE MCSafeGDScripts --------------------------
(* Instances of SafeGDScripts for TLC. *)
EXTENDS SafeGDScripts, TLC

(* A source where f may be called without arguments, one where it is the   *)
(* second function, one where it needs an argument, and one that is wrong. *)
Function(name, required, expected) ==
  [name |-> name, required |-> required, expected |-> expected]
Texts == {"optional", "second", "needed", "wrong"}
Written ==
  ("optional" :> <<Function("f", 0, 1)>>) @@
  ("second" :> <<Function("g", 1, 1), Function("f", 0, 2)>>) @@
  ("needed" :> <<Function("f", 1, 2)>>) @@
  ("wrong" :> <<>>)
=============================================================================
