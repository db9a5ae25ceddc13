----------------------------- MODULE NestedCalls -----------------------------
(***************************************************************************)
(* What a Sandbox promises to the two sides of a guest call.               *)
(*                                                                         *)
(* Calls into the guest nest: the host calls a guest function, that        *)
(* function calls back into the host, the host calls another guest         *)
(* function, and so on, to a bounded depth.  There is one register file.   *)
(* Every activation of guest code runs on its own registers, and when an   *)
(* activation ends, however it ends, its caller finds its registers as it  *)
(* left them.  A call that is refused changes nothing at all.              *)
(*                                                                         *)
(* SandboxCalls implements this specification (see Refinement there).      *)
(***************************************************************************)
EXTENDS Naturals

CONSTANT MaxDepth   \* the most activations of guest code at one time

VARIABLES
  depth,       \* Nat: how many activations of guest code are in progress
  control,     \* "guest" while guest code runs, "host" otherwise
  registers    \* the activation the register file belongs to, 0 for none

vars == <<depth, control, registers>>

Init == depth = 0 /\ control = "host" /\ registers = 0

(* The host enters guest code. *)
Begin == /\ control = "host" /\ depth < MaxDepth
         /\ depth' = depth + 1
         /\ control' = "guest"
         /\ registers' = depth + 1

(* Guest code makes a system call, and the system call returns to it. *)
Suspend == /\ control = "guest"
           /\ control' = "host"
           /\ UNCHANGED <<depth, registers>>

Resume == /\ control = "host" /\ depth > 0
          /\ control' = "guest"
          /\ UNCHANGED <<depth, registers>>

(* The innermost activation returns, faults or times out. *)
End == /\ control = "guest"
       /\ depth' = depth - 1
       /\ control' = "host"
       /\ registers' = depth - 1

Next == Begin \/ Suspend \/ Resume \/ End

Spec == Init /\ [][Next]_vars
=============================================================================
