--------------------------- MODULE ExtensionParts ---------------------------
(***************************************************************************)
(* Parts of the extension that keep no state in common: what programs come *)
(* from (ELFScripts, ScriptInstances, SafeGDScripts), how their functions  *)
(* are found (FunctionLookup), and what a program and its host hand each   *)
(* other (SandboxProperties, CallArguments).  A behaviour here is one of   *)
(* any of them with the others at rest.                                    *)
(***************************************************************************)
EXTENDS ELFScripts, ScriptInstances, SafeGDScripts, FunctionLookup,
        SandboxProperties, CallArguments

VARIABLE moving     \* the part that moves

scripts_vars == <<vars, instance_vars, safe_vars, lookup_vars>>
exchange_vars == <<property_vars, argument_vars>>
parts_vars == <<scripts_vars, exchange_vars, moving>>

(* The files there are at first matter to ELF scripts only, the mode of    *)
(* calls to their arguments.                                               *)
PartsInit ==
  /\ moving \in {"elf", "instances", "safegdscript", "lookup",
                 "properties", "arguments"}
  /\ Init /\ InstancesInit /\ SafeInit /\ LookupInit
  /\ PropertiesInit /\ ArgumentsInit
  /\ moving # "elf" => files = [p \in Paths |-> None]
  /\ moving # "arguments" => ~unboxed

PartsNext ==
  /\ UNCHANGED moving
  /\ \/ /\ moving = "elf" /\ Next
        /\ UNCHANGED <<instance_vars, safe_vars, lookup_vars, exchange_vars>>
     \/ /\ moving = "instances" /\ InstancesNext
        /\ UNCHANGED <<vars, safe_vars, lookup_vars, exchange_vars>>
     \/ /\ moving = "safegdscript" /\ SafeNext
        /\ UNCHANGED <<vars, instance_vars, lookup_vars, exchange_vars>>
     \/ /\ moving = "lookup" /\ LookupNext
        /\ UNCHANGED <<vars, instance_vars, safe_vars, exchange_vars>>
     \/ /\ moving = "properties" /\ PropertiesNext
        /\ UNCHANGED <<scripts_vars, argument_vars>>
     \/ /\ moving = "arguments" /\ ArgumentsNext
        /\ UNCHANGED <<scripts_vars, property_vars>>

PartsSpec == PartsInit /\ [][PartsNext]_parts_vars
=============================================================================
