----------------------------- MODULE ELFScripts -----------------------------
(***************************************************************************)
(* ELF scripts and the Sandboxes that run them (elf/script_elf.cpp and the *)
(* loading of sandbox.cpp).  A script holds the bytes of a file.  Every    *)
(* Sandbox that runs a script is registered under the path of the script,  *)
(* so that a reload of the file can give each of them the new program; and *)
(* each remembers the version of the script it loaded, so that it is not   *)
(* given the same program twice.                                           *)
(***************************************************************************)
EXTENDS Integers, Sequences, SequencesExt, FiniteSets

CONSTANTS
  Scripts, Sandboxes, Paths,
  Contents,         \* what a file may hold
  None,             \* no script, no bytes
  Programs,         \* the contents the machine's constructor accepts
  Publishing,       \* the programs whose main() publishes functions
  MaxVersion,       \* bound on source_version
  SavesElsewhere    \* are scripts saved under the path of another file

ASSUME ScriptsAssumption ==
  /\ None \notin Scripts \cup Contents /\ Paths # {}
  /\ Publishing \subseteq Programs /\ Programs \subseteq Contents
  /\ MaxVersion \in Nat /\ SavesElsewhere \in BOOLEAN

VARIABLES
  files,            \* the bytes at each path
  loaded,           \* the ELFScript objects there are
  script,           \* path, source_code, source_version and functions
  alive,            \* the Sandboxes there are
  busy,             \* the Sandboxes with a call in progress
  box,              \* m_program_data, m_source_version, m_program_bytes,
                    \* and the bytes the machine was made from
  sandbox_map       \* for each path the Sandboxes registered, in the order
                    \* of the HashSet

vars == <<files, loaded, script, alive, busy, box, sandbox_map>>

Bytes == Contents \cup {None}
(* functions is the program that published the functions of a script.      *)
NewBox == [m_program_data |-> None, m_source_version |-> -1,
           m_program_bytes |-> None, running |-> None]
NewScript == [path |-> CHOOSE p \in Paths : TRUE, source_code |-> None,
              source_version |-> 0, functions |-> None]

Init == /\ files \in [Paths -> Bytes]
        /\ loaded = {} /\ alive = {} /\ busy = {}
        /\ script = [s \in Scripts |-> NewScript]
        /\ box = [b \in Sandboxes |-> NewBox]
        /\ sandbox_map = [p \in Paths |-> <<>>]

-----------------------------------------------------------------------------
(* The operations change scripts, Sandboxes and the map in several steps,  *)
(* which are functions of this record.                                     *)
World == [script |-> script, box |-> box, map |-> sandbox_map]

Becomes(w) == script' = w.script /\ box' = w.box /\ sandbox_map' = w.map

(* HashSet::erase moves the last element into the gap; insert appends.     *)
Erase(s, b) ==
  IF \A i \in DOMAIN s : s[i] # b THEN s
  ELSE LET i == CHOOSE i \in DOMAIN s : s[i] = b
       IN  Front([s EXCEPT ![i] = Last(s)])

Insert(s, b) == IF \E i \in DOMAIN s : s[i] = b THEN s ELSE Append(s, b)

(* Definitions named ..._Mutant are the next definition with a plausible   *)
(* mistake in it; no other definition uses them.                           *)
unregister_instance_Mutant(w, b) == w

unregister_instance(w, b) ==
  IF w.box[b].m_program_data = None THEN w
  ELSE LET path == w.script[w.box[b].m_program_data].path
       IN  [w EXCEPT !.map[path] = Erase(@, b)]

register_instance(w, b, s) ==
  IF s = None THEN w
  ELSE [w EXCEPT !.map[w.script[s].path] = Insert(@, b)]

set_program_data_internal(w, b, s) ==
  register_instance([unregister_instance(w, b) EXCEPT !.box[b].m_program_data = s], b, s)

(* The bytes make a machine or they do not; the public functions of the    *)
(* program go to the script.                                               *)
load(w, b, bytes) ==
  LET s == w.box[b].m_program_data
      made == [w EXCEPT !.box[b].running = IF bytes \in Programs THEN bytes ELSE None]
  IN  IF bytes \in Publishing /\ s # None THEN [made EXCEPT !.script[s].functions = bytes]
      ELSE made

(* The version of the program a Sandbox is given.                          *)
KnownVersion_Mutant(w, b, s) == w.box[b].m_source_version

KnownVersion(w, b, s) ==
  IF s # None /\ w.box[b].m_program_data = s THEN w.box[b].m_source_version ELSE -1

set_program(w, b, s) ==
  IF b \in busy THEN w
  ELSE IF s # None /\ KnownVersion(w, b, s) = w.script[s].source_version THEN w
  ELSE LET unloaded == [set_program_data_internal(w, b, s) EXCEPT !.box[b] =
                          [m_program_data |-> s, m_source_version |-> KnownVersion(w, b, s),
                           m_program_bytes |-> None, running |-> None]]
       IN  IF s = None THEN unloaded
           ELSE LET bytes == w.script[s].source_code
                    made == load(unloaded, b, bytes)
                IN  IF bytes \in Programs
                    THEN [made EXCEPT !.box[b].m_source_version =
                                        w.script[s].source_version]
                    ELSE made

load_buffer(w, b, bytes) ==
  LET unloaded == [set_program_data_internal(w, b, None) EXCEPT !.box[b] =
                     [m_program_data |-> None, m_source_version |-> @.m_source_version,
                      m_program_bytes |-> bytes, running |-> None]]
  IN  load(unloaded, b, bytes)

(* The loop over sandbox_map[path] goes by position, up to the number of   *)
(* Sandboxes there were; each set_program() in it takes a Sandbox out of   *)
(* the set and puts it back.                                               *)
GiveToSandboxes(w, s) ==
  LET path == w.script[s].path
      N == Len(w.map[path])
      given[i \in 0..N] ==
        IF i = 0 THEN w
        ELSE LET before == given[i - 1]
             IN  set_program(before, before.map[path][i], s)
  IN  given[N]

NewSource_Mutant(w, s, bytes) == [w EXCEPT !.script[s].source_code = bytes]

NewSource(w, s, bytes) ==
  [w EXCEPT !.script[s] = [@ EXCEPT !.source_code = bytes, !.functions = None]]

set_file(w, s, p) ==
  LET moved == [w EXCEPT !.script[s].path = p]
  IN  IF files[p] \in {None, w.script[s].source_code} THEN moved
      ELSE GiveToSandboxes(NewSource(moved, s, files[p]), s)

_reload(w, s) ==
  LET newer == [w EXCEPT !.script[s].source_version = @ + 1]
  IN  set_file(newer, s, newer.script[s].path)

-----------------------------------------------------------------------------
(* What the host does.                                                     *)

write_file(p, bytes) ==
  /\ files' = [files EXCEPT ![p] = bytes]
  /\ UNCHANGED <<loaded, script, alive, busy, box, sandbox_map>>

(* ResourceFormatLoaderELF: a script object of its own for each load.      *)
load_resource(s, p) ==
  /\ s \notin loaded
  /\ loaded' = loaded \cup {s}
  /\ Becomes(_reload(set_file(World, s, p), s))
  /\ UNCHANGED <<files, alive, busy>>

(* The script is freed with the last reference; Sandboxes hold one.        *)
drop_resource(s) ==
  /\ s \in loaded /\ \A b \in alive : box[b].m_program_data # s
  /\ loaded' = loaded \ {s} /\ script' = [script EXCEPT ![s] = NewScript]
  /\ UNCHANGED <<files, alive, busy, box, sandbox_map>>

reload(s) ==
  /\ s \in loaded /\ script[s].source_version < MaxVersion
  /\ Becomes(_reload(World, s))
  /\ UNCHANGED <<files, loaded, alive, busy>>

(* ResourceFormatSaverELF does not save; it reads the file again.          *)
save(s, p) ==
  /\ s \in loaded /\ script[s].source_version < MaxVersion
  /\ SavesElsewhere \/ p = script[s].path
  /\ Becomes(_reload(set_file(World, s, p), s))
  /\ UNCHANGED <<files, loaded, alive, busy>>

new_sandbox(b) ==
  /\ b \notin alive
  /\ alive' = alive \cup {b}
  /\ UNCHANGED <<files, loaded, script, busy, box, sandbox_map>>

(* ~Sandbox.  The host does not free a Sandbox that runs a call.           *)
free_sandbox(b) ==
  /\ b \in alive \ busy
  /\ alive' = alive \ {b}
  /\ Becomes([set_program_data_internal(World, b, None) EXCEPT !.box[b] = NewBox])
  /\ UNCHANGED <<files, loaded, busy>>

call(b) == /\ b \in alive \ busy /\ box[b].running # None
           /\ busy' = busy \cup {b}
           /\ UNCHANGED <<files, loaded, script, alive, box, sandbox_map>>

call_ends(b) == /\ busy' = busy \ {b}
                /\ UNCHANGED <<files, loaded, script, alive, box, sandbox_map>>

give_program(b, s) ==
  /\ b \in alive /\ s \in loaded \cup {None}
  /\ Becomes(set_program(World, b, s))
  /\ UNCHANGED <<files, loaded, alive, busy>>

give_buffer(b, bytes) ==
  /\ b \in alive \ busy
  /\ Becomes(load_buffer(World, b, bytes))
  /\ UNCHANGED <<files, loaded, alive, busy>>

reset(b, unload) ==
  /\ b \in alive \ busy
  /\ LET w == [World EXCEPT !.box[b].m_source_version = -1]
     IN  Becomes(
           IF unload THEN [set_program_data_internal(w, b, None) EXCEPT !.box[b] = NewBox]
           ELSE IF box[b].m_program_data # None
                THEN set_program(w, b, box[b].m_program_data)
           ELSE IF box[b].m_program_bytes # None
                THEN load_buffer(w, b, box[b].m_program_bytes)
           ELSE w)
  /\ UNCHANGED <<files, loaded, alive, busy>>

Next ==
  \/ \E p \in Paths, bytes \in Bytes : write_file(p, bytes)
  \/ \E s \in Scripts, p \in Paths : load_resource(s, p) \/ save(s, p)
  \/ \E s \in Scripts : drop_resource(s) \/ reload(s)
  \/ \E b \in Sandboxes : new_sandbox(b) \/ free_sandbox(b) \/ call(b)
  \/ \E b \in busy : call_ends(b)
  \/ \E b \in Sandboxes, s \in Scripts \cup {None} : give_program(b, s)
  \/ \E b \in Sandboxes, bytes \in Contents : give_buffer(b, bytes)
  \/ \E b \in Sandboxes, unload \in BOOLEAN : reset(b, unload)

Spec == Init /\ [][Next]_vars

-----------------------------------------------------------------------------
(* The Sandboxes registered under a path are those that run a script of    *)
(* that path; none that was freed is left there for a reload to call,      *)
(* though reloads themselves take Sandboxes out and put them back.  Each   *)
(* is there once.                                                          *)
RegistryIsExact ==
  /\ \A p \in Paths : IsInjective(sandbox_map[p])
  /\ \A p \in Paths, b \in Sandboxes :
       b \in Range(sandbox_map[p]) <=>
         (/\ b \in alive /\ box[b].m_program_data # None
          /\ script[box[b].m_program_data].path = p)

(* A Sandbox that set_program() would leave as it is, because it has that  *)
(* version of the script, does run what the script holds: through reloads  *)
(* it missed, refused programs, buffers and other scripts in between.      *)
VersionTellsSource ==
  \A b \in alive :
    LET s == box[b].m_program_data
    IN  s # None /\ box[b].m_source_version = script[s].source_version
          => box[b].running = script[s].source_code

(* The public functions a script lists are those of the bytes it holds,    *)
(* never of the file it held before: a program that publishes none itself  *)
(* takes their addresses for its own.                                      *)
FunctionsAreOfTheSource ==
  \A s \in loaded : script[s].functions \in {None, script[s].source_code}
=============================================================================
