# Godot Sandbox in TLA+

Godot Sandbox is an extension of the Godot engine that runs RISC-V programs (the guest)
inside a game (the host). The host calls functions of the guest; the guest makes system
calls, which read and write the engine's Variants and objects and may call the host, which
may call the guest again. Programs come from files, or from a compiler for a dialect of
GDScript that is part of the extension. This directory holds TLA+ specifications of the
parts of the extension in which such a back and forth, or such a translation, can go wrong,
their model-checking runs, and machine-checked proofs of the properties that matter most.

All paths are relative to the repository, `src/` being the directory with the extension's
C++ code. The files here:

| module | what it specifies |
| --- | --- |
| `NestedCalls` | what a Sandbox promises about calls: abstract specification |
| `SandboxCalls` | guest calls, loading, faults, timeouts, settings; implements `NestedCalls` |
| `ScopedVariants` | the Variants a guest refers to by index |
| `ScopedObjects` | the objects a guest refers to by address, and the allow list |
| `GuestReferences` | the last two, for one run |
| `BackgroundTranslation` | threads that translate programs, and unloading |
| `FunctionLookup` | the caches of function addresses |
| `CallArguments` | arguments and results in registers and on the stack, callables |
| `SandboxProperties` | the properties of a program, and what a reload carries over |
| `ELFScripts` | scripts, their files, and the Sandboxes registered with them |
| `ScriptInstances` | instances of scripts, the Sandboxes they share, their tree base |
| `SafeGDScripts` | scripts compiled in the game: edits, calls, the profiler |
| `ExtensionParts` | the last six, for one run |
| `GDScriptAST` | the compiler's trees |
| `GDScriptLexer`, `GDScriptParser`, `GDScriptFrontEnd` | from a file to a tree |
| `GDScriptText` | how a tree is written down, from the precedence table: what the parser is compared with |
| `GDScriptIR` | the intermediate code and what it means |
| `IRVerifier` | what the verifier of the intermediate code accepts |
| `GDScriptCodegen` | the code generator |
| `IROptimizer` | the passes of the optimizer, in the order of the pipeline |
| `RISCVCodegen` | the back end: intermediate code to machine code |
| `RISCVMachine`, `HostVariants` | the sandbox that runs it, the system calls it makes, the engine's Variants |
| `RISCVEncoding` | the words of the machine code, read back by a machine that knows the manuals |
| `RegisterAllocator` | which machine register holds which value, around host calls |
| `GDScriptSemantics` | what a program means: abstract specification |
| `GDScriptCompiler` | code generator, back end and machine, compared with the meaning; for one run also the front end, the register allocator and the encoder |
| `MC...` | the instances of each for TLC |
| `SandboxCalls_proofs`, `GuestReferences_proofs` (of `ScopedVariants` and `ScopedObjects`), `GuestFunctions_proofs` (of `FunctionLookup` and `CallArguments`), `BackgroundTranslation_proofs`, `ScriptInstances_proofs`, `Programs_proofs` (of `ELFScripts` and `SandboxProperties`), `SafeGDScripts_proofs`, `RegisterAllocator_proofs` | theorems and proofs |

## Inventory

For each component: its state, its operations, how it meets the others, what is hard, and
what makes it correct.

**Guest calls** (`sandbox.cpp`, `sandbox.h`, `sandbox_exception.cpp`). State: the machine
(`m_machine`, a dummy when no program is loaded) with its one register file; an array of
call states and the pointer `m_current_state` into it, whose distance from the start is
the level; the execution settings; `m_use_unboxed_arguments`; the editor's throttle.
Operations: `vmcall_internal` and its callers `vmcall`, `vmcallv`, `vmcall_fn`,
`vmcall_address`, properties and callables; loading (`set_program`, `load_buffer`,
`reset`), which deletes the machine and runs `main()`; the handlers of faults and
timeouts. Hard: calls nest through host code and share the registers; a call is refused
in the middle of its preparation; host code that a call reached loads another program.
Correct if every activation of guest code keeps its machine and gets its registers back,
levels are given back on every path, settings a call switches are restored, and calls end.

**Scoped Variants** (`sandbox.cpp`, `guest_variant.cpp`). State: in each call state a
vector of owned Variants and a vector of pointers, indexed by the guest; negative indices
go to level 0, whose Variants are permanent. Operations: making, cloning, assigning,
making permanent, resizing (`references_max`). Met by every system call that takes a
Variant. Hard: pointers into a vector, indices that mean something only in one call,
arguments that belong to the host. Correct if an index denotes what the guest stored under
it, globals survive, and the host's Variants are not written.

**Scoped objects and restrictions** (`sandbox.cpp`, `sandbox_restrictions.cpp`). State: in
each call state the table of object addresses and the references held for the call; the
allow list by object id; the callbacks. Hard: addresses of dead objects are reused, the
last reference may go away in mid-call, the host changes restrictions from a callback.
Correct if a handle reaches the object it was given for, what was handed out lives as long
as the call, and the allow list admits the allowed objects and no others.

**Background translation** (`sandbox.cpp`, `register_types.cpp`). State: a list of threads
behind a mutex, each with a flag. Hard: loads on several threads and the unload. Correct
if each thread is joined once, before its code is unmapped, and nobody waits for ever.

**Name lookup** (`sandbox.cpp`, `stringname_id.hpp`). State: three caches of addresses,
the list of public functions, and a cache of guest names. Hard: misses are cached; a
String is recognised by the address of its buffer, which is freed and reused. Correct if a
lookup finds what the name means now.

**Argument layout and guest callables** (`sandbox.cpp`, `vmcallable.h`). State: registers
and stack, as a call finds and leaves them; for each callable the bound arguments and one
array of argument pointers. Hard: two conventions that a setting switches, arguments that
take two registers, more arguments than registers, the place of the result, one callable
called from within itself. Correct if a function reads what its caller gave, for as long as
it runs, and the caller reads what the function wrote.

**Properties and loading** (`sandbox.cpp`, `vmproperty.h`). State: name, type and accessors
or the address of each; values are in the guest. `set_program` runs getters of the old
program and setters of the new one. Hard: guest code in the middle of a load, properties
that change their type or their kind, refusals half way. Correct if what the host set is
there after a reload.

**ELF scripts** (`elf/`). State: a script's bytes, version and functions; a static map
from paths to Sandboxes. Hard: reloading walks a set that it changes; stale registrations;
two scripts of one path. Correct if the registry is exact and what a Sandbox runs, what its
version says and what the function list says agree.

**Script instances** (`elf/script_instance.cpp`, `cpp/`, `safegdscript/`). State: static
maps from scripts to shared Sandboxes, with a count or for ever; a node's instance; the
base a Sandbox resolves paths from. Hard: instances are made and freed in any order, during
calls, by scripts that are replaced; calls of several instances nest in one Sandbox.
Correct if a Sandbox lives exactly as long as its instances, runs its own script, and a
call runs for its node.

**SafeGDScript scripts** (`safegdscript/`). State: source, compiled program, table of
signatures, snapshots of the profiler. Hard: compiling replaces these one by one, and may
fail in between. Correct if table, program and counters are of one source when a call or
the profiler uses them together.

**GDScript compiler** (`gdscript/compiler/`). Lexer with indentation, parser, code
generator, optimizer, register allocator, RISC-V back end, interpreter of the intermediate
representation. Sequential, but its passes rely on each other and on facts about paths that
no single instruction shows: types believed on one path, registers that hold a copy,
results built in place, addresses taken before the stack moves. Correct if a program
compiled and run does what the source says.

**System calls** (`sandbox_syscalls*.cpp`). About 200 functions, most of them one
conversion and one call of the engine.

**Profiling** (`sandbox_profiling.cpp`, `safegdscript/profiling_safegdscript.cpp`). A table
of samples filled by calls and read by the editor; counters in the memory of programs.

**Resumable startup, symbol tables, generated API, project settings, Docker** hold no state
that other components rely on.

**Guest API** (`program/`). Wrappers of single system calls, compiled into guests.

**libriscv** is a submodule whose files are not in the repository; what `sandbox.cpp`
relies on is part of `SandboxCalls` and `RISCVMachine`: a register file, `preempt` saving
and restoring it, an instruction limit, the instructions the back end emits.

## The modules and the code

### NestedCalls and SandboxCalls

`NestedCalls` has three variables: how deep calls are nested, who runs, and whose registers
are in the register file. Its steps are Begin, Suspend, Resume and End. A refused call is
no step at all.

`SandboxCalls` keeps the activations of guest code as a stack, `frames`; a frame is what
`vmcall_internal` (or `load`, for `main()`) has in local variables: entry, level, machine,
whose registers it saved, the `unboxed_arguments` setting to restore, whether the limit is
enforced. `level`, `machine`, `cpu` (whose registers the machine holds), `unboxed`,
`throttled` and `settings` are members of the Sandbox; `chosen` records what the host set.
The actions are the functions: `vmcall_internal` with three refusals on the way
(`refuse_too_deep`, `refuse_arguments`, `skip_throttled`), `syscall` and `syscall_returns`
for system calls that reach host code, `vmcall_returns`, `vmcall_fails`, `time_out`,
`load`, `main_ends`, `unload`, and the setters. Guest code is not interpreted: it runs
until it does one of these things. `enforces_limit` is the case split of execution modes.

`RefusedLevels` says at which levels the arguments of a call may be refused,
`MainMayCallHost` whether system calls of `main()` reach code of the host,
`ReconfiguresInCalls` whether that host code sets `unboxed_arguments`, `IsEditor` whether
the throttle exists. `Fuel` bounds system calls per activation. The code allows all of
this; the constants separate what holds in general from what holds for the usual host.

### ScopedVariants

`owned`, `slots` and `capacity` are the two vectors of each call state; a pointer names
the storage (by its capacity) and the position, so that a reallocation leaves pointers to
storage that is gone, which reads as `Junk`. `get_scoped_variant` and its parts translate
an index. `held` and `kept` are history: what the guest knows by each index in this call
and in its globals; the system calls (`create_scoped_variant`, `clone`,
`create_permanent_variant`, `try_reuse_assign_variant`, `get_mutable_scoped_variant`) are
made with those indices. Values of primitive types have no index and are left out.

### ScopedObjects

`memory` is the engine: which object is at which address. Objects are identified by their
id, which is never reused, addresses are. A call state has `scoped_objects` (address to
binding) and `scoped_refs`; the references of the host, of arguments and of the allow list
complete the count, and `Release` frees what nothing refers to. `given` is history: the
object last handed out under a handle. `create` hands an object to the guest,
`resolve_scoped_object` gives an entry without a binding the one of what is at its
address, `begin_call`, `end_call` and `full_reset` are calls and loads, the others are the
operations of `sandbox_restrictions.cpp`. The callbacks for classes, methods, properties
and resources answer one access each and are not modelled.

An entry of the table stays when its object dies. `rem_scoped_object` (`sandbox.cpp:1422`)
would drop it, but has no caller: the one call of it, where a guest frees a node
(`sandbox_syscalls.cpp:1877`), is commented out, so there is no action for it. A node that
goes away in the course of a call, because the host frees it or the guest calls a method
that does, therefore leaves an entry that names whatever is put at its address next. That
is possible in the model (`free_node`) and kept out of the run and the theorems by
`FreesInCalls = FALSE`; with `TRUE`, TLC finds both handle properties violated (each alone).
`HandlesDenoteTheirObjects`, `CountedHandlesStayAlive` and the theorems
`HandlesAreExact` and `CountedHandlesAreKept` say nothing about such calls.

`GuestReferences` puts the two tables of a call state side by side: a behaviour of it is
one of either, `table` says which. The tables are filled and emptied by the same functions
but never read each other, so that nothing is lost by moving one at a time.

### BackgroundTranslation

One step per access to the shared list, per lock, per join, and per step of the thread
(finishing, setting the flag, exiting). The thread runs before it is listed, as in the
code. `unloaded` is the only step left at the end.

### FunctionLookup

`by_hash`, `by_name` and `by_string` are the answers of the three lookups; the three
actions also keep them. Buffers are counted by the entries of `m_name_addresses` and by
the host's Strings, and freed and reused as the engine does; a String that is referred to
elsewhere is copied before it is changed. `published` is history: what the program said a
name means. `Hash` and `SlotOf` are constants, so that collisions can be tried.

### CallArguments

The stack is a map from addresses, in words of eight bytes, to what was last written
there; a word is a part of something, so that half a Variant is seen as none. `setup_boxed`
and `setup_unboxed` are the two halves of `setup_arguments`: boxed arguments are Variants
of three words on the stack, seven pointers to them in `a1` to `a7` and the others behind;
unboxed ones go to integer and floating point registers, by kind. `running` has for every
call in progress its registers, its stack pointer and where its result is read.
`vmcall`, `vmcall_refused`, `call_callable`, `write_result` and `returns` are the
operations, nested as they come; `vmcallable` and `api_callable_create` make callables.
A function writes its result before or after it has read its arguments; `MaxEarly` says up
to how many arguments it may do the former. `Integers`, `Floats` and `Before` are the calling
convention as the guest's compilers have it, written apart from how the host fills registers.

### SandboxProperties

`memory_of` is what the guest keeps for each property, `permanent_slots` the Variants the
host holds for it. `set_program` is several actions, `begin_set_program`, `read_property`,
`load_carrying`, `write_property` and `end_set_program`, one per call into a guest, because
each of those may fail or reach host code. `before` is history, and
`disturbed` the properties an accessor failed for or the host set afterwards; everything
else must be what it was: `PropertiesAreKept`. `AccessorsSetProperties` says whether host
code that an accessor reaches sets properties of the same program.

### ELFScripts

The operations change scripts, Sandboxes and the map in several steps, so they are
functions of a record of the three, named for the C++ functions; the actions apply them.
The set of Sandboxes of a path is a sequence, because `set_file` walks it by position while
`set_program` takes Sandboxes out and puts them back. What is in the machine is the bytes
it was made from. Two scripts may have the same path, since the loader makes a new one for
each load.

### ScriptInstances

Scripts of the three kinds whose instances are the extension's own, the nodes they are
attached to, and calls that nest. The kinds differ in how long a Sandbox is kept, in who
gives it its program (`detect_script_instance` finds the program built beside a C++ script)
and in whether a node that is a Sandbox is used itself; the actions have these cases in
their definitions. A call records the tree base it found and puts it back, as
`ScopedTreeBase` does; a node freed in its own call is gone when the call ends.
`AssociatesInCalls` says whether a program is associated while a call runs.

### SafeGDScripts

A script has a source, a program and the table of signatures; the Sandbox has a program of
its own. `edit` compiles and replaces them in the order of the code, `edit_fails` stops
where a compiler fails. A source names each of its functions once
(`SignaturesAssumption`); the compiler does not refuse one that names a function twice, and
which of the two its table and its symbols then mean is not modelled. `callp_safe` completes the arguments by the table and runs in the
program. The profiler reads the counters by position and subtracts snapshots, `previous`
and `baseline`. `CompilesInCalls` says whether a script is compiled while it runs.

`ExtensionParts` is the composition of the last six modules. They meet only through
operations each of them has as its own (a program is loaded, a call is made), and keep no
variable in common: `moving` says which of them a behaviour is of.

### The front end

`GDScriptLexer` scans a sequence of pieces: characters where characters decide (blanks,
brackets, operators, quotes, line ends), words otherwise. Each step is one call of
`scan_token`; `m_indent_stack`, `m_open_brackets` and `m_at_line_start` are the code's.
`GDScriptParser` has one operator per function of `parser.cpp`, on a record of the tokens
left. `GDScriptText` writes trees down by what the precedence table says, in a style (blank
lines, comments, statements joined by semicolons, line breaks inside brackets, quotes,
spelled operators), and owes nothing to the parser. `BlocksFollowIndentation` reads the
indentation and the brackets of a source on its own and says that it is refused exactly
when a line fits nowhere or a bracket is left open, and that otherwise the `INDENT` and
`DEDENT` tokens around a line are as many as the blocks it is in. Numbers are decimal; positions, doc
comments and the texts of errors are left out.

### GDScriptIR, IRVerifier, GDScriptCodegen and IROptimizer

`GDScriptIR` has the instructions and the interpreter the compiler's tests compare code
with, `IRVerifier` what the opcode table says of operands and effects (`ir_opcodes.def`)
and the verifier: operands and labels, definitions before uses on every path, and the
types that are believed, as the fixed point of a worklist over the code's branches. Here a value is an
integer of `Width` bits, with wrap-around, or one float that is not a number; a comparison
with it is false. `GDScriptCodegen` is a function of a record, the generator, that each
`gen_` operator extends: variables and their types, globals, functions and default
arguments, arrays, dictionaries, strings, vectors and their components, structs, enums,
every statement, `match` with its patterns. Registers, labels and the order of instructions
are those of the program. A function of more than seven parameters is refused.

`IROptimizer` has the state `source` (the function), `enabled` (the passes switched on, as
`set_enabled_passes` allows) and `compiled`; the pipeline is folded over the code, and the
properties look at every stage of it. `SourceMeaning` evaluates the statements
themselves and owes nothing to the generator; `CodeMeansTheSource` compares the two.
`PassesKeepMeaning` says that a pass keeps what the code returns, what it leaves in globals
and whether it ends: of the peephole pass for arguments that are numbers, of the motion of
loads out of loops and of the removal of redundant stores for code on which their
unchecked assumption happens to hold (`HoistsSafely`, `CopiesAreReadInTime`), so that the
conditions they do check are tested, too. The cap on the visits of constant folding is
beyond functions of this size and left out.

Instruction by instruction, the code after each stage agrees with that of the compiler
itself, built from the sources, for 2,000 random functions over integers.

### RISCVCodegen, RISCVMachine, HostVariants and GDScriptSemantics

`RISCVCodegen` has one operator per `emit_` or `gen_` function: frames of Variants of 24
bytes, native arithmetic where types are known and host calls where they are not, values
kept in registers, results built in place, globals, calls and the copies of what is passed
on the stack, branches that are turned round when their target is too far. An instruction
is a record; a place in the program is a number of instructions. Labels are kept apart by
function; the code has one map of names for functions and labels (`riscv_codegen.cpp:224`,
`:2652`), in which a function called like a label that the compiler makes (`else_0`) shares its
entry with it; no function of the model has such a name. Of the functions that
print, `print` is modelled, so that the channel (`riscv_codegen.cpp:1157`) is always the same.

`RISCVMachine` is the Sandbox running it: registers and a memory of half-width words that
say what they are a part of, so that a slot read as the wrong type reads as nothing, the
system calls compiled programs make, and `vmcall`. What the memory
holds before a call is what earlier calls left. `HostVariants` is the engine, as far as
those system calls use it, and external: operators, methods and containers, which are
shared by reference, in a heap.

The arguments of a system call are Variants of which only the bytes of their type are
written, so that a slot keeps what was behind them.

`GDScriptSemantics` runs the tree of a program over a store and says what it means; where
the language gives no meaning (a missing element, an operator the engine does not have for
the operands) or a run takes too long, it says "undefined", and nothing is claimed. It has no
registers, no types known in advance and no code. `GDScriptCompiler` compiles a program,
makes a series of calls of it and compares what was returned, printed and stored. It also
holds the front end, the register allocator and the encoder: `moving` says which part a
behaviour is of, and the others rest in their initial states. Each is compared with what it
promises to the part behind it, for more inputs than the programs of a family would give it.

### RISCVEncoding

A word, an immediate and what a register holds are sets of bits of their true widths. One
step asks the back end for one instruction, which is encoded (or refused), given a
displacement when it names a label, and executed by a machine that decodes words by the
formats of the manuals. `t6` is the register for offsets that are too wide, and no request
names it.

### RegisterAllocator

`allocator` has its two maps and its free list; `holds` says whose value each machine
register has when the caller loads and moves what the answers say. The operations are
`allocate_register` in its cases, `free_register`, `invalidate`, `force_register_mapping`
and `handle_syscall_clobbering`; which of several values is spilled is a choice, since the
code takes the first of a hash map. The code generator of today only asks for the moves
around host calls.

## Runs

| run | question | bounds |
| --- | --- | --- |
| `calls` | Are levels, registers, machines and settings right, and is `NestedCalls` implemented? | 4 levels, 2 machines, 4 settings, throttle of 8 bits, one system call per activation |
| `calls_in_main` | Do levels and machines of calls stay right when `main()` reaches host code, and do calls end? | 3 levels, 2 machines, arguments refused at levels 1 and 2 |
| `references` | Do indices denote what was stored, are the host's arguments safe? Do handles, the allow list and references stay exact? | 3 levels, 2 values, up to 2 Variants per state; 3 addresses, a node, 2 RefCounted objects, 2 handles per call |
| `translations` | Is every thread joined once, do loads and the unload end? | 2 loaders, 3 threads |
| `parts` | Scripts: are registry, versions, function lists, shared Sandboxes, tree bases, signatures and counters right? Does a lookup find the current meaning, is what the host set kept over a reload, do arguments and results arrive? | see below |
| `optimizer` | Does the code mean what the source says, does every pass keep that, and does the verifier take the code after each? | 1,315 functions, integers of 3 bits, arguments 0, 2 and not a number |
| `compiler` | Is a program read as it was meant, however it is laid out? Does machine code do what the program means, call after call? Does each register hold its value, and each word do what was asked for? | see below |
| `refused_call_spoils` | violation of `GuestRunsOnItsRegisters` | arguments refused at level 2 |
| `licm_hoists` | violation of `HoistingInvariance` | functions with one loop |
| `profiler_goes_back` | violation of `RecordsGrowMonotonically` | one script, counters to 2 |
| `early_results` | violation of `ArgumentsArrive` | functions of up to 16 arguments write early |
| `li_overflows` | violation of `WordsDoWhatIsAsked` | the immediates whose upper half is rounded up to the sign |

Deadlock is checked in `calls`, `calls_in_main`, `references` and `translations`. In the
others the system may really stop: a compilation ends, a file is at its end, the bounded
versions and counters of a script are used up.

Why the bounds are enough for the interesting cases:

- *Calls.* Level 1 (not reentrant, all execution modes), level 2 (reentrant, called from a
  call that is not) and level 3 (reentrant from reentrant) differ; the fourth level is the
  refusal. Two machines let a program be replaced, and let the old one be in use.
- *Variants.* With two Variants per state the storage fills up in every call and in the
  permanent state; three levels give a caller, a nested call and the permanent state.
- *Objects.* Three addresses let two objects live and a third be created where one died.
- *Translations.* Three threads are a list with a middle element for a loader to reap.
- *ELF scripts.* Two Sandboxes are enough for the walk to go wrong, two paths for a Sandbox
  to move between scripts, a second script for one path to have two; one of two contents is
  no program.
- *Instances.* Two ordinary nodes and one that is a Sandbox, an ELF and a C++ script, two
  Sandboxes and two nested calls: instances of one script call each other, a node goes in
  its own call, the last instance goes and the next is made.
- *SafeGDScript.* Four sources: a function with an optional argument, the same at another
  place in the table, the same with a mandatory one, and an error. Two instances, two nested
  calls and counters to 2.
- *Lookups.* Two buffers in one slot evict each other; one public function is a full table.
- *Properties.* Two releases of a program with properties of every kind, one that changes its
  type, one declared twice, one whose name is taken and one too many for a limit of 2; and a
  file that is no program.
- *Arguments.* 0 to 17 of one kind (16 is the limit of unboxed, 7 the number of registers
  left for boxed ones) and 1 to 8 of every two kinds in turn; calls nested to two with
  lists that spill in either convention; callables with none, one and two bound arguments.
  `MaxEarly` is 7, since beyond it `early_results` finds the violation.
- *Front end* (`compiler`). About 2,700 programs in 3 styles: every binary, logical, unary and postfix form inside each other on either
  side, every two simple statements, blocks in blocks, every kind of declaration. Files of
  four lines are enough to open two blocks and close both, with blanks, tabs, comments, a
  bracket over lines and a continued line between.
- *Optimizer.* The functions are three assignments in a row, a loop around two statements
  (which may leave it, go round again, return or hide a variable), a loop in a loop, and
  every comparison and short circuit as a condition and as a value. With three bits
  arithmetic wraps around and the least integer can be divided by -1. 512 steps are more
  than any of these functions that ends needs. The argument 0 makes a loop run no round.
  The passes run all together, and the three that reach across instructions also alone, on
  code the others have not cleaned.
- *Back end* (`compiler`). 267 programs in families and about 900 calls of them, one family for each thing that is compiled in more than one
  way: every operator over known and unknown types, conversions, truth of every type,
  components of vectors in variables, fields, elements and globals, arrays and dictionaries
  that share, structs in structs, every pattern of `match`, calls with defaults and with
  more arguments than registers, recursion, globals of every type. Sixteen bits
  make overflow happen and hold every address; 40 instructions are few enough for branches
  to be turned round in the larger functions (the machine has 1024). The calls of a program
  are made one after the other, so that each finds what the others left.

- *Encoding* (`compiler`). Each format has its immediates 0, 1, the greatest and the least it takes and
  their neighbours; displacements likewise for branches and jumps. The registers are from
  either half of the file, the same as source and destination, and zero. The run leaves
  out the immediates of `li_overflows`.
- *Registers* (`compiler`). Four values, one more than the pool has registers, make spilling
  happen; host calls change one argument register or two. `a0` and a register of the pool
  are bound by force; with a second argument register bound so, the code does not keep the
  property (see below).

Symmetry is used for machines, values, addresses, ELF scripts, Sandboxes and nodes, which no
definition tells apart, and never in a run with a liveness property.

### Fairness

`SandboxCalls`: `time_out` is weakly fair at every depth, since the interpreter counts
instructions whenever it runs, and `syscall_returns` strongly fair, which says that the
host code behind a system call returns although it may call the guest again. Without the
second, the host could call the guest for ever; without the first, guest code could loop,
which it can when no limit is set: the liveness run has the settings that enforce one.

`BackgroundTranslation`: translations end, a thread that is in the middle of a load or of
the unload goes on. The mutex need not be fair because there are finitely many loads.

## Proofs

TLC checks the instances above; the theorems hold for all values of the constants that
satisfy the modules' assumptions.

`SandboxCalls_proofs`:

- `TypeCorrect`, `LevelsAreDisciplined`. Neither property is inductive alone: that the
  level goes back to that of the caller follows from the levels recorded along the whole
  stack. `Typed` joins the types, `LevelDiscipline` and who runs when the stack is empty;
  the steps that push and pop a frame are lemmas (`EnterTyped`, `LeaveTyped`).
- `SettingIsRestored`, for hosts that do not reconfigure a Sandbox from within a call
  (`~ReconfiguresInCalls`): the property speaks of the moments without a boxed call,
  `Remembered` of the lowest boxed call in the stack, which keeps what the host chose. Those
  above it keep only what calls had switched the setting to, so that restoring in order is
  what brings the host's choice back.
- `CallsKeepTheirMachine`, from `Typed`: below a level of 0 there is no call in the stack,
  so that the guard of loading (`LevelZero`) is enough for calls, though not for `main()`.
- `RegistersAreRestored`, `CodeKeepsItsMachine`, `ImplementsNestedCalls` are proved under
  `Embedded`: `main()` does not reach host code, and arguments are refused at level 1 only.
  The invariant `Stacked` adds that the stack has no `main()` under another frame, hence
  level and depth agree (`LevelIsDepth`), that each frame saved the registers of the frame
  below, and that the register file is that of the top. Both assumptions are needed: with
  `MainMayCallHost = TRUE` TLC finds `CodeRunsOnItsMachine` violated, and the run
  `refused_call_spoils` drops the other.

`GuestReferences_proofs`, of `ScopedVariants`, for any numbers of levels, references and values:

- `IndicesAlwaysMeanWhatWasStored`, `StorageAlwaysFits`, `HostArgumentsAreNeverWritten`, from
  `VariantsInv`, which says of each level's vectors that every slot points at a Variant of
  its own, that owned Variants and arguments of the host together are as many as slots
  (`WellPointed`), and that what a call holds is what its slots lead to (`Denotes`). It
  is preserved because no two slots share a Variant: a write through one is seen through no
  other, also when the slot of a copied argument is redirected (`Copied`, `Written`). They
  are proved for hosts that never raise `references_max` (`NeverRaised`) and programs
  that notice a full permanent store (`~KeepsOverflow`); without the first TLC finds the
  property violated (a 3 in `ReferencesMax`).

`GuestReferences_proofs`, of `ScopedObjects`:

- `TablesStayBounded`: type correctness with the limit of a call's table of objects. That no
  such table outgrows `references_max` needs the cardinalities of sets that grow by one entry
  where the guard counted them.
- `AllowListStaysExact`, from `SoundObjects`: every reference is to an
  object that is alive (`Counted`), an object is at one address, dead ids do not come back
  (`Engine`), and every entry of the list remembers the address its object has or had
  (`Listed`).
- `CountedHandlesAreKept`, `HandlesAreExact`, for hosts that free no node during a call
  (`~FreesInCalls`), from `Handed`: what was given is in the table of the call, with the
  right binding, and a reference is held if it is counted. With
  `FreesInCalls = TRUE` TLC finds `HandlesDenoteTheirObjects` violated.
- `RestrictionsLast`, an action property, for hosts that do not shorten the allow list
  during a call (`~RemovesInCalls`). With `RemovesInCalls = TRUE` TLC finds
  `RestrictionsAreNotLifted` violated.

`GuestFunctions_proofs`, first for any names, addresses, slots and Strings:

- `NamesAlwaysResolve`, `PublicFunctionsAreAlwaysFound`, from `LookupInv`: every entry of
  each cache is what its name means now, a published name is always in the first cache (so
  that no symbol of the program is taken for it), and a buffer an entry is found by is not
  used again, nor changed under it. Both need that names have hashes of their own
  (`HashesDiffer`: the code keys two caches by hash alone) and that nothing is looked up
  while `main()` publishes (`~LooksUpInMain`, without which TLC finds `NamesResolve`
  violated).

`GuestFunctions_proofs`, then for any lists of arguments, depth of nesting and frames, if no
function of more than seven arguments writes its result before it has read them
(`MaxEarly <= 7`; `early_results` is the counterexample without it):

- `ArgumentsAlwaysArrive`. The property says what a function finds; the invariant
  `ArgumentsInv` says where it is: each boxed argument at its `Address` with a pointer to it
  in its register or its word of the stack (`PlacedBoxed`), each unboxed one in the registers
  the ones before it leave (`PlacedUnboxed`), all of that between the stack pointer of the
  call and the frame of the one below (`EndsBelow`), and the array of a callable beginning
  with what was bound (`Bound`). A step then changes memory only below every call it must
  leave alone (`CallIsKept`), or in a result that is below the arguments of its call
  (`ArgumentsStandAbove`, which is where seven comes in). That host and guest agree on the
  registers needs `setup_arguments_native`, which puts the registers of the arguments one
  after another, and `Before`, by which the guest counts those before a parameter, to
  be related for lists of any length: both are unfolded to recursive functions, which exist
  because a loop of any number of rounds has a history (`LoopRuns`), and `TakenInTurn`
  goes along it by descent (`CountedUp`).

`BackgroundTranslation_proofs`:

- `ThreadsAreAlwaysOwnedOnce`, for any numbers of loads and threads, with it that nothing
  runs when all is unloaded. Both are one fact, that a live thread is one entry of the list or
  the thread object of one load (`Owned`); it is inductive with `Guarded`, that the loader
  in the list holds the mutex and looks at an entry there is. `RemoveAtProperties` says
  what erasing an entry leaves, and `OwnedAfterJoin` serves the reaping load and the
  unload alike.

`ScriptInstances_proofs`, for any numbers of nodes, scripts, Sandboxes and nested calls:

- `SandboxesAreCounted`: the count is inductive with `Placed`, that an instance runs on the
  Sandbox of its script or on a node that is one, and `Living`, that the Sandboxes of the
  scripts live and are different ones, so that giving one up takes it from no other script.
- `CallsAlwaysRunInTheirTree`: the property is about the innermost call only; `Trees` adds
  that each call remembers the tree base of the next one under it on the same Sandbox.
- `ProgramsAreAlwaysOwn`, if programs are associated between calls only: a Sandbox that is
  in a call refuses the program its script takes (with `AssociatesInCalls = TRUE` TLC finds
  `NoForeignProgram` violated).

`Programs_proofs`, first for any scripts, Sandboxes, paths and files, if scripts are saved in
their own place (`~SavesElsewhere`; TLC finds `RegistryIsExact` violated without it):

- `RegistryStaysExact`, `VersionsTellSources`, `FunctionsStayOfTheSource`. `Good` says of the
  record of scripts, Sandboxes and map that the set of a path holds each Sandbox that runs a
  script of it, once (`Registered`), that only live Sandboxes run, and only scripts there
  are (`Owned`), that no Sandbox is ahead of its script, and one that is up to date runs what
  the script holds (`Versioned`), and that a function list is none or of the bytes
  (`Published`). `Versioned` excepts the script that is being changed, until its new version
  is set. An operation that takes a Sandbox out of a set and puts it back keeps all this
  (`EraseTakesOut` says what erasing from the dense array leaves); a reload does so while
  it walks the set, and that any number of its rounds keeps `Good` is shown by descent:
  were there a round after which it fails, there would be a first one.

`Programs_proofs`, then for any programs, names and limits, if no accessor reaches host code
that sets properties (`~AccessorsSetProperties`; TLC finds the property violated without it):

- `PropertiesAreAlwaysKept`. While the getters are called, `WhileReading` says that the
  variables are those there were, and that the values read so far are theirs but for the
  properties an accessor failed for. While the setters are called, `WhileWriting` says
  that the values that are left stand in the order of the old properties that are left
  (`Aligned`), and that every property of the new program either has its turn to come or
  is `Settled`. A setter reaches no other property because names are listed once
  (`WellListed`), and an accessor reaches none because no property has the name of one
  of the Sandbox's own: `BuiltIn \subseteq Clashing`, for a name begins with itself. That
  loading lists names once, however many properties `main()` adds before it fails, is a
  claim about the loops of `added_by_main` and `read_program_properties`, shown by the
  same descent.

`SafeGDScripts_proofs`, for any scripts and sources, if nothing is compiled during a call of
it (`~CompilesInCalls`):

- `CallsBringAllArguments`, `CountersAreNamedRight`. The properties relate a call to a
  program and counters to a table; neither is kept by a step that replaces one of them.
  `TablesMatch` says that a program is only ever kept beside the table of its own source, at
  the script and in the Sandbox, and that a Sandbox without a program has no counters. It
  is preserved by a source that is wrong because that takes the program, not the table,
  away; with `CompilesInCalls = TRUE` the Sandbox refuses the new program and TLC finds
  `CallsAreComplete` violated.

`RegisterAllocator_proofs`, for any registers, values and code:

- `RegistersAlwaysHoldTheirValues`, if of the registers that one host call changes a caller
  binds values by itself to one at most (`OneBoundByForce`). The invariant `AllocatorInv` has
  that the two maps are inverse to each other (`Paired`), that no register is in the free
  list twice or while it is taken (`Apart`), and that every register of the pool is taken
  or free (`Complete`); all of it is about registers a value may ever get (`Usable`), and
  every mapped register holds its value (`Loaded`). Clearing the registers of a host call
  goes through its list: `Cleared` says after each round that what came before is not mapped,
  and that at most one move was asked for, after which nothing of the list is mapped, so
  that a move never overwrites the source of another. `CountUp` carries it over the rounds. The assumption is needed: a register
  bound by force that is released goes to the free list, and with two of them the first
  round may move its value to the register the next one clears (TLC finds the property
  violated with `a1` in `Forceable`).

Only model-checked:

- liveness (`ActivationsEnd`, `LoadsAndUnloadEnd`), which needs fairness and ENABLED;
- the compiler: what code or a program means is defined by recursion on its length or its
  tree, with RECURSIVE operators, and what holds of all programs needs induction on them.
  This includes the verifier, the encodings and what the front end makes of a file.

## Where the code disagrees with its documentation

With a run of their own, which gives the counterexample:

- A nested call that is refused because of its arguments has written registers already and
  does not restore them (`refused_call_spoils`; `sandbox.cpp:1068`).
- With more than seven boxed arguments the result is given the place of one of them: a
  function that writes its result before it has read that argument loses it
  (`early_results`; `sandbox.cpp:915`, `:930`).
- Loop-invariant code motion moves a load out of a loop that may run no round although its
  register is read afterwards (`licm_hoists`; `ir_optimizer.cpp:1720`): of `var x = 5`,
  `while n > 0: x = 2; n = n - 1`, `return x`, the result is 2 when `n` is 0.
- The records of the profiler do not grow monotonically, as a comment says: the last
  instance of a script takes them away and the snapshots stay
  (`profiler_goes_back`; `profiling_safegdscript.cpp:31`, `:117`).
- Immediates from 2147481600 to 2147483647 are made of an upper half that a machine of 64
  bits extends with its sign: `return 2147483647` returns -2147483649
  (`li_overflows`; `riscv_codegen.cpp:2265`).

Without one, but found by changing the constants or the functions of a run:

- The register allocator may move a live value into a register that the same host call
  changes, once two argument registers were bound by force and released (`compiler` with
  `a1` in `Forceable`; `register_allocator.cpp:114`, though `register_allocator.h:34` says
  "Move live values out of clobbered_regs"). No caller binds by force today.
- Raising `references_max` moves the permanent Variants; their indices are left pointing to
  freed storage (`sandbox.cpp:1811`; `references` with a 3 in `ReferencesMax`).
- Redundant-store elimination holds a copy back until it is read, past a later operation
  that writes what it copies (`ir_optimizer.cpp:1574`): `var t = a`, `a = b + c`, `return t`
  returns `b + c` (`PassesKeepMeaning` without `CopiesAreReadInTime`).
- Loading is refused during a call, but `main()` is not a call: host code that `main()`
  reached can replace the machine `main()` runs on (`sandbox.cpp:433` and the comment
  above it; `calls` with `MainMayCallHost = TRUE`).
- A table entry is looked up by address alone: a RefCounted at the address of a node that
  was freed in the same call gets no reference (`sandbox.cpp:1439`, `sandbox.h:67`;
  `references` with `FreesInCalls = TRUE`).
- `clear_allowed_objects` is refused during a call because it lifts restrictions
  (`sandbox_restrictions.cpp:79`); `remove_allowed_object` can do the same and is not
  (`:74`; `references` with `RemovesInCalls = TRUE`).
- A script compiled during one of its calls has new tables, but its Sandbox refuses the new
  program: later calls are completed for functions that do not run
  (`script_instance_safegdscript.cpp:73`; `parts` with `CompilesInCalls = TRUE`).
- What host code sets while `set_program` reads the properties of the old program is lost
  (`sandbox.cpp:448`; `parts` with `AccessorsSetProperties = TRUE`).
- Loop-invariant code motion takes a loop to end at the label of the first branch in it
  (`ir_optimizer.cpp:1613`). When constant folding has removed the condition of a
  `while true`, that is the end of an `if` inside the loop, and what is written behind it
  is missed.
- The peephole pass turns a branch around a comparison into the opposite comparison
  (`ir_optimizer.cpp:944`), which is not its opposite when an operand is not a number.

Seen while modelling, in the model as the code has it unless said otherwise, and not stated
as properties.

*Calls and properties.*

- With the sampling profiler on, the limit of a call at level 1 is only the sampling
  interval, and the call goes on.
- The throttle is eight bits wide and wraps after 32 failures in a row.
- `unboxed_arguments` is switched off for nested plain calls of a `vmcallv`, too.
- When permanent storage is full the guest is given an index of the call instead
  (`KeepsOverflow` says whether it keeps it).
- A refused `set_max_refs` has changed `m_max_refs` already.
- `load` writes adopted functions to one of three caches; a miss that host code reached
  from `main()` left in another stays (`LooksUpInMain`).
- `add_property` caches the setter under the getter's name and the other way round
  (`sandbox.cpp:1540`).
- A comment says that a property without a setter is read-only (`sandbox_syscalls.cpp:2757`);
  `add_property` refuses it (`sandbox.cpp:1517`).
- A program that is refused loses the values of the properties of the one it was to replace.
- A direct property that is set during a call holds an index of that call afterwards.
- Unboxed arguments are counted after registers were written; a callable with more than
  eight bound arguments writes past its array (not modelled).

*Scripts.*

- A reload of a script with several Sandboxes gives the program to one of them twice and
  leaves another out; saving a script whose file changed reaches none. In both cases the
  machine's view of the program is of bytes the script has freed.
- A script saved under another path leaves its Sandboxes registered under the old one
  (`SavesElsewhere`).
- An instance made during a call of the same Sandbox moves the tree base of that call. A
  shared Sandbox keeps the base of an instance that is gone.
- A second instance of a C++ script may find the program beside it, but the Sandbox both
  share, which exists already, is not given it; a program associated during a call is
  refused by the Sandbox and kept by the script. The last instance takes the association
  with it.
- An ELF instance on a node that is a Sandbox sets properties in the shared Sandbox and runs
  its calls in its own, if the script has a shared one (`script_instance.cpp:612`).
- A SafeGDScript whose source becomes wrong has no program but its old tables
  (`script_safegdscript.cpp:379`); turning profiling off and on then counts under the wrong
  names.

*Compiler.*

- Constant folding leaves unreached blocks "for eliminate_unreachable_code()", says its
  comment, but folds them, each from nothing known. The rounds of dead-code elimination are
  bounded by the length of the code, which shrinks meanwhile.
- Two globals assigned to one another share one Variant of the host
  (`riscv_codegen.cpp:1737`, `sandbox.cpp:1389`). An untyped global that is given a value
  of another type does not take it, and one whose initialiser is computed at load is not
  converted to its type.
- Arguments of a call within the program are not converted to the declared types of the
  parameters (`codegen.cpp:2235`), and the slot of a result is not initialised.
- A pattern of `match` of another type than the value is compared by the engine, which
  may have no such comparison.
- `INT` division by zero gives -1 natively and an error in the host; shifts by negative
  numbers differ likewise. The sources of the runs avoid these, where `GDScriptSemantics`
  gives no meaning.
- A function called like a label that the compiler makes (`else_0`) and that label are one
  entry of `m_labels`, and the later of the two wins (`riscv_codegen.cpp:224`, `:2652`; not in
  the model).
- `-Vector2(1, 2)` is null; `var x: int = null` is accepted, a global `var x: int = true` is
  not; `@export var x = null` fails at load.
- A file with CR LF has blank lines the lexer does not take for blank when they are inside a
  function (`lexer.cpp:257`). `return;` and a last line without its end are refused.
  `{x: 1}` has the key `"x"`, and `-a ** b` is `(-a) ** b`.

## Not modelled

- Contents of Variants and the effect of each engine function, but where compiled programs
  use them; guest memory and the allocator.
- Text generation, downloads, Docker, settings, the debugging aids and resumable startup,
  the editor's questions to language objects. They hold no state others rely on.
- The table of hotspots: two mutexes guard it, and all a reader can see is an entry more or
  less.
- Callables that outlive their Sandbox, where the code has no defined outcome.
- Code generator: class tests and casts, nodes, resources and `self`, Color and packed
  arrays, most functions of the global scope. Back end: the layout of the ELF file, the
  constant pool, instrumentation for profiling.
- `RISCVEncoding` takes one instruction at a time; that a frame is not too large for a
  host call, and which registers an instruction names, are part of `RISCVCodegen`.
- Optimizer and back end are not composed: `IROptimizer` says that passes keep the meaning
  of integer code, `GDScriptCompiler` that code as generated is compiled right.
- Libriscv is taken as the sources use it. Each component's reason is in `PROJECT.json`.

## Plan

In order:

1. The optimizer between code generator and back end, over the programs of `compiler`: its
   passes over instructions of containers, strings and vectors.
2. Abstract specifications: a Sandbox's names as a function from names to addresses
   (`FunctionLookup` implements it), and a counted owner for `ScriptInstances`.
3. The remaining expressions of the compiler; resumable startup.
