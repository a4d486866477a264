# HelionACS: specification, model checking and proofs

HelionACS runs ACS scripts (the scripting language of Hexen and its
descendants) for a Doom engine. It is a C++ virtual machine, ACSVM
(`src/src/cxx/ACSVM/ACSVM`), a C interface over it that adds the notion of a
current hub and map (`src/src/cxx/HelionACS.cpp`), and a C# wrapper
(`src/src/cs`). This directory holds TLA+ specifications of the machine,
configurations that TLC checks on small instances, and theorems that TLAPS
proves for every value of the constants.

`PROJECT.json` lists every component, run, mutant, mapped definition, hazard
and theorem; this file explains them. Paths below are relative to
`src/src/cxx/ACSVM/ACSVM` unless they start with `src/`.

## 1. Inventory

There is one C++ thread. The host (the game) makes calls between tics and one
call `Exec` per tic; scripts call back into the same operations, and native
functions of the host are called by scripts. What interleaves is host calls,
the instructions of scripts, and scripts executed inside an instruction of
another script.

| Component | State | Operations | Hard because |
|---|---|---|---|
| Map scheduler (`Scope.cpp` MapScope, `Environment.cpp` pool) | active and free list of threads, one registered thread per script, deferred actions | scriptStart, -Forced, -Result, -Type, scriptStop, scriptPause, exec, reset | the thread loop runs over a list that the threads it executes change; thread objects are recycled; executions nest; a stack underflow unwinds everything |
| Thread execution (`Thread.cpp`, `ThreadExec.cpp`) | state, delay, wait data, stacks, locals | exec, start, stop, control instructions | a script may stop, pause or restart itself or its callers |
| Scopes and deferral (`Environment.cpp`, `Scope.cpp`, `src/src/cxx/HelionACS.cpp`) | tree global / hub / map, active flags, action lists, registers, current hub and map | LoadHubMap, deferAction, exec, reset, saveState, loadState | an action crosses three lists over several tics while the game travels, saves and loads |
| Serialization (`Serial*.cpp`, `MemorySerial.hpp`, `Array.cpp`, the saveState and loadState of all) | a byte stream | write and read in the same order | zeros are trimmed, numbers have variable length, buffers are too small |
| Function table (`Environment.cpp`) | name to index map, index to function vector | getFunction, freeFunction, saveFunctions, loadFunctions | words of scripts are indexes, and must mean the same after reloads and loads |
| String table (`String.cpp`, `Environment.cpp`) | strings by index and by content, lock counts | intern, collect, lock, save, load | indexes are recycled, modules and actions hold pointers, a load replaces the table under them |
| Thread storage (`Store.hpp`, `Stack.hpp`) | frames of locals, data and call stack | alloc, free, push, drop, reserve | frames nest and are reallocated |
| Containers (`List.hpp`, `HashMap.hpp`, `HashMapFixed.hpp`, `Vector.hpp`) | links, buckets | insert, find, unlink, iterate | intrusive: an object is in one list only |
| Print buffer (`PrintBuf.cpp`) | one buffer, nested segments | push, drop, put, reserve | segments save their start in the buffer itself |
| Bytecode loading (`Module*.cpp`, `Tracer.cpp`, `Jump.cpp`, `Init.cpp`) | modules, code, jump maps | readBytecode, chunk readers, trace, translate, reset | an import fails while its importer is half read; sizes are counted in one pass and used in another; code is found by reachability |
| Module imports (`Scope.cpp` addModules, ModuleScope) | module scopes, imported variables | addModules, import | import graphs, first match wins |
| Instruction set (`CodeList.hpp`, `CallFunc.cpp`, `CodeData.cpp`) | - | arithmetic, built-in functions | 32 bit wrap, fixed point |
| C# wrapper (`src/src/cs`) | handles, a static buffer | one call each | marshalling only |
| Demo programs, tests, float helpers | - | - | not part of the library |

What makes the components correct, and what can go wrong where, is listed as
`hazards` in `PROJECT.json`, with the properties that would catch it.

## 2. Modules

| Module | What it is |
|---|---|
| `ListLinks` | intrusive lists of `List.hpp` as sequences |
| `ScriptThreads` | one map: scheduler, thread pool and thread execution |
| `ScriptInstances` | abstract: what a map promises about instances of scripts |
| `ScriptThreadsLive` | `ScriptThreads` with fairness, and its liveness properties |
| `HubScopes` | the tree of scopes, travel, deferred actions, variables, saves |
| `HubJourney` | abstract: what the scopes promise to a game |
| `MapModules` | one map: its modules, their variables and imports, through saves and loads |
| `StringTable` | the string table as operators on a record: intern, collect, lock, save, load |
| `ModuleChunks` | reading the file of a module, chunk by chunk, as operators on an environment |
| `ModuleLoading` | getModule with imports that fail, and what strings and functions mean through collections, saves and loads |
| `Tracer` | finding and translating the code of a module |
| `PrintTexts` | abstract: what the print buffer promises to instructions that print |
| `PrintBuffer` | the print buffer and all that writes to it |
| `TextFunctions` | what functions for strings and for texts in arrays compute, against what they mean |
| `CallFrames` | abstract: what a thread promises its bytecode about calls |
| `ThreadMachine` | a thread inside: calls, jumps, locals, stacks, start and stop, save and load |
| `WordOps` | the operators on words, against what they mean as numbers |
| `SavedArrays` | an array, its section in a save, and the buffer it is saved to, against a finite map |
| `ListLinksProof` | lemmas about sequences, least numbers and recursive functions |
| `Folding` | induction along a fold, for every operator that is folded with |
| `ScriptThreadsProof`, `HubScopesProof`, `MapModulesProof`, `ThreadMachineProof`, `PrintBufferProof`, `ModuleLoadingProof` | theorems and proofs about the module of that name |
| `MC...` | constants, symmetry and constraints of the runs |

A definition whose comment starts with "Mutant:" is never used by a
specification. It is a plausible mistake in the definition that follows it;
`PROJECT.json` pairs it with the property that catches it.

### ScriptThreads

One `MapScope` with its threads. `threadActive` and `threadFree` are the two
lists a `Thread` can be in, in list order; `scriptThread` is the registry of
`MapScope::PrivData`; `script`, `state`, `data`, `delay` and `info` are members
of the thread objects, which are recycled. Control is explicit: `execStk` is
the stack of C++ activations of `Thread::exec`, `itr` the iterator of the
thread loop of `MapScope::exec`, and `pc` the place in the code.

* An instruction that only computes is not a step. At `pc = "run"` the bytecode
  may do any of the operations: the actions `CallStart` ... `CallStartResult`
  are taken by the host (`pc = "host"`) and by the executing script alike, which
  is what the C functions and the built-in functions have in common.
* `ScrDelay`, `ScrHalt`, `ScrWait`, `TagWait`, `Kill` and `Terminate` are the
  instructions after which `Thread::exec` looks at the state again
  (`exec_intr`) or ends.
* `CallStartResult` pushes an activation; `ReturnToCaller` pops it.
* `Underflow` is the `StackUnderflowException` of `Stack.hpp`, caught by
  `Executor::Exec`: all activations go and the rest of the tic is skipped.
* `BeginTic` delivers an arbitrary batch of deferred actions, as `HubScopes`
  does in detail.
* `scriptStartType` is a series of `CallStart` steps, `checkTag` a choice.

### ScriptInstances

Instances of scripts with a mode (ready, paused, stopped), at most one current
instance per script, and the set of instances in the middle of an execution.
`ImplementsInstances` is the refinement: lists, iterator, nested activations
and thread recycling disappear. What the scheduler does to an instance that is
not executing is then exactly start, resume, pause, stop and end.

### HubScopes

`current` is the pair currentHubScope, currentMapScope (in `Executor` both are
null or neither is). The four action lists are variables of their own; the
delegation loops take one step per list element, at position `pos`, and relink
the action to the next list if its scope is active. The loops over hubs and
maps take them in any order, as the hash maps do. A map is its registers and
whether it has modules. `saved` is the last save; `Restart` is a new process or
a new `Executor`, at any point.

### HubJourney

The game is somewhere, has one set of global variables, one of hub variables,
one of map variables per visited map of the hub, and a mailbox per map. The last
save is a set of one copy of all that, or of none. The mailbox of a map is what
the map holds, then what waits for it in its hub, in the global scope and in the
environment.
`ImplementsJourney` checks that the tree gives exactly this. Two facts about
the code became part of the promise and are worth knowing:

* an action for a map of a hub that is left (hub 0 is left by every
  LoadHubMap) is lost if a tic has handed it to the hub, and kept if not:
  `HubJourney` says that a suffix of the mailbox survives;
* a mailbox survives that its hub is left: an action that was never handed down
  is applied at the next visit.

### MapModules

`addModules` finds modules by recursion; `work` is that recursion as a list of
the calls of `add` that are still to be made, in their order, so one step is one
call and a long or cyclic import graph is visible as steps. `code` holds what
the modules contain (imports, initial values, exported and imported names) and
does not change. A module scope is its registers and arrays (`val`) and, for
each, the one the scope refers to (`bind`: `regV` and `arrV`), which an import
makes another module's. `SavedVars` is the trimming of `SaveRegV` and
`SaveArrV`, `LoadedVars` what a load leaves.

An array has one element, or no data: `Array::empty` tells an array that was
touched from one that was not, and that, rather than its size, decides what is
saved. Saves of the format before `Signature` had versions, which have no names
of modules, are left out. So are the scripts of the map: `ScriptThreads` has
them.

### StringTable, ModuleChunks and ModuleLoading

A file is a sequence of chunks with their entries, whether each is well formed,
and whether the file is cut or has code that cannot be translated. `ModuleChunks`
has one operator per chunk reader; `Pass` applies one to the chunks of its name
as `chunkIterACSE` does, `Passes` is the order of `readChunksACSE`. They take
and give an environment: the string table, the functions and the modules.

`ModuleLoading` makes a machine of it. `stack` is the recursion of `getModule`
through the LOAD chunks of files that are being read; `ImportNew` pushes,
`Returned` goes on in the importer, and `Unwind` is the exception that resets
each module on its way (`Module::readBytecode`). Scripts hold strings and
functions as words in `memory`; the history variable `means` remembers what each
word was given as. Strings are collected, locked by the host, saved and loaded,
also by a new process (`Restart`) and with other modules loaded before, and a
file may be another one at every reading.

Pointers to strings are modelled by the string: as long as the table has the
string, the pointer is right, and `NothingDangles` says that it has. A load
that fails leaves a deferred action without its name; the program is undefined
then and the model stops collecting and saving.

A module that imports itself gets itself. Longer cycles are left out of all
inputs: a module counts as loaded only after its imports, and `getModule` reads
again what is not loaded, so the recursion would not end
(`Environment.cpp:459`); it is listed as a hazard.

### Tracer

`trace` and `translate` over a file of bytes, with the tables of ops as
parameters: an op of `OpData` stands for all that the two treat alike. One step
is one turn of a loop. `stack` is the recursion of `trace` into the targets of
jumps; `found` is codeFound. `translate` writes `code`, which the properties
decode again: `CodeDecodes` says that code is whole instructions, `FlowKept`
that they go where the file goes, `Verdict` what is rejected and what is not.

Numbers of a file are read as `uint_fast32_t`, which has 32 bits in the builds
for Windows and for macOS on ARM and 64 in the one for Linux
(`src/.github/workflows/build-test-pack.yml:52-68`); `fastBase`, part of the
input, is the number of its values. Only the size of a table of cases depends on
it (`TableSize`): where it wraps, `trace` takes the table for one that is in the
file and goes on to read its cases. What is behind the end of the file is not
defined, so the model ends there (`TraceOutside`, phase "outside"). A comment of
`trace` says "If this op goes out of bounds, bytecode is malformed."
(`Tracer.cpp:227`); `Verdict` says that it is, but for such a table.

### PrintBuffer, PrintTexts and TextFunctions

The bytes up to bufPtr, the size of the block and bufBeg. Marks of nested texts
are bytes of the same block. `overrun` tells whether the last step wrote behind
the block's end. `Refused` passes what `reserve` passes: its check of the push
limit subtracts unsigned numbers, and a block larger than the limit wraps
(PrintBuf.cpp:131). The refinement to `PrintTexts` reads the
marks and finds the stack of texts.

`TextFunctions` has no state: the functions of `CallFunc.cpp` on strings, the
copies of strings into arrays, and `printArray`, each with the comparison that
its loop ends by, as lengths and places are words that wrap. `FunctionsRight`
says that parts of a string fit together, that a comparison is an order on a
prefix, that a copy stays in its part of the array and is printed as it was
copied, and that `PrintArrayUTF8` writes as many bytes as it counts. The limit of
`StrCmp` is counted down behind the comparison (CallFunc.cpp:65): a limit of n
compares n + 1 chars, and the property says so. `MCPrintBuffer` extends both
modules, and checks the functions in the states in which nothing is printed.

### ThreadMachine, CallFrames, WordOps and SavedArrays

`ThreadMachine` is the machine that `ScriptThreads` leaves out: its code is
arbitrary, so every state may execute every instruction, also one that drops more
than there is: the exception leaves codePtr behind the instruction, or at its
operand if that is read after the drop (`UnderflowAtOperand`). Left out is what
C++ does not define: a local that there is not, and reading the data stack below
its bottom. Locals of all activations are in one block
with one boundary, as in `Store.hpp`; `CallFrames` has a record per activation,
and the refinement cuts the block by the sizes in the call frames. A call with
too few arguments throws after it has pushed the frame; the next tic begins the
function, and the caller's locals must still be found. `Reload` writes the
thread as a sequence of numbers and reads them again. `FramesKept` is the
refinement together with `SavesRestore`: what a load reads from what the thread
would write is its place, frames, stack and locals. The other members that a save
has (ids of scopes, delay, result, print buffer, state) are not in the model, but
for the print buffer, whose load is in `PrintBuffer`.

`WordOps` and `SavedArrays` are functions, not machines. They are evaluated for
all words and for all sets of accessed words together with `ThreadMachine`, whose
words and arrays they refine: `ThreadMachine` takes a few operators, and one
word for an array.

### How the modules meet

`ScriptThreads` runs below the `MapScope` that `HubScopes` executes (`BeginTic`
against `BeginScripts`), and `HubScopes` keeps of the modules that `MapModules`
adds only that there are some (`AddsModules`). `ModuleLoading` gives what
`MapModules` has as `code`; the entry points in it come from `Tracer`.
`ThreadMachine` is the step "run" of `ScriptThreads`. Each of them has the state
that the other one abstracts, and no variable is in two.

## 3. Runs

| Run | Question | Bounds |
|---|---|---|
| `safety` | are pool, registry, delays and the thread loop consistent in every interleaving, and does the scheduler implement `ScriptInstances` | 3 thread objects, 2 scripts, delay 1, one activator, one deferred action per tic |
| `live` | is every thread served, and does everything that waits end | 2 threads, 2 scripts, delay up to 2, 2 starts per tic |
| `selfstop` | is "will go inactive on next exec" true of a stopped thread | as `safety`, no activator |
| `journey` | do deferred actions arrive in order, once, and only where the game is; do variables live as long as their scopes, through saves and restarts | 3 hubs, 2 maps each, 2 kinds of action, 3 pending, values 0 and 1 |
| `delivery` | is an action for the current map applied | 2 hubs, 2 maps, 1 pending |
| `modules` | does `addModules` end, find the imports, all and in an order that a load repeats; what does a load restore | 3 modules, all loadable graphs with up to 2 imports each and 4 in all, up to 2 modules given, all initial values of 2 registers and 2 arrays of one module |
| `registers_lost` | does a load restore the state | 1 module, 2 registers |
| `loading` | do words keep their meaning, does nothing dangle, is a failed module blank, is a loaded one what its file says | 2 modules with 2 and 3 files, every chunk, 1 word of memory, 1 save, 5 indexes |
| `tracer` | does translated code fit, decode and go where the file goes, and does tracing end | all files of 4 to 6 bytes in 4 tables of ops, one of them in both formats, one with both widths of `uint_fast32_t` |
| `printing` | is everything written inside the block, and every text continued where it was left; do strings taken apart, compared and copied give what is meant | blocks up to 8 bytes, marks of 2 bytes of 3 values; words of 4 bits, 8 chars, strings up to 4 chars, code points at each side of the bounds of UTF-8 |
| `host_print` | the same, with a host that counts UTF-16 units | one text of 1 unit and 3 bytes |
| `machine` | does every activation keep its locals, module and place; are operators right; do arrays come back | 2 modules, 2 functions, depth 2, 2 words of data; words of 4 bits; arrays of 24 words in 8 pages, 6 words accessed with 3 values, up to 3 on a page |

Why the bounds are enough. Three thread objects are the least with a thread
before, at and behind the iterator, or an outer activation, an inner one and a
bystander; two scripts give one that acts on the other and on itself. A delay
of 2 is the least that is not over at the next tic, and is in `live`. Three hubs
are the lone one, the one the game is in and the one it goes to; three pending
actions are two for one map with one for another between them. Runs for safety
use symmetry in threads, scripts, hubs other than 0, maps and actions, runs for
liveness none. `journey` has actions or variables, not both at once
(`ValuesOrActions`), as no step reads both, and few actions behind a save
(`FewAfterSave`). With three modules a graph has a diamond, a shared import, and
a module that is given after it was found. Two variables of a kind are a blank
one before and one behind the other.

Two modules are an importer and its import; the files of the import are a good
one, one of an unknown kind and one that fails after its functions were made.
One word of memory and one that the host put aside are enough for an index
that is given to another string while it is held; more saves than one begin in
states that a restart and a load give anyway. Files of the tracer are all
sequences of bytes of that length, so they have every overlap of two ops, every
jump into, between and behind ops, and every cut argument. Marks of two bytes
of three values and blocks of eight bytes are at the limit where a length no
longer fits the mark. Four bits have every pair of signs and the overflow of
every operator. Pages of 3 words, 2 pages per segment, 2 segments per bank and 2
banks have every kind of hole: the words accessed are all of the first page, one
of the second, of the fourth behind a page that is not there, and of the last
one behind a segment that is not there, so runs are of one to three words, begin anywhere on
a page and have zeros inside; values up to 6 have numbers of two bytes.

Deadlock is checked where the host can always call: `safety`, `live`, `journey`,
`delivery`, `modules` and `loading`. It is not in `tracer` (translation ends),
and in `printing` and `machine`, whose bounds stop them.

Three runs show a disagreement of the code with its text.

* `selfstop`: `Thread.hpp:53` says of `Stopped` "Will go inactive on next exec."
  A script that stops itself goes on, and if it then halts or waits the state is
  overwritten: the thread stays in the active list for ever, paused, and no call
  reaches it.
* `registers_lost`: by `doc/ACSVM.txt:508` loadState "Restores the environment
  state from a previously serialized instance." A save leaves out the zeros
  behind the last register that is not 0, and a load writes only what was saved,
  over the initial values of the module. So a register with an initial value that
  a script set to 0 has its initial value again after a load. `VariablesRestored`
  says what is restored: an array that is set to 0 is saved the first time, since
  it has data; the load gives it none, and only the second save leaves it out.
* `host_print`: the wrapper gives the number of UTF-16 units, the C interface
  reserves that many bytes, and `put`, which "Does not reserve space"
  (`PrintBuf.hpp:57`), writes the bytes of UTF-8.

Other things that a reader of the models will notice have no run of their own:
slot 0 of the function table, reserved in the constructor
(`Environment.cpp:68`), is taken after a load by a function the save does not
know; the arguments of an op of the host are read when a module is loaded,
through a pointer that was pinned for the call that gave it; the C interface
cannot drop a text that was printed; a nested text may pass the limit of its
mark, as the check is of unsigned numbers that have wrapped; a table of cases
whose size wraps is taken for one that is in the file (`Tracer.cpp:77`); the
size that a failed save into a buffer gives ends at the first write that did not
fit. They are listed under `hazards`.

## 4. Fairness

`live` and `delivery` assume that the host keeps calling `Exec` (weak fairness
of `BeginTic`) and that the machine takes its next step (weak fairness of the
steps of the loops). `live` also assumes that a script does not execute for
ever without leaving `Thread::exec` (strong fairness of `Leave`), that no stack
underflows, and that calls and scripts start at most `MaxStarts` threads per
tic. The code does not enforce these: `branchLimit`, which could bound an
execution, is 0 in HelionACS, and an underflow skips the threads behind it. The
properties say what holds for scripts that behave.

`modules` and `tracer` assume only that the C++ code runs on: weak fairness of
the steps of `addModules` and of the load, and of the steps of `trace` and
`translate`.

## 5. Proofs

Every theorem holds for all values of the constants that satisfy the named
assumptions of the module; hypotheses beyond them are given below, there are two.

**`ListLinksProof`** holds what the other proofs share: what `Unlink`,
`Append`, `NextOf` and `Front` do to membership and to injectivity, parts of
sequences, and induction. The induction theorems of the library take an
operator, which the provers cannot instantiate; `LeastOf` and `UpTo` say the
same of sets of numbers (`{i \in 0 .. n : ...}`), and `RecursionTo` gives the
function that a recursive definition over `0 .. n` means. What follows about
recursive functions rests on these three.

**`Folding`** is the induction that folds need. A theorem cannot be given an
operator, but a module can: `Op` and `Good` are constants of it, a proof takes
an instance with its step and what it says of the first i elements, and the
lemma `FoldKeeps` (`ChainKeeps` for a recursive function) is cited of that fold.
`Folded` and `Chain` repeat what the library's fold and the choice of elements
in `StringTable` are made of, so each use begins with a lemma that the operator
of the model is that one (`InternAllFolds`, ...).

**`ScriptThreadsProof`**, for any number of threads, scripts and activators and any
delays. Type correctness, `PoolInv`, `NoStaleRegistration`, `PoolClean`,
`ActiveIsLive`, `NoDelayedRun`, `StopIsFinal` and `RegistrationEndsFirst` follow
from `IInv`, their conjunction with `ControlInv` (activations exist exactly at
the places inside `Thread::exec`, the iterator is null outside the thread loop,
and a thread is not inactive when `exec_intr` is reached). None of the parts is
inductive alone: that a freed thread has no registration left needs
`NoStaleRegistration`, which needs `PoolInv` to know that only the executing
thread can go inactive, which needs `ControlInv`. There is one lemma per action
or group of actions that change the same variables.

* `EachServedOnce` (`ServedOnce`) adds `LoopInv`: in a tic exactly the threads
  before the iterator are served. The iterator is a place in a list that the
  executed thread changes in front of it, at it and behind it, and the lemmas
  `UnlinkBehind` and `IndexIsPosition` say how places move.
* `SchedulerImplements` (`ImplementsInstances`): one lemma per action says which
  step of `ScriptInstances` it is. The lists, the iterator and the recycling of
  threads are not in the abstract state; `IInv` gives that a thread that is
  started has no instance, and that an instance that ends was not the current one
  of another script.

**`HubScopesProof`** proves type correctness, `ScopesFollowGame` and `Routed` for
any sets of hubs, maps and actions. The strengthening says where the loops are:
while a tic is below the environment, the hub being executed is the current
one; scopes still due are active; and a map that has actions when the loop over
the maps is reached is still due.

`TreeImplements` (`ImplementsJourney`) is the refinement, for any hubs, maps,
actions and bounds.

* `PassedInv` is the second invariant: what a delegation loop has passed over is
  for a scope that is not active, and the loop is at the first place of its list
  otherwise. So an action that goes down is the first one for its map in the list
  that it leaves (`FirstFor`), and joins what is ahead of it already: the mailbox
  does not change. Without it the action could overtake one that was passed over.
* `For`, the actions of a list for one map, is a recursive function; the lemmas
  say what it makes of two lists (`ForConcat`), of one without its k-th action
  (`ForRemove`) and with one more at the end (`ForAppend`). `MovesDown` and
  `HandedDown` put them together for a step of a loop.
* One lemma per action says which step of `HubJourney` it is. LoadHubMap is
  Travel if the game stays in its hub and Enter if not, where what is left of
  the mailboxes is the part of the concatenation that had not reached the hub.

**`MapModulesProof`** proves type correctness, `AllReached`, `BoundInside`,
`VariablesRestored` and `LoadKeepsModules` for any modules, import graphs, names,
values and numbers of variables. `AllReached` follows from `SearchInv`, the
invariant of a graph search: what was found is reachable and without duplicates,
and the modules found and those on the list together cover the given ones and
all imports of modules found; with an empty list the found set is closed and so
is all that is reachable. `BoundInside` needs `AllReached`: what a module imports
directly has a scope. `VariablesRestored` needs `SaveInv` (a save is what
`SavedVars` makes of the scopes at the time, and is closed under imports, so that
a load finds no module that was not saved) and `RestoreInv` (a load comes to the
initial values of the saved modules).

* `LoadFindsModules` (`LoadKeepsModules`): a load gives `addModules` all modules
  of the save as roots, in the order in which a search from fewer roots had found
  them, and finds them in that order again. `OrderInv` says of a search: if a found
  module imports x ahead of y, neither of them is found, and no module found later
  imports y, then x is ahead of y among the calls that are still to be made. So a
  finished list is `Preordered`: each module is there before a later one because
  some module before both of them says so, or because no module before it imports
  the later one; a search that takes the list as its roots then cannot
  find one of them early. `KeepInv` carries this through saves and loads.

**`ThreadMachineProof`**, for any code, any depth of calls
and any numbers of locals. `MachineInv` says that the block of locals is as long
as the frames of the call stack say, that the boundary of the innermost
activation is where they say, and that a thread that is not running leaves
nothing. The operators of `Store.hpp` on the block are proved first: alloc and
free, and that a write to an innermost local leaves the words of other
activations.

* `MachineImplements` (`FramesKept`): one lemma per instruction says which step
  of `CallFrames` it is, a call being a new record and a return the removal of
  one. The hard ones are a call that throws after its frame was pushed, and the
  end of a script or of a function, which give back what two different frames say.
* `SaveRestoresThread`: what `saveState` writes, `loadState` reads back, part by
  part, for the parts that the model has; the sizes that are written in front of
  each part tell where it ends.

**`PrintBufferProof`**, for bytes and marks of any size, any texts and any depth.
The inductive invariant is `BlockInv` (the text and its NUL are inside the block,
and a script that opened a text has a block) with `StackInv` (there is a
sequence of beginnings, from 0 to bufBeg, each with a mark in front that leads to
the one before).

* `MarkIsRead`: `ReadLE4` gives the number that `WriteLE4` was given, up to
  UINT32_MAX. What is behind a mark never changes it (`AroundSame`,
  `LinkedSame`); push extends the sequence of beginnings and drop shortens it
  (`LinkedPush`, `LinkedDrop`), and `BeginsOfLinked` says that the sequence is the
  one that reading back from bufBeg finds, so there is only one.
* `WritersReserve` (`WritesInside`) and `BufferImplements` (`TextsKept`) have two
  hypotheses. `HostReserves`: a host gives the number of bytes that it appends;
  without it the run `host_print` is a counterexample. `MaxSize <= Limit`: no
  block is larger than UINT32_MAX; the check of `reserve` lets larger ones pass,
  and a mark in them is cut (see the hazards).

**`ModuleLoadingProof`**, for any modules and files, any number of strings and
functions, any words and any order of the steps: `LocksMatch`, `LoadedOrBlank`,
`NothingDangles`, `StringsMean` and `FunctionsMean`. All follow from `IInv`, which
TLC checked on the instance of `loading` before it was proved:

* `EnvOK`: a table has each string once and its free indexes are free (`TabOK`);
  names of functions have different indexes, not 0 (`NamesOK`); a function that
  has an index is found by it and by its name, and its module has it (`FuncOK`);
  all that a module points to is there (`ModOK`). A function may have index 0 with
  a name: its module was loaded before a load whose save does not know the
  name. It cannot belong to a module that is being read, and that is what keeps
  two functions from one name.
* `StackOK`, `LoadedOrBlank`: which modules are being read, and by what files.
* `Means`, `LocksMatch`: each word is that of its string, or the index of its
  function's name, or neither of the two; strings are locked as `kept` says.
* `SavedOK`, `RestoringOK`: the same of a save, read as `loadState` reads it; and
  that, while its modules are read again, the table still has its indexes.

Reading a file is proved chunk by chunk (`ChunkKeeps` from a lemma per reader,
`PassKeeps`, `ReadBytecodeKeeps`, `ReadRestKeeps`): it keeps `EnvOK` and adds only
strings and names (`Grew`), so words keep their meaning (`WordsKeep`), and so do
imports at any depth. An exception may come behind any chunk: `ResetKeeps` says
that a module can be reset in the middle of what it was, its functions leave the
modules that import them, and the names keep their indexes. The other steps that
take something away are `CollectStringsKeeps` (what words, locks and modules
refer to is in `RefStrings`), `LoadStateKeeps` (the strings in use are interned
into the table of the save, functions get the indexes of their names in it:
`ResetOK`, `RenumberedOK`) and `RestartKeeps`.

The assumptions are that modules are strings, that the kinds of things are
different, and `FileAssumption`: what a good chunk has are the entries that its
reader expects, names being strings (`WellFormed`). Bad chunks, cut files, bad code
and imports that fail are all allowed.

Only model-checked: `LoadedAsWritten`, which is not true of every file (an array
that ARAY lists twice loses its name, and ATAG is read behind ASTR), so that a
theorem would have to say which files are meant; `OperatorsRight`,
`ArraysRestored` and `TextFunctionsRight`, whose modules use RECURSIVE or Bitwise
operators, which no provers here can reason about; the properties of `Tracer`;
and all liveness, which is out of the reach of the prover.

## 6. Not modelled

* Threads in the save of a map: `ThreadMachine` saves and loads one thread, but
  the registry (`loadThreads`) and the pool across a load are not in
  `ScriptThreads`. The tables of scripts that `addModules` builds.
* The conversion of printed numbers (a text of a length, in `PrintBuffer`),
  hashes, and toupper (a constant of `TextFunctions`).
* Decryption and escapes of strings in files, the tables of the format ACS0
  without an extension, dumps.
* Saves that are truncated or of another version: a failed load frees the scopes
  that currentHubScope and currentMapScope still point to. An underflow outside a
  tic, which leaves the C interface as an exception. LoadState with ids other than
  those of the save, and callbacks that call LoadHubMap: the callers do neither.
* Of a thread in a save the ids of its scopes, delay, result and state; buckets,
  chains and growth of `HashMap` and `HashMapFixed`.
* `Store` and `Stack` as memory: they are sequences here, and a reallocation
  changes nothing.
* The marshalling of the wrapper, the demo programs, the float helpers.

Open: proofs about `Tracer`. `WritesFit` needs that the ops found have disjoint
extents, and a sum over them that is at most what was counted; `CodeDecodes`
needs the same of indexes in `codeV`.
