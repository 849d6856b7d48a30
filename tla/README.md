# qirtoqasm: verification models

qirtoqasm translates the entry point of a QIR module (LLVM IR with quantum intrinsics) to
OpenQASM 3. One call is sequential: it parses a text, walks the instructions of one
function, restructures its control-flow graph and prints the result. What can go wrong in it
is meaning. A line is read as something else, a value is computed at one place and inlined at
another, a graph is rewritten until it is a tree, a parenthesis is left out, and a wrong
program comes out without an error. Around it is a C interface that hands out strings to
any number of threads, where the hazards are ownership and error paths. These models say what
each step promises, check it on every small input and prove what holds for every input.

Paths below are relative to `src/`; `core` is `src/crates/qirtoqasm-core/src`.

## 1. Inventory

| Component | Code | State it keeps | Operations | What makes it correct |
|---|---|---|---|---|
| CFG reducer | `core/cfg.rs` | a digraph with two indexes, a map of blocks | `lower_cfg`, six rewrite rules | the emitted statements do what the graph does; no unwrap fires; it ends; the hash order never shows |
| Instruction walk | `core/translator.rs` | blocks lowered so far, statements of the current one, int declarations | `build_program`, `lower_block`, phi lowerings, register sizing | emitted blocks do what the QIR blocks do; what is used is declared; every instruction is lowered or refused |
| Symbol table | `core/symbols.rs` | register marks, SSA bindings, stack slots and aliases, pointer indexes | record and look up | registers cover every index; a binding denotes its value wherever it is inlined |
| Classical lowering | `core/boolean.rs` | none (writes the table) | icmp, i1 logic, arithmetic, select, phi i1 | the expression has the value the instruction has |
| Call lowering | `core/builders.rs`, `core/profile.rs` | none (writes the table) | seven builders, opaque pointer retyping | each call becomes the gate it names, on the same qubits |
| Parsed module | `core/ir/model.rs` | none | none | - |
| QIR parser | `core/ir/parser.rs`, `parser_util.rs` | position, blocks, a wrapped line, pending attribute groups | line loop, instruction and operand parsers | a text is read as what it says or refused; every text is read to its end; the tagged function is the entry |
| Signatures | `core/signatures.rs` | a table by name | a second scan of the text | agrees with the parser on what is defined |
| Printer | `core/oq3/printer.rs`, the assembly in `translator.rs` | output buffer | print, escape | the text parses back to the tree; the comment stays on its line |
| Facade, errors | `core/lib.rs`, `error.rs` | none | `translate` | each error keeps its class |
| C interface | `crates/qirtoqasm-ffi`, `include/qirtoqasm` | heap strings owned by the caller, the slots of a call, the options struct | `qirtoqasm_translate`, `_version`, `_free_string`; the C++ wrapper | exactly one of `out` and `err`; no panic crosses; every string has one owner |
| Python binding | `crates/qirtoqasm-py`, `python/` | none | `translate` | one exception class for every error |
| Build, version script | `CMakeLists.txt`, `scripts/` | none | - | not modelled: runs at release time |

How they interact. `translate` parses the text into a `Module`, and `Exporter::dumps` calls
`build_program`. That extracts the signatures from the same text again, takes the first
function tagged `entry_point` and lowers its blocks in textual order. All blocks share one
symbol table and one list of int declarations. A phi reads, and may append to, the
blocks lowered before. When the last block is lowered the whole list goes to `lower_cfg`,
the registers are sized from the marks in the symbol table, and declarations and body are
printed. The C, C++ and Python interfaces wrap that one call; nothing is shared between two
calls but the heap their strings live in.

The hard behaviours are these (all of them, with their lines, are in `PROJECT.json`
under `hazards`):

- *Order of rewrites.* The rules of `lower_cfg` scan hash sets, whose order differs from
  process to process, and each rule trusts two indexes and a block map that four operations
  edit separately.
- *Evaluation time.* LLVM computes a value at its definition. The translator inlines its
  expression at each use, or hoists it into a declaration. Between the two, bits are
  measured and variables assigned.
- *Appending to the past.* An integer phi becomes an assignment at the end of a block that
  is already lowered.
- *Decoding shapes.* A phi or a select is recognised by its shape, and a shape that is
  nearly the same has another meaning.
- *Two scans of one text.* The parser and the signature table each find the name in a header
  their own way; attribute groups are resolved after the functions that use them.
- *Line by line.* Labels, continuations of a wrapped instruction and closing braces are told
  apart by a line alone.
- *Ownership.* Every exit of `qirtoqasm_translate` must fill exactly one slot, and the wrapper
  must free it on its error path too, while other threads allocate at freed addresses.
- *Limits.* Indexes at the ends of i64, negative indexes, counts that are added.

The library starts no threads itself (its callers may), sends no messages, keeps nothing on
disk and has no timeouts, so nothing here models crashes, retries or lost messages.

## 2. Modules

### The reducer

| Module | Role |
|---|---|
| `CfgReduction` | `lower_cfg`: state `input`, `status`, `cfg`, `map`, `body`; one action per rule and per early return |
| `GraphWalk` | a walk of a control-flow graph, from position to position up to the next code to run |
| `SourceProgram` | what the graph means: a walk of its blocks (the abstract specification) |
| `EmittedProgram` | `lower_cfg`, then a run of what it emitted, one step per statement; implements `SourceProgram` |
| `CfgDeterminism` | two calls with independent hash orders, composed |
| `StructuredPrograms` | structured programs and the graphs a front end lowers them to (inputs) |
| `CfgReductionProofs` | theorems about `lower_cfg` |
| `CfgConfluenceProofs`, `CfgDeterminismProofs` | where rewrites taken in any order end; theorems about two calls |
| `MeaningProofs` | how walks compose and how long they are; theorems about what `lower_cfg` emits |
| `MCCfgRules`, `MCCfgMeaning`, `MCCfgDeterminism`, `MCGraphs`, `MCLists` | input sets for TLC |

The variables of `CfgReduction` are the locals of `lower_cfg`. `cfg` is the `Cfg` struct with its
`succ` and `pred` indexes kept apart, `map` is the block map and `body` the result.
Which match a rule takes first is up to the hash order, so an action takes any match. The
*order of the rules* in the loop is part of each action's guard: a rule runs only where
no earlier rule matches. A `Panic` is what an `unwrap` or `expect` does when it finds nothing.

A block's statements are one opaque statement `Code(n)` (`Pipeline` and `TranslatedProgram` put
the statements back). The reducer never looks inside them, except to ask whether there are any. A condition is named after the block whose
`br` it was. `SourceProgram` lets the environment choose a value for every condition before each
block with code and keeps it up to the next one, because a condition is a pure expression
over bits and variables and only code changes those. `EmittedProgram` keeps the statements
still to run in `rest` and makes one test of an `if` or a `while` at a time. A test is
invisible to the source; `tests` counts those since the last code, up to one past the number of
positions a walk can have.

### The translator

| Module | Role |
|---|---|
| `Qir` | parsed modules: operands, instructions, blocks (`ir/model.rs`) |
| `SymbolTable` | `symbols.rs`, and the expressions of `oq3/ast.rs` |
| `ClassicalLowering` | `boolean.rs` |
| `CallLowering` | `builders.rs`, `profile.rs` |
| `Translator` | `translator.rs`: one action per arm of `lower_block`, per phi lowering, per terminator, one for an error, the hand-over and the sizing |
| `Pipeline` | `build_program` as a whole: `Translator` composed with `CfgReduction` |
| `TranslatedProgram` | the QIR program and the emitted program run side by side |
| `TranslatorProofs`, `PipelineProofs` | lemmas about the lowerings; theorems |
| `QirPrograms`, `MCTranslator`, `MCTranslated` | families of modules for TLC |

`status`, `lowerings`, `statements`, `pc`, `symbols`, `ints` and `registers` are the locals of
`build_program` and `lower_block`. One step lowers one instruction. A lowering that may
fail is an operator that returns the *set* of its results, a singleton or empty. The arm is
enabled where the set is not empty and `RefuseInstruction` where it is, so the guard and the error path
cannot drift apart. Names, labels and callees are plain values (`__quantum__qis__h__body` is
`<<"qis", "h", "body">>`, and only its parts are ever looked at). Expressions keep their tree
and carry the bits and variables they read.

`Translator` hands its blocks to `lower_cfg` in the step `HandOver`. By itself it says of what
comes back only that it may be an error (`CfgRefused`). `Pipeline` puts `CfgReduction` there,
by `INSTANCE`: `Handed` is the list of lowered blocks as the reducer sees it (is there a
statement, what shape has the condition, where does it go), the reducer's steps run while the
walk waits, and its result decides whether `build_program` returns the error, goes on to size
the registers, or panics. The condition `x` of a block is then the one whose name stands in
the emitted `if` or `while`, and `Code(n)` the statements lowered for block `n`.

`TranslatedProgram` runs the QIR program a basic block at a time and the emitted one as far as
the same gates and measurements take it, on the same measurement outcomes. The LLVM side keeps
an environment of SSA values, stack memory and result bits, with integers modulo `2^Width`. The
OpenQASM side keeps the statements it has left, enters the `if`s and `while`s of the reducer's
result, and evaluates the inlined expressions when they are used. The two sides share only the
instruction format. The LLVM side is written from LLVM's rules and does not use the lowering
code.

### The front end

| Module | Role |
|---|---|
| `InstructionText` | the instruction and operand parsers, over one logical line (`ir/parser.rs`, `parser_util.rs`) |
| `SignatureText` | the headers: names, attributes and signatures, as each of the two scans reads them |
| `FrontEnd` | `parse_module`, then `extract_signatures` over the same lines, then the choice of the entry point; one action per way the scan of a line can go |
| `FrontEndProofs` | theorems |
| `QirText`, `MCFrontEnd` | QIR modules written out as text, and what can be done to a text |

`line`, `functions`, `blocks`, `logical` and `groups` are the locals of `parse_module` and
`parse_define`; `phase` says which loop is running. A line is a sequence of tokens (a word, a
`%` name, a `@` name, a number, a string, a label ...); the code works on characters, and what
makes a token out of characters (identifier rules, quoted names, digits) is abstracted. A parser
is an operator that returns the set of its results, a singleton or empty, as in the translator.

`QirText` is the other side of the comparison. It writes a module as LLVM prints it, from the
printed form and not from the parser, and keeps beside the text the module that the text
means. `FrontEnd` must give that module back. Its output, `Parsed`, is what `Translator`
takes as its `Modules`; `FrontEnd!TypeOK` says that it satisfies `ModulesAssumption`, and is
proved for every text (`ParsedAsAssumed`).

### The printer and the library

| Module | Role |
|---|---|
| `OutputText` | assembly of a program, every statement and expression form, parentheses, the `generated-by` comment |
| `OpenQasmReader` | how an OpenQASM 3 parser reads a text (external): precedences and statement forms of the grammar, and JSON strings |
| `LibraryBoundary` | `qirtoqasm_translate` with every exit, `_version`, `_free_string`, the C++ wrapper, the Python and Rust entry points, called by several threads over one heap |
| `TranslationService` | what a caller is promised (the abstract specification) |
| `LibraryProofs` | theorems |
| `MCLibrary` | the library over the printer: calls, programs and labels |

In `LibraryBoundary` a caller has a list of calls to make and a stack frame (the two slots, the
code, the strings it still has to free). Each exit of `qirtoqasm_translate` is an action, and
taking the result, each free and the return of the wrapper are actions too, so that
threads interleave between them. What the core does with a text is a parameter (`Ending`: an
error class or a panic; `Text`: what it prints). In `MCLibrary` a text stands for how its
translation ends, and the answer is kept as what it is printed from: the program and the options.
The two read-back properties print it with `OutputText` and read it with `OpenQasmReader`.

`TranslationService` knows no frames, slots or heap: a call is answered in one step, by itself,
with what the header and the docs promise for it. `LibraryBoundary` implements it under
`Promised`, by the variables `todo` and `reply`.

## 3. Properties and runs

Every property has a mutant, that is, a plausible bug in a mapped definition that makes the run
fail.

| Run | Question | Bound | States |
|---|---|---|---|
| `cfg_rules` | do the rules keep the graph, shrink it and end? | every list of up to 2 blocks (labels and targets arbitrary), every 3-block list, 3 blocks behind an entry | 88,929 |
| `cfg_meaning` | is every structured program accepted, and does the emitted program mean what the graph means? | every list of three blocks, dead code and jumps to the entry included; every reachable 4-block graph; structured programs of 3 statements, up to 11 blocks | 710,022 |
| `cfg_twice` | does the hash order show? | every reachable 4-block graph, two orders | 27,542 |
| `cfg_panic` | *violation*: can it panic? | 3 blocks | - |
| `translate_rules` | does the walk end, and hand over well-formed blocks and declarations? | 1160 modules | 19,645 |
| `translate_meaning` | does every supported program, walked, reduced and emitted, behave as before? | 4,355 modules, all measurement outcomes | 153,141 |
| `phi_polarity` | *violation*: a short-circuit phi on the other side of the br | 16 modules | - |
| `phi_hoisted` | *violation*: an integer phi that starts from a measured bit | 24 modules | - |
| `negative_index` | *violation*: negative indexes | the edge-case modules | - |
| `parse_text` | is a text read as what it says, or refused? | 1,420 texts | 72,607 |
| `joined_lines` | *violation*: two calls on one line | 1 text | - |
| `library` | is every call answered as promised, every string freed, every text readable? | 16,387 sessions of two threads | 195,611 |

**Reducer.** `GraphInSync`: the two indexes and the block targets describe one graph.
`ReachabilityKept`: no rewrite cuts code off. `NoPanicOnSoundInput`: no unwrap fires when
every block is reachable and nothing jumps to the entry, which is what LLVM guarantees of
the entry and compilers of the rest. `EveryStepShrinks` and `Terminates`: the loop ends.
`ImplementsSource`: the refinement. `NoEndlessTests`: it cannot hold for the reason that the
emitted program hangs in a loop without code, since its tests are at most the steps of the source's
walk. `StructuredAccepted`: no structured program is refused.
`SeedIndependent`: two processes emit the same program.

**Translator.** `RegistersCoverProgram`: sizes kept in one place cover, from above, indexes
emitted in others, and are i64 values themselves: an index at the limit is refused. That no
index is negative is `IndexesNonNegative`, which does not hold (`negative_index`). `LoweredBlocksWellFormed`: the contract with `lower_cfg`. `IntsDeclaredBeforeUse`:
every `cint_k` that is read or assigned is declared, and declarations read only earlier ones.
`LoweredBlocksOnlyGrow`: the past changes only at its end, and never between a block's
statements and the condition computed for its branch. `Finishes`: the walk ends.
`SameBehaviour`: the emitted program runs the same gates on the same qubits with the same angles,
measures the same bits, takes the same branches and loops, and ends when the entry point
returns. `SupportedTranslated`: nothing the README lists as supported is refused, by the walk, by
the reducer or for its registers. `GraphKept` and `NoPanic`: the reducer's two invariants on what
the walk really hands over, with no assumption about the list.

**Front end.** `NeverMisread`: however a text is laid out (every line broken at every place,
with or without a comment and a blank line there, cut short at every place, or with a return
attribute the header scan does not know), it is read as the module it says, or refused by
the parser or later by the translator. `PrintedIsAccepted`: the texts LLVM prints, and the
wrapped calls the parser says it accepts, are not refused. `EntryIsTagged`: the function
translated is tagged `entry_point`, by its header or by a group that may stand anywhere.
`FunctionsHaveSignatures`: the two scans agree. `Advances`: no line is read twice in a pass
and no pass begins again.

**Printer and library.** `TextReadsBack`: read by the grammar, the text is the program that was
built, so no parenthesis that was left out matters. `CommentReadsBack`: the last line
decodes to the profile and the producer, whatever characters they have. `OneStringPerCall`: the
contract of the two slots on every exit. `OneOwner`: no leak, no double free, no read after
free, although freed addresses are given out again. `ImplementsService`: the refinement; a
caller gets the answer to its own call. `Answered`: no argument leaves a caller stuck.

**Why the bounds are enough.** Three blocks behind an entry are the smallest graph on which
every rule has a match that shares a block with another match, and four reachable blocks add
the if/else diamond, a loop in a loop and the irreducible graph. Programs of three
statements nest any construct in any other, and short-circuits add the compound conditions.
In the translator each family crosses one recognised shape with all its operands
(constants, either bit, both orders of incomings, both targets of the br), and two
instructions in a row are what it takes for one binding to be inlined in another. `Width` is 8,
so that negative values exist (`sub` reaches -2) while no program overflows, as none does
at the real widths: wrap-around itself is not compared. `MaxBlocks` is 16: the
longest program without a loop has 8 blocks, and the longest loop of 6 blocks is taken twice
round. `MaxSteps` is 24, more statements than the emitted program can run through for one
block. The loops test before and after the body, with plain and short-circuited conditions, on either target of the br, and have a branch, a diamond or a loop inside; each
measures the bit it tests again. None has an integer phi in it, because
one in a loop latch is refused. A few unsupported modules (an irreducible loop, a label given
twice, an index as large as can be, a dead block that loops) are there for the ways
`build_program` can end other than with a program. `MaxInt` is 1000 in place of
2^63 - 1: only its being the largest index matters.

The texts of `parse_text` cross every style (typed and opaque pointers, optional words, groups
before, after or inline, the brace on its line or the next) with a module with branches, one
with every operand form and one with memory, and write every gate and short-circuit module of
`QirPrograms` in four styles. Layout is varied one place at a time, since the parser carries
nothing from one logical line to the next but the block it is in. In `library` two threads and
two addresses are enough for any pair of calls to be under way at once and for an address to
be reused while the other thread still holds its own; three calls cross every wrapped answer
with every other. Expressions are all those with operators nested two deep: a
parenthesis is decided from an operator and its operand's. Branches and loops are nested two
deep, with and without an else.

**Fairness.** `lower_cfg` and `build_program` are plain loops in one thread that nothing
suspends, so weak fairness of `Next` is exactly "the call keeps running". `Terminates` and
`Finishes` assume no more. `Answered` assumes weak fairness of each thread's own steps: a
thread is not suspended for ever, and nothing in the library waits for another thread.
`FrontEnd` needs no fairness: `Advances` bounds the number of its steps. `ImplementsSource`,
`ImplementsService` and all other properties assume none.

**Deadlock** is checked in `parse_text`, where a text that is read or refused goes on by
stuttering explicitly and every other state must have a step. It is not checked elsewhere: a
call that has returned, or a thread that has made its calls, has no next step.

### Conditions under which the meaning is preserved

`SameBehaviour` holds on `SupportedPrograms`. The following are conditions of that set. Where a
run shows what happens outside it, the run is named.

- The constant of a `phi i1` arrives on the side of the `br` its connective needs: `false`
  on the false side, `true` on the true side (`phi_polarity`).
- The initial value of an integer phi is a constant, or the variable of an earlier phi
  (`phi_hoisted`), and the phi is not inside a loop.
- Unsigned predicates see no negative value and signed ones no `i1`: both become the same
  OpenQASM operator (`core/boolean.rs:16-20` says so, and takes the two readings to agree;
  they do not, see below).
- A result is not measured again while a value read from it is still in use: the binding is
  `c[i]`, not its value.
- Stack slots are stored on straight-line paths: stores are folded in textual order.
- A loaded slot was stored.

### Findings

1. `cfg_panic`: a dead block that branches to itself makes `merge_sequential` absorb a block
   into itself and unwrap nothing (`core/cfg.rs:536`).
2. `phi_polarity`: `lower_phi_i1_short_circuit` picks the connective from the constant alone,
   so `!a && b` with the targets of the br exchanged is emitted as `a && b`
   (`core/boolean.rs:297`).
3. `phi_hoisted`: an integer merge that starts from a measured bit is initialised before the
   measurement (`core/translator.rs:492`).
4. `negative_index`: a negative constant-expression index is emitted, while the same index in an
   `inttoptr` instruction is refused (`core/builders.rs:421`, `core/translator.rs:420`).
5. `joined_lines`: of two calls on one line the second is dropped without an error, because
   what follows the operands is not looked at (`core/ir/parser.rs:674`).

Smaller things met on the way, for which no run is kept:

- An instruction after the `{` of a define, on the same line, is dropped.
- A comment inside a bracketed `getelementptr` that is wrapped cuts off the lines joined to it:
  the instruction is then refused.
- `declare noundef i1 @f()` gets no signature, while `call noundef i1 @f()` is read; a call of
  such a function is refused.
- A define header that is wrapped loses the attribute groups named on its second line.
- `core/oq3/printer.rs:321-329` says floats are written as Python does; Python writes exponents
  for large and small ones, Rust's `Display` does not, and a float that is not finite is
  printed as `inf` or `nan`, which OpenQASM has not.
- The comment at `core/boolean.rs:18-20` says that the operands of an `icmp` agree under the
  signed and the unsigned reading, and the repository's `README.md:201-203` lists `slt` on `i1` as supported.
  An `i1` that is true is -1 to a signed predicate: `icmp slt i1 true, false` holds in LLVM and
  is emitted as `1 < 0`. Likewise an unsigned predicate on a negative difference of integers.
  `SameBehaviour` fails on such programs, which `SupportedPrograms` therefore leaves out.
- The sum of the two counts of a generalized controlled call (`core/builders.rs:240`) panics
  when it overflows in a debug build; the model takes the release build, where the call is
  refused.
- `core/error.rs:11` says that the variant determines the Python exception class; there is one
  class. A panic reaches Python as PyO3's `PanicException`.

## 4. Proofs

All theorems hold for every value of the constants that satisfies the named assumptions:
any set of labels and any set of input lists (`EntryAssumption`, `InputsAssumption`), any
set of parsed modules (`ModulesAssumption`: argument lists are sequences, pointer
constants have `i64` indexes, a conditional br has two targets, an entry point has a
block, all of which the parser's types give and `ParsedAsAssumed` proves of `FrontEnd`; `NamesAssumption` gives the set of their block names,
and one name to all the entries) and any positive `MaxInt`
(`MaxIntAssumption`), any set of texts made of sequences of tokens (`TextsAssumption`) in whose
headers a structure type returned names no global, as LLVM types do not
(`HeadersAssumption`), and any callers, addresses and calls (`SessionsAssumption`: each thread
makes a sequence of calls; `AddressesAssumption`: NULL and "unset" are no addresses;
`EndingAssumption`: the core returns a text, one of its four errors, or panics). TLC evaluates
each assumption in a passing run.

**Reducer** (`CfgReductionProofs`). The inductive invariant is type correctness,
`IndexesConverse` and `TargetsAgree` together: none of them is inductive alone, since a rule reads the
targets from the map, finds blocks by the predecessor index and edits through the successor index. Every
rule is shown to be a *contraction* (a lemma per rule: it removes one or two nodes, or a self
edge, and redirects the edges of one node to where the removed nodes led). Three lemmas then
say what any contraction does to the invariant, to reachability and to the size. From these
follow `TypeCorrect`, `GraphStaysInSync`, `ReachabilityStaysKept`, `NoPanicOnReachableCode` and
`RewritesShrink`.

**The hash order does not show** (`CfgConfluenceProofs`, `CfgDeterminismProofs`). `SeedNeverShows` is
`SeedIndependent` for every list of blocks that are all reachable from an entry nothing jumps
to (`SoundInput`). It is a statement about pairs of runs, which no invariant of one run gives. The
proof takes the rewrites as a relation `Rewrites` on block maps, without the order of the
rules and without the indexes, and shows that it has one result.

- *Steps.* Each step of the loop is one rewrite, or two: the short-circuit rule is an if with
  nothing in either arm, which leaves no statement, and a merge (`LoopStep`). When no rule of the
  loop matches, no rewrite applies (`NoMatchIsFinal`).
- *Diamond.* Two rewrites that apply to one graph are the same, or can each be followed by one
  more to the same graph (`Diamond`). Two at different places do not touch each other's blocks, or
  one's block is absorbed by the other, where statements meet by concatenation
  (`RuleRemains`, `EitherOrder`, `MergeEitherSide`, `TakenIsMerged`). Two at the same place
  take the same blocks and leave the same (`SamePlace`).
- *Traps.* The diamond fails where blocks form a loop without exit: there the order can matter.
  A rewrite keeps a closed region closed (`AfterTrapped`), so no run from such a graph
  ends at the entry alone, and `lower_cfg` refuses it whatever the order (`TrapStays`).
- *One result.* The diamond is carried along one run to its end (`OtherFirstStep`) and then along the
  other (`OneEnd`), each time by a least counterexample on the number of rewrites; `OneResult` follows.
- *Two processes.* `Reached` says of one process that what it holds is reached by rewrites from the
  blocks of its input, and that it stops where none applies; `ResultIsReached` is its theorem.
  `CfgDeterminism` instantiates `CfgConfluenceProofs` twice, so these lemmas hold of
  `First` and of `Second`. A step of one is a stutter of the other (`TwiceSteps`), so both
  invariants hold of the pair, and `OneResult` joins them at the end (`SameResult`).

The theorem says nothing of inputs with unreachable blocks, on which `lower_cfg` may panic.

**What the reducer emits means** (`MeaningProofs`). `ReductionKeepsMeaning` is
the refinement `ExecSpec => ImplementsSource`, for any set of labels, any input list and any
valuations, and `NoSilentLoopAdded` the invariant `NoEndlessTests`. The argument is a simulation.
An element `<<k, n, p>>` of a relation `R` says that the statements `k`, then a jump out of node `n`,
are what is left to run when the source is at position `p`. `Simulates` says what such a relation must
satisfy: where `k` starts with code, the walk from `p` comes to that code; where it starts with a
test, the walk takes at least one step to a position that agrees with what the test leaves; where
`k` is empty, the walk goes where the map entry of `n` goes.

- The graph as built has a simulation (`BuiltSimulates`).
- A rewrite leaves the work of some nodes to node A, each list of theirs followed by the statements
  the rewrite puts after it. `RewriteSimulates` says once what must be shown of a
  rewrite; `AbsorbSimulates`, `BranchSimulates` and `LoopSimulates` show it of the three ways the six
  rules rewrite, and a lemma for each rule that it is one of them. A loop needs no induction: its body,
  followed by the loop again, is one more element of `R`.
- When no rule matches and one node is left, it returns, since a jump to itself would match
  (`SucceedReturns`).
- During the run, `Follows` says that what is left agrees with a position the walk from the last code
  comes to, in at least as many steps as tests were made.

The first part of the module says that walks compose, and that a walk which stops does so within as many
steps as there are positions (`StopsWithinLimit`): a walk in a finite set that meets a position twice
goes round for ever. The walk is a recursive function; its equation is proved from the definition
of the function (`WalkEquation`), and every induction over it is a least counterexample. No rule
is assumed to be applied in the order of the loop: the theorem holds of each rule wherever it
matches.

**Translator** (`TranslatorProofs`). Registers are sized from marks in the
symbol table, while indexes sit in statements, conditions, initial values *and in bindings not
used yet*. So the invariant must say that everything the table could still inline is covered
by the marks and reads only declared variables. `IInv` is

- `Position`: the walk is inside its blocks;
- `TableOK`: every binding is within the marks and the declared variables, and the marks and
  the pointers bound are at most `MaxInt`;
- `IntsOK`: an initial value reads earlier variables only;
- `StatementsOK`, `LoweringsOK`: the same for statements and conditions, and the shape of a lowered block;
- `RegistersSized`: sizes are marks plus one once translated, and no mark is `MaxInt`.

The first part of the module has a lemma for each lowering (it returns a table that is still OK, and
statements within its marks, and the marks only grow). The second has a step for each action. From these follow `TypeCorrect`, `RegistersCover`, `LoweredBlocksOK`, `IntsDeclared` and
`BlocksOnlyGrow`. `LoweredBlocksOK` discharges, for real inputs, the well-formedness that
`CfgReduction` assumes of a block (`WellFormedBlock`).

**The two together** (`PipelineProofs`). `Pipeline` instantiates `CfgReductionProofs`, so the lemmas
about the reducer's steps can be cited for `LowerCfg!...` once its assumptions on its input are
proved of `BlockLists`. The invariant `PipeInv` is the walk's `IInv`, that every name and target in
a lowered block is a known name (`NamesKnown`), who is running (`InTurn`), and the reducer's own
invariant from the call on. `HandedAccepted` is the lemma in the middle: what the walk has
lowered is in `BlockLists`. From these follow `PipelineWalks` (the whole is a run of `Translator`, so
the theorems above hold of it), `PipelineKeepsGraph` and `PipelineNeverPanics`. `HandedAccepted` also
puts the lists the walk hands over among the inputs for which `ReductionKeepsMeaning` is proved; the
execution of a reduced list is not made a further phase of `Pipeline`.

**Front end** (`FrontEndProofs`). The theorems hold for every text, not only for QIR.
The invariant `Read` says where what is held in the state stands in the text: each function
read has a line with its header, each group a line with its body, and, in the second pass,
each header already passed has put its name in the table. `SameName` is the lemma that joins
the two scans: the first global of a header line, which is the parser's name, is the first
global after the return type, which is the name in the table. From these follow `ScanAdvances`,
`EntryTagged` and `SignaturesFound`.

A second invariant, `Shaped`, says what the values held look like: bodies are non-empty
sequences of blocks, argument and parameter lists are sequences, pointer constants are `i64` values. It needs a
lemma for every parser between the line and the instruction: the scanners return sequences,
whatever bracket or comma they look for and fail to find; a list that is split and read part by part
is a sequence of what its parts read as (`PartsAreSeqs`, `AllFacts`); an operand read as a pointer has
an `i64` index (`ReadOperandFacts`); only a call and a conditional br hold more than their own operands
(`InstructionFacts`). `ParsedAsAssumed` (`Spec => []TypeOK`) follows: for every text,
well formed or not, what is handed over satisfies the `ModulesAssumption` under
which everything above about the walk is proved.

**Library** (`LibraryProofs`). The invariant has three layers. `FrameOK` relates one thread's
frame to the call it is answering; it is kept by the thread's own steps and untouched by the
others. `Owned` relates all frames to the heap: each address a frame holds is allocated, for
that caller, and each allocated address is held. `Answers` says that what a frame holds of an
answer, in the heap through its slot and later copied out, is what was promised to its call.
It rests on `Owned`: another thread's free cannot take away the string a slot points to. Each
action is shown to change one frame and at most one address (`Touches`, `Ends`). From these
follow `LibraryTypeCorrect`, `OneStringPerCallHolds`, `OneOwnerHolds` and
`LibraryImplementsService`, the refinement, for any number of threads.

**Only model-checked.** `Terminates`, `Finishes` and `Answered` (liveness). `StructuredAccepted`,
`SameBehaviour` and `SupportedTranslated`, whose statements use recursive construction and
evaluation of programs and expressions. `TextReadsBack` and `CommentReadsBack`, where printer and
reader are recursive. `NeverMisread` and `PrintedIsAccepted`, which compare with texts written
by `QirText`.

## 5. Not modelled

- Characters. How they make tokens, and so keywords that another word begins with.
  Digits of a float. Strings with a NUL inside.
- Error texts, blanks and indentation, logging, release scripts.
- Memory that runs out: an allocation that fails aborts the process; the wrapper's own copy of a
  string is assumed to succeed.
- Profiles other than the base profile: no caller of `translate` can give one.
- One run from text to text: the front end is compared with the modules its texts say, the
  translation from those modules on, and the printed text with the program it was printed from.
  The three meet in the type of a module (`Qir`) and of a program (`OutputText`).
- A result measured again while an earlier readout is live, stores on one arm of a branch and
  integer phis in loops are outside `SameBehaviour` (see the conditions above).
- `numControls + numTargets` in a debug build, where a sum beyond i64 panics; in a release build
  it wraps to a number no operand list has, and is refused as in the model.
- The size of the output: nested do-while loops duplicate their bodies, and no limit is
  stated anywhere.
