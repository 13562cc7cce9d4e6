# Verification of rust_shunting_yard

TLA+ models of the expression evaluator in this repository, the TLC runs that check them on
small instances, and theorems about them that TLAPS proves for every instance. Run the tools in
this directory: `tlc -config X.cfg M`, `tlapm M.tla`.

## 1. The system

A library that parses an arithmetic expression under resource limits and evaluates it, asking
the host for the variables, and a C API around it. Everything is sequential: no thread, no file,
no network, nothing persisted. What is hard about it is order (which of several errors wins,
when the host is asked), bounds (six limits, native recursion), machine arithmetic, and host
code that runs in the middle of an evaluation.

| Part | State it keeps | Operations | Talks to | What makes it correct |
|---|---|---|---|---|
| Tokens, lexer (`tokens.rs`, `lexer.rs`) | position in the text | `Lexer::next` | called by the token loop | spans cover the text but for what is skipped; the longest token wins; errors are items of the stream, not its end |
| Grammar (`calc.lalrpop`) | LR stack, `errors` vector | the generated `parse` | token vector in, tree out | one tree for every text that alternates operands and operators; the root is the loosest operator |
| Parse pipeline (`lib.rs` 445-513, 813-995) | checked tokens, node counter, recursion of `walk` | `parse*`, `parse_tokens_with_options_detailed`, `validate_ast_limits` | lexer, grammar, the tree | one first cause for each verdict; limits bound the work; a legacy error means what the detailed one meant |
| Tree (`ast.rs`) | the owned or borrowed tree | built by the grammar, read by walk and evaluator | | shape by variant |
| Evaluator (`eval.rs` 172-226, `lib.rs` 53-60, 536-541) | the recursion, operands so far | `eval_with_resolver` | the host's `VariableResolver` | result = meaning of the tree under the answers; the host is asked left to right, once per occurrence, never after an error |
| Public functions (`lib.rs` 199-305, 515-811) | a parsed expression between its evaluations | `parse*`, `evaluate*`, `evaluate_parsed*`, `into_owned` | pipeline and evaluator in one call or several; the host | rejected texts ask the host nothing; every evaluation of a tree is a first one; the error says which stage failed |
| Operators and built-ins (`eval.rs` 17-171, 228-1110) | none | `apply_unary`, `apply_binary`, `apply_function`, checked integer arithmetic | called by the evaluator | results are valid values or errors; laws of division, rounding, bits at the edges; order and rounding where integers meet floats |
| C API (`shunting-yard-ffi/src/lib.rs`) | error objects, parsed handles, out parameters, the resolver's last error | parse, evaluate, free, accessors | core library; C callback that may call back | status, error object and outputs agree; nothing leaks; a callback's failure is blamed on the callback |
| Interactive loop (`main.rs`) | the line it reads | prompt, read, evaluate, report | a writer that may close its end, streams that may fail, the library | every line once and alone; ends well on `exit` and on nothing else |
| Header, C tests, examples, fuzz, CI, packaging | none | | | declarations and tooling |

## 2. Modules

```
Ast ---- AstGen                      Values, IntArith -> EvalOps
 |  \                                        |        \
 |   \                                       |         OpLaws -> MCOpLaws, OpLawsProofs
 |    ------------------------------------   |
ParsePipeline -> MCParsePipeline          \  |
 |                                       Evaluator (implements ResolverContract)
ParsePipelineProofs                         -> MCEvaluator, EvaluatorProofs

CoreApi = ParsePipeline + Evaluator (implements ApiContract, which contains ResolverContract)
   -> MCCoreApi, whose trees come from Grammar
   -> CoreApiProofs = ParsePipelineProofs + EvaluatorProofs

Lexer -> MCLexer  \                   Grammar -> MCGrammar, GrammarProofs
                   InputProofs       FloatInt -> MCFloatInt, FloatIntProofs
Repl -> MCRepl    /                  ShyFfi -> MCShyFfi        \
                                                                CApiProofs
                                     FfiErrors -> MCFfiErrors  /

OpLawsProofs: also the lemmas about operators for EvaluatorProofs and, on powers of two, FloatIntProofs
```

**Ast** is the tree of `ast.rs` as a flat record over nodes numbered in preorder. Preorder is the
order in which both recursions of the code first reach a node, so a node number doubles as "when
it is reached", which is what lets one formula say both *the walk counts nodes in order* and *the
resolver is asked in order*. `IsAst` is the shape the Rust types give; `IsCleanAst` excludes the
error variants, which only the grammar's recovery builds. **AstGen** enumerates trees for TLC.

**ParsePipeline** models `parse_with_options_detailed`: size check (`CheckInput`), the token loop
one token per step (`RejectTokens`, `RejectLexical`, `PushToken`, `EndOfTokens`; the limit is
tested before the token, as in the code), the answer of the generated parser (`ParserFails`,
`ParserRecovered`, `ParserSucceeds`), and `validate_ast_limits`, whose recursive `walk` is a stack
of frames with a step for every call (`Enter`, or one of the three rejections in the order the
code tests them) and every return (`Leave`). `Legacy` is the conversion `From<Error> for
EvalError`. The text is abstracted to its size, the kinds of its tokens and the parser's answer:
the LALRPOP tables are generated code, and every answer they could give is an input.

**Evaluator** models `eval_with_resolver`: frames with the operands evaluated so far, one step per
literal, per descent into a compound node, per question to the resolver, per answer and per
operation applied. An error empties the stack in the same step, because `?` does nothing else on
its way up. The resolver is the environment: it answers any value of the C and Rust types (NaN,
infinities and subnormals included) or any error, differently for the same name if it likes, or
never. `asked` and `answers` are history variables.

**ResolverContract** is the abstract specification of what evaluation promises its host: ask,
take an answer, conclude; nothing about operators. `Evaluator` implements it; the refinement
mapping is the identity on the tree, the history variables and the result.

**Values**, **IntArith**, **EvalOps** are the operators. Integers are exact two's complement
values of `Bits` bits: `CheckedAdd` and the others compute the mathematical result and test the
range, as `checked_*` do. The bit operators go through sets of bit positions, and the width through
`PowerOfTwo`, a recursive function and not `2 ^ n`, about which the provers know nothing. Floats are classes:
negative, positive, zero, NaN, infinite, subnormal. An operation on floats has the *set* of
outcomes its classes allow, so `ApplyBinary` and the others return sets; integer operations return
singletons (this is checked, not assumed). What the classes keep is what the code branches on:
`checked_float`, the sign tests of `sqrt` and `ln`, zero divisors, NaN comparisons.

**OpLaws** makes one call of an operator a behaviour, so that laws about results are invariants.

**FloatInt** is the part of the operators that the classes of `EvalOps` cannot tell: an integer
promoted to a float for a comparison, `min` or `max`, and a float rounded to a multiple of an
integer and converted back. Floats are binary floats with a value, in a format a few bits wide
that is to the model's integers what `f64` is to `i64`: its significand is shorter than the
integer, and it holds 2^(`Bits`-1), which is one past the largest integer. `Nearest` is rounding to
nearest, ties to even, after each float operation, as the hardware does.

**Lexer** is the token stream: the patterns of `tokens.rs` as predicates on slices (`KindOf` takes
the first by priority), longest match (`LongestFrom`), the callbacks that turn a slice into a
value or an error, and `Lexer::next` as the one action, with byte spans. A text is a sequence of
one-character strings. What the Logos derive generates is external and modelled by its documented
rule, longest match and then priority.

**Grammar** is `calc.lalrpop`: for each precedence level the set of the trees it derives for a range
of tokens (`Expression(s)[Place(level, i, j)]`), as LALRPOP reads the `#[precedence]` annotations, with
the trees the actions build. It is a recursive function over all places of a text, `Derives` is its
equation, one alternative of the grammar per operator; the arguments of a call are a level of their own. The
LALR tables are external; what they return is in this set. The
recovery alternative is left out: it only leads to an error (`ParsePipeline`).

**CoreApi** composes. A behaviour is one public function called with one text and the evaluations
after it. `Parsing` is a step of an instance of `ParsePipeline`, `Evaluating` and `ResolverReturns` are
steps of an instance of `Evaluator`; `ParseReturns`, `CallEval` and `EvalReturns` hand the tree from one
to the other and turn their results into what the host gets, with the error conversions of `lib.rs`
(`LegacyError`, `WrappedEvalError`); `TakeOwnership` is `into_owned`. After `parse*` the host evaluates
the tree as often as it likes. **ApiContract** is what all this promises the host: a text is rejected without a
question, or accepted, and then each evaluation keeps `ResolverContract` from the start.

**FfiErrors** is what one failed call tells a C host: the core's error becomes `ErrorParts`, the 32-bit
fields of a `ShyError`, and the host walks them through every accessor with the counts it finds.

**Repl** is `main`: the loop and its environment, a writer that writes pieces of lines and may close,
and streams each of which may fail. `LineRead` is `read_line` returning, also with 0 bytes.

**ShyFfi** is the C API together with the host that calls it. `calls` is the stack of active
calls: an entry point clears its outputs (`Call`), then either rejects its arguments, panics and is
caught, asks the callback, or ends with the result of the core library; while a call is in its
callback (`phase = "callback"`) the host runs and may call the API again or free objects. A step
that ends a call writes its outputs and returns at once, because nothing of the host's runs
between. `errors` and `handles` are the objects the library has allocated,
`errorSlot` and `handleSlot` the host's variables; `Garbage` is a pointer to no object, as an
uninitialized variable or one whose object was freed holds. The sixteen entry points are the members
of `Entries` and their status-only forms, which pass a null `out_error`. Of the core library the
module keeps the result, and that no variable is asked for after an unusable answer, which is what
`ResolverContract` promises.

The host follows the header's ownership rules and no more: it does not pass an out variable that
still owns an object, nor free a handle that an active call evaluates, and a callback does not
unwind. A callback may make its calls with the `out_error` of the call it works for, and leave there
what they wrote, or a pointer to an object it has freed. The library clears `out_error` on entry
only: if the outer call then succeeds the host finds what the callback left (`out_error_doc`), and
if it fails the pointer is overwritten and the object lost. The history variables say no more than
that: `left` of a call is what its callback left in its `out_error`, and `dropped` the objects lost so.

**\*Proofs** hold the theorems; the modules they are about stay free of proofs. `OpLawsProofs` first
proves what every helper of `EvalOps` returns and bounds, then the laws; `EvaluatorProofs` extends it for
those lemmas, and so has the variables of `OpLaws`, of which it says nothing. `InputProofs` is about
the two modules that read input, `Lexer` and `Repl`, and `CApiProofs` about the two of the C API; the
names of each pair are disjoint for that reason (`LoopInit`, `LoopNext`; `WalkInit`, `WalkNext`).

## 3. Runs

| Run | Question | Instance |
|---|---|---|
| `parse_pipeline` | Is every verdict the first cause, and is the work bounded? | every tree of up to 4 nodes with the tokens it needs and two more, all patterns of up to 3 good and bad tokens, every parser answer with 0-3 recoveries; tree limits 0..3 each, text limits 0..3 each |
| `lexer` | Do spans cover the text, is every word taken whole and for what it is, is every literal a number? | all texts of up to five number characters, four operator characters, three of seventeen words that are prefixes and near misses of one another; 5-bit integers |
| `grammar` | Does every well-formed text have one tree, with the loosest operator at the root? | all texts of up to 5 tokens of operators and parentheses and 6 of calls, all pairs of infix operators with prefixes and postfixes around, all triples of one operator per level |
| `evaluator` | Does evaluation compute the meaning of the tree, ask in order, keep the contract? | every tree of up to 3 nodes over the listed operators, trees of 4 nodes with variables as leaves, two nested subtractions of 5 nodes; 2-bit integers |
| `core_api` | Do the public functions keep their contract, in every form, also when an expression is evaluated again? | five texts that parse, with the trees `Grammar` gives them, four that do not, failing and recovered; limits around each; two evaluations |
| `op_laws` | Do all operators and built-ins obey their laws at the edges? | all operators, all operand values of a 4-bit width and all float classes, up to two operands (three for a sample) |
| `ceiling_doc` | Does `ceiling` overflow only where its doc says? (violated) | the same |
| `float_int` | Are mixed comparisons, `min`, `max`, `floor` and `ceiling` right where floats are too short for integers? | 5-bit integers, 3-bit floats up to four times their range: all pairs, triples for `min` and `max` |
| `shy_ffi` | Do status, outputs and objects agree, and is the callback blamed rightly, whatever the host does from inside it? | two error variables, one handle variable, three boxes for errors and one for handles, one call nested in another, three callback codes, one object lost |
| `out_error_doc` | Is `*out_error` null on success, as the header says? (violated) | the same |
| `ffi_errors` | Does the host read from an error what the core reported? | every kind of error, up to three diagnostics with up to three expected tokens; an `i32` that ends at 2 |
| `repl` | Is every line evaluated once, and does the loop end on `exit` and on nothing else? | up to four of six pieces in any order, written, closed and read in any interleaving |

Why the bounds are enough. `parse_pipeline`: limits range from zero to one below the largest tree,
so each limit is met exactly, missed by one and passed by one, alone and together with every
other; a tree of 4 nodes has every shape of nesting, siblings after a subtree, and a call with
three arguments. `lexer`: the alphabet of each family holds the characters its patterns branch on,
and a token boundary depends on the two slices around it. `grammar`: a conflict of two
precedence annotations shows in two operators with a prefix and a postfix around them; three are
there for associativity within nested levels. `evaluator`: properties are about the order of
operands and answers; 3 nodes give two occurrences under every operator class, 4 and 5 give an
operator whose operand is an operator on either side. `core_api`: a second evaluation is the least
that can be disturbed by a first. `op_laws`: at 4 bits all of MIN, MIN + 1, -1, 0, 1, MAX are
distinct, products and powers overflow on both sides, and precisions exist that do and do not
divide the edges. `float_int`: between 8 and 16 every second integer has no float of its own, which
gives ties in both directions, and the floats around 16 are the edge of the conversion.
`shy_ffi`: hazards there are between a call and one nested in it, or between calls
one after the other that share a variable; a second error variable gives calls with different ones;
the boxes are as many as the variables and the object a callback may lose, so one lost otherwise is
noticed before the boxes run out. The codes are the good one, one that coincides with an
error of the library, and one that is no status. States that differ in what a lost object says
are one to TLC (`View`), since nothing reads it any more. `ffi_errors`: three diagnostics are one more than
the narrow `i32` counts. `repl`: four pieces make an exit line with a line before or after it, or
with a carriage return, and an end of input in the middle. The theorems of section 4 have no such
bounds.

Bounds: `MaxSize` and `LimitTop` (trees and limits of `parse_pipeline`), `Bits` and `MaxExponent`
(width of integers; how large an exponent the repeated multiplication of `checked_pow` enumerates
before it must overflow), `Significant` and `One` (the float format of `float_int` and the unit
its fractions are counted in) with its `MaxOrder` (where its floats end, far beyond the integers),
`MaxOrder`, `MinOrder`, `ZeroOrder` of `Lexer` (where the floats of `lexer` end), `MaxI32`, `MaxCalls` (how
deep C calls nest), `MaxDropped` (how many error objects callbacks lose), `MaxEvaluations`,
`MaxPieces`. In guards: `ShyFfi!Call`, `ShyFfi!CallbackReturns`, `CoreApi`'s next evaluation,
`Repl!Write`. Deadlock is checked in `shy_ffi`, where a host can always go on; it is off in the other
runs because a call that has returned, a text that is read, or a program that has ended, stops.

### Properties

- `VerdictIsFirstCause` gives each of the ten answers its one justification in the text and the
  limits: bytes, then tokens by position (limit before error), then a hard parse error over any
  recoveries, then recoveries, then the first node in preorder that breaks a limit (count, depth,
  arguments in this order) with the measured number.
- `WorkBounded`: tokens buffered, nodes counted and native recursion never exceed the limits,
  whatever the text, also on the way to an error.
- `WalkInPreorder`: the recursion is a path from the root, and exactly the nodes numbered up to
  the counter have been checked.
- `SpansCoverText`: the spans cover exactly the bytes that are not skipped, in order, also after
  errors and wide characters. `WordsAreWhole`: a word ends only where the text does not go on as a name
does, index included, and means what it spells, so a reserved word is never a variable and a name
that starts with one is never cut.
  `SpacesBetweenTokensAreNeutral`: where a token ends does not depend on what follows.
  `LiteralsAreNumbers`: in range, normal, never negative.
- `ParsesOnceIffAlternating`: a text has exactly one tree if a left-to-right reading with a stack of
  brackets accepts it, else none. `RootIsLoosest`: that tree's root is the operator outside
  brackets that binds loosest, stated on the token list. `TreesAreUsable`: the tree has the opcodes
  the evaluator expects where it expects them, and no more nodes and levels than the text has tokens.
- `PromiseKept`: `CoreApi` implements `ApiContract`. `ReturnsTheMeaning`: what the host gets is the meaning
  of the tree under its answers, through owned copies and later evaluations, and a resolver's error
  unchanged. `VariantNamesTheStage`: a resolver's error that looks like a limit or parse error is
  still reported as `Eval`. `LimitsBoundEvaluation`: recursion and questions stay below the limits
  the text was checked with.
- `ResultIsMeaning`: the result is in the denotation `Meaning(expr, answers)`, defined bottom-up
  over the tree without a stack: leftmost error wins, `&&` and `||` evaluate both sides, each
  occurrence uses its own answer.
- `CallsFollowTree`, `AskedInOrder`, `ContractKept`: see the modules.
- `ResultsAreValid`, `DivisionLaws`, `RoundingLaws` (values, and overflow exactly where the multiple does not
  fit, for `ceiling` also where the floor it starts from does not), `BitLaws`: the laws of the operators, stated with mathematical division and sets of bits, independently of the case
  analysis in the code.
- `OrderIsNeverReversed`: promotion can make different numbers equal but never turns them around, and
  is exact where floats are. `ExtremeIsNearest`: `min` and `max` give a float nearest to the true
  extreme, wherever the float stands. `RoundedIsTheMultiple`: the right multiple, or an overflow
  exactly where it is no integer. It needs what its premises say: for values past 2^53 and
  precisions that are not powers of two, precisions that no float holds, or values so small that the
  quotient is subnormal, the code can return another number (TLC shows it as soon as a premise is dropped).
- `NothingLost`: live objects and the host's variables correspond one to one, with null
  `out_error`s, failing calls, nested calls and frees in any order, but for the error objects
  callbacks left in the `out_error` of a call that then failed.
- `OutputsAlwaysAgree`: at each return, OK means that `out_error` is null, or what the call's last callback
  itself left there, and from a parse a new handle; any other status means an error object with that
  status, whatever callbacks left, and a null handle.
- `BlameIsAlwaysRight`: a callback that failed determines the status and stage of the call it
  failed, unless the call panics, and no other failure carries the resolver's stages.
- `WalkFindsEveryDiagnostic`, `SpansAgree`, `CodeIsTheCause`, `CountsAreTheIndices`: what the host reads back is
  what the parser reported, each diagnostic at its own offsets or at the end of the `i32` where they are
  past it, spans are ranges even when saturated, codes and causes correspond one to
  one, and an index is good exactly below its count.
- `EveryLineUntilExit`, `ExitEnds`: the interactive loop.

### Fairness

`Repl!FairSpec` is weak fairness of the program: with a line to read it
runs; the writer has no fairness, and neither has any of the failures, each of which is an
alternative to a success. No other module has liveness: `ParsePipeline` and `Evaluator` are recursions over a finite tree
without a loop of their own, which return by their structure unless the host's resolver does
not, and to say so of their models would say nothing of the code.

## 4. Proofs

| Theorem | Says | Argument |
|---|---|---|
| `ParsePipelineProofs!TypeCorrect`, `Verdict`, `BoundedWork`, `Preorder`, `LegacyCounts` | the invariants of the pipeline (and that a legacy `ParserRecovery` has a count from 1 to the limit), for all texts, trees and limits | one inductive invariant |
| `EvaluatorProofs!TypeCorrect`, `FollowsTree`, `AsksInOrder` | the invariants of the evaluator, for all trees, resolvers, widths | one inductive invariant |
| `EvaluatorProofs!KeepsContract` | `Spec => ContractKept`: the refinement | each action maps to a contract action or a stutter, under the invariant |
| `EvaluatorProofs!ReturnsMeaning` | the result is the meaning of the tree under the answers, for all trees, resolvers, widths | the invariant `MeansInv`, and induction over the tree |
| `OpLawsProofs!ValidResults` | results are valid values or errors, for all operands and widths | closure of every helper |
| `OpLawsProofs!DivisionIsLawful`, `RoundingIsLawful` | the laws of integer division and rounding, for all operands and widths | the outcome is one of the call's; brackets of the multiples |
| `OpLawsProofs!BitsAreLawful` | the laws of two's complement, for all operands and widths | an integer is the sum of its bits; sums position by position |
| `FloatIntProofs!OrderIsKept`, `ExtremesAreNearest` | the order of mixed comparisons, and the nearness of `min` and `max`, for every float format too short for the integers, all operands, lists of any length | rounding is monotone, and no float is nearer |
| `FloatIntProofs!RoundedAreMultiples` | floor and ceiling of a float to an integer precision, for the same formats and all operands whose quotient is not subnormal | a quotient of short numbers is further from the whole numbers beside it than rounding moves it |
| `CoreApiProofs!NamesTheStage`, `ReturnsMeaning`, `LimitsBound` | the invariants of the public functions, for all texts, limits, resolvers and numbers of evaluations | composition of the invariants of pipeline and evaluator |
| `CoreApiProofs!KeepsPromise` | `Spec => PromiseKept`: the refinement of `ApiContract` | from the same invariant and the evaluator's own refinement |
| `CApiProofs!TypeCorrect`, `NothingIsLost` | the invariants of the C API, for any variables, boxes and depth | one inductive invariant |
| `CApiProofs!OutputsAgreeOnReturn`, `BlameFallsRight` | the action properties of the C API | from the same invariant, one step per action that returns |
| `InputProofs!SpansCover`, `WordsAreKept`, `SpacesAreNeutral`, `NumbersFromLiterals` | the invariants of the token stream, for every text, integer width and float range | one inductive invariant, `StreamInv`, and what each pattern can match |
| `InputProofs!LinesUntilExit` | `FairSpec => []EveryLineUntilExit`, for any pieces and however many are written | one inductive invariant, `LoopInv` |
| `GrammarProofs!ParsesOnce` | one tree for a text in which operands and operators alternate, none for any other, for texts of any length | what is derived reads as one operand; a tree's root and all below it are determined by the text; what reads as one operand is derived |
| `GrammarProofs!LoosestAtTheRoot` | the root is the loosest operator outside brackets, for texts of any length | from the same lemma about roots |
| `GrammarProofs!UsableTrees` | trees fit the evaluator and are no larger than the text, for texts of any length | every node gets the children its kind takes; preorder numbering |
| `CApiProofs!CodesAreCauses`, `WalksFindAll`, `IndicesBelowCounts`, `SpansAreSane` | the invariants of error objects, for all failures, lengths and widths of `int32_t` | one inductive invariant of the host's walk; case analysis of the parts |

*Pipeline.* `VerdictIsFirstCause` speaks of `pc = "done"` only and is not inductive. The invariant
adds what is known at each earlier program point: bytes fit once past `start`; the first `checked`
tokens are clean and within the limit; the parser succeeded without recoveries during the walk;
and `WalkInPreorder`, which ties the stack and the counter to the numbering. The numbering of
`kids` and `last` is `KidsInPreorder`: a call enters the node that is one more than the
counter, because the previous sibling's subtree has just been counted.

*Evaluator.* The invariant is the type invariant, `Calls` (the frames form a path from the root,
the innermost may be a variable only while the resolver runs), `Progress` (every variable before
the next node to evaluate has been asked, none at or after it) and `AskedInOrder`. The refinement
needs `Progress` for two obligations: the occurrence asked next is the *smallest* one not asked,
and at the moment a value is the result all occurrences have been asked.

*Integers and floats.* The first two theorems of `FloatIntProofs` rest on what `Nearest` does. A number rounds to one of the multiples of its step around it (`NearestFacts`), and never across any other
multiple of that step (`RoundsToMultiples`). Of two numbers of different orders the power of two
between them is a multiple of both steps, so neither rounds across it; of one order they share the
step. So rounding is monotone (`RoundingKeepsOrder`), which is all a comparison needs. An integer of
no more bits than the significand is a multiple of its step (`ShortIntegersAreExact`). A float nearer
than the one chosen would lie strictly between the multiples around the number, so have its order and
be a multiple of its step (`NoneNearer`); the first of the rounded list is the
rounded first of the list (`FirstStaysFirst`), since the code promotes before it compares.
For `RoundedAreMultiples` let v be the value, p the precision, m a whole number. `QuotientKeepsSides` says that the float of
v / p is on the same side of m as v / p itself and is m only if v / p is. Either v / p is a float (`MultiplesAreExact`:
always when p is a power of two), or v and 1 are multiples of some g with p times the quotient's step below 2g
(`ShortIsOnTheSameSide`); then mp - v, if not zero, is at least g, so v / p is more than half a step from m. With that the
whole number is the right one (`WholeQuotients`), the product is exact as the property supposes, and the half-open range
test is right since both its ends are floats (`RangeIsExact`, `WholeNumbersConvert`). The attempt to prove this without
`QuotientIsNormal` failed for a reason TLC then confirmed on small values (section 5).

*Meaning.* `ResultIsMeaning` compares what the recursion delivers with `Meaning`, which is a recursive
function over the nodes from the last one down. It speaks of the end only. `MeansSoFar` adds that
every operand in every frame is one its node means under the answers *so far*, which needs that an
answer still to come cannot change the meaning of a node evaluated already: `Progress` says that all
its variables have been asked. That a node's meaning depends on its own subtree alone is
`NodeInduction`, induction over the set of nodes for which it holds.

*Public functions.* `CoreApi` instantiates `ParsePipeline` and `Evaluator`, `CoreApiProofs` the
modules with their theorems, under the same substitutions. Its first lemmas (`SameSteps`, `SameParser`,
`SameMeaning`, `Assumptions`) show that the two speak of the same definitions. `IInv` then says
which component's invariant holds at which stage: `PP!Inv` from the start, `EP!MeansInv` from the first
evaluation on, that the tree evaluated is the one parsed (`OwnedTree`: `into_owned` makes the same
tree), and what the host was told. A step of a component is proved by its own step lemma;
what remains are the steps that hand over. `AcceptedIffAcceptable` connects the verdict to the
contract's notion of an acceptable text through `VerdictIsFirstCause`. `LimitsBoundEvaluation` combines both
components: the pipeline has checked every node against the limits, and the calls are a path of the tree.
In the refinement, `EvaluatingEvaluates` takes an evaluation's step to one of `ResolverContract` by the
evaluator's refinement (`KeepsContract`), and the others are the contract's `Parse`, `CallAgain`
or stutters.

*Arithmetic.* `RestOfDivision` and `QuotientFits` are about truncated division: its rest has the sign
of the dividend, and only the least integer divided by -1 leaves the width. `FloorBrackets` and
`RoundBrackets` place the multiple the code computes around the value. That an operation succeeds
exactly when its multiple fits (`FloorFits`, `CeilingFits`, `RoundFits`) has two directions: the result is
itself a multiple on that side; and if the code's multiple does not fit, any that did would be at
least the precision away from it (`MultiplesApart`, `NextMultiple`) and so on the wrong side. The state invariant,
`AnswersCall`, is only that the outcome is one of the call.

*Bits.* `BitsOf` takes an integer to the set of its bits and `IntsOfBits` a set of positions to the
integers that have it. `BitFacts` and `SignBit` say what a bit is and that the top one is the sign;
`BitwiseSums` is the induction: if the bits of three integers relate at each position as in
`x + y = z + w` below position k, so do their low parts, so the laws of `|`, `^` and `~` (`OrSums`,
`XorSums`, `NotSums`) follow from truth tables of single bits. `LeftMoves` and `RightMoves` place the
shifts, overflow and sign included, by `PowersMultiply`. `PowersOfTwo` is that the function
`PowerOfTwo` exists, proved by hand.

*C API.* Added to the type invariant and `NothingLost` are `Stacked` (every call but the innermost
is in its callback, what a call stored is what its callback's last answer makes of it, and only
calls with good arguments and a callback ever ask) and `Quiet` (the outputs of the call that runs
are as it made them on entry, but for what its callback left in `out_error`). `Quiet` is what makes an early OK or a caught panic agree with the outputs: it is
established by clearing on entry and again when a callback returns. Where an error is written the variable
may own an object, so `NothingLost` needs to know that it is just the one that becomes `dropped`. The lemmas
`ClearFacts`, `TakeFacts`, `ReplaceFacts` and `DropFacts` say what the operations on a variable do to
ownership.

*Error objects.* The host's walk is a loop over diagnostics with one over tokens in it. Its
invariant says that `seen` is what the first `Len(seen)` indices read, and that of each the tokens are all,
or for the last one the first few; so at the end everything has been read (`WalkIsWhole`). What that
is follows from `ReportFacts`, which takes the n-th diagnostic of the core through `ErrorParts`, saturation
and the accessor. `SameCodeSameCause` is the injectivity of the codes.

*Token stream.* `StreamInv` gives every item its place: the p at which `Next` found it, where the text is not
skipped, with `items[i] = ItemAt(text, p)` and its slice inside what is consumed; items do not
overlap; and whatever is consumed and not skipped lies in the slice of an item. `OffsetFacts` and
`SliceBytes` take places to bytes, so that `SpansFollow` has the spans cover the bytes of those slices
and no others. `WordsAreWhole` (`WordsFollow`) has two parts. `WordsMean`: what starts with a letter is punctuation or a number
by no pattern (`LettersAreNoOther`, `WordsAreNoPunctuation`, `WordsAreNoNumbers`), so the priorities among the patterns that remain
decide, and no word has two reserved meanings (`ReservedOnce`). And were the text to go on behind a word as a name does, the items that touch it
would make a longer slice that is a token (`SliceFacts`, `IndexedName`), where the longest was taken. `SpacesBetweenTokensAreNeutral` (`SpacesFollow`) needs that no pattern
matches a blank (`TokensHaveNoBlanks`, pattern by pattern), so that a slice with a blank after it is
longest again (`SameSlice`), and an induction from the end of the spaced text. `LiteralsFollow` goes through the
callbacks: `SpelledFacts` is about the number digits spell and its last digit.

*Grammar.* A state holds the trees of the text, so the state invariant says little; the
work is about `Expression`. What a place derives comes from lighter places: shorter ranges, or a tighter level of the
same range. The order of places is well founded (`PlaceInduction`, an induction over a set of weights), so the function exists
(`DerivationsExist`), and each of what follows is an induction over it. The reader of
`ParsesOnceIffAlternating` knows nothing of precedence. `Spans` says that it reads a range as one operand, without an operator outside
the range's brackets that is looser than a level. What the grammar derives is spanned (`Sound`), rule by rule. Of a spanned range `IsRoot`
names one operator at most, and an operation the grammar derives is made there (`RootOf`): any other split would put
an operator in a side too tight for it. So two trees of a range agree at their root, and by induction
below it (`Unique`; for the arguments of a call the first comma outside brackets takes the root's place, `SplitOnce`). The other way around, a spanned range has a root and
both sides of it are spanned at the levels the rule asks for, or it has no operator outside brackets and is a term (`Complete`). With the whole
text for a range this is `ParseCount`. `RootLoosest` is `RootOf` with the levels turned into ranks. For the shape of the trees,
`Forest` says of a sequence of nodes that each has the children its kind takes; placing forests side by side (`JoinForests`) or below a
node (`TreeForest`) keeps it; and `KidsPreorder` is that the children counted by depth are those `Ast` numbers.

*Interactive loop.* `EveryLineUntilExit` says how the three texts (evaluated, in hand, unread) make up what was typed,
and that each evaluated one is a line. To be inductive it needs that the input is one line while it is
read, complete once it is to be decided on (`ReadsLines`), and that only the last evaluated line may lack
its newline, when there is nothing more to come (`OnlyTheLastIsCut`). `ExitIsSaid` is that trimming and
comparing finds just the lines that say exit; `FlattenAppend`, that `FlattenSeq` of one more line has it appended.

Assumptions, all named and evaluated by TLC in the runs: `InputsAssumption` (token kinds, the
parser's trees have the shape the Rust types impose and are clean when there is no recovery),
`OptionsAssumption` (limits are naturals), `ExpressionsAssumption` (trees are clean and carry the
payload of their variant; float literals are numbers, as `parse_float` ensures),
`ResolverErrorsAssumption` (naming), `BitsAssumption`, `MaxExponentAssumption`,
`CallsAssumption` (operators get as many operands as they take), `PointersAssumption` (null and
dangling pointers are no boxes or variables), `CodesAssumption` (naming); in `CoreApi`,
`ParserAssumption` and `EvalAssumption`, which are those of the two components, about the trees of the
texts that parse without errors, `TreesAssumption` (a tree is a record, which TLA+ does not know
of a value without type) and `MaxEvaluationsAssumption`; in `FloatInt`, `FormatAssumption` (the significand is
shorter than the integers, a unit is a fraction of 1 that is a power of two, and the integers end
before the floats) and its own `CallsAssumption` (numbers are `i64`s and `f64`s, and each operator has
its operands); in `FfiErrors`, `FailuresAssumption` (what the core returns
has the shape of its types, spans start before they end, a failed parse has a diagnostic),
`NullAssumption` (a pointer to an object is not null), `MaxI32Assumption` and `IndicesAssumption` (an index is an
`int32_t`); in `Lexer`, `TextsAssumption` (a text is a sequence), `OrdersAssumption` (floats end above where normal
ones begin, and those above where they round to zero) and `NoneErrorAssumption`; in `Grammar`, its own `TextsAssumption` (a text is
a sequence of the grammar's tokens); in `Repl`, `PiecesAssumption`.

The invariants the proofs use, `Inv`, `IInv`, `MeansInv`, `StreamInv`, `LoopInv` and the one of the walk, were model-checked on
the instances of section 3 before they were proved.

Induction. The library's induction theorems take an operator as a parameter, which the provers
cannot instantiate. Induction over a set needs none: `SetInduction` and `NodeInduction` say that a set of
numbers, or of nodes, that has the base and is closed under the step has everything. A recursive
function is a choice of one that satisfies its equation; that there is one is proved by such an
induction (`PowersExist`, `IteratesExist`, `DerivationsExist`, `ReadingsExist`, and the meaning of trees), and then the equation may be used.

Only model-checked: liveness (`ExitEnds`), which needs fairness and ENABLED. Every invariant, action property and refinement that a passing run checks is stated by a theorem.

## 5. Findings

- `ceiling_doc`: the doc of `ceiling_i64` (`eval.rs` 1095) names as the cause of overflow that
  adding the precision to the floored base overflows. The function also fails when flooring
  itself overflows (`eval.rs` 1103), for a value near the minimum whose ceiling is representable.
- `out_error_doc`: the header says of every `_ex` function that `*out_error` is null on success
  (`shunting_yard_ffi.h` 256 and four more). It is cleared on entry only (`shunting-yard-ffi/src/lib.rs` 1730 and the other
  calls of `clear_optional_error`): an error object that a callback gets there with a failing call of its own
  is still there when the outer call returns `SHY_STATUS_OK`, and a host that takes the header at its word loses it.

Also met while modelling, without a run of their own:

- `ast.rs` 10-12 says lexer errors are forwarded to the parser and become part of the tree.
  `parse_tokens_with_options_detailed` returns at the first `Token::Error` (`lib.rs` 832), so no tree with a
  `LexicalError` node is ever built by the public API (`VerdictIsFirstCause` has the error as the verdict).
- `src/README.md` 7 says whitespace has no effect; the skip pattern (`tokens.rs` 105) leaves out the
  carriage return, which lexes as an unknown symbol. In `Lexer` it is in no `Skipped`; in `Repl` a line
  that ends in one is still an exit line, because `trim` does remove it.
- `prop_variable_names_lex_as_variables` (`tokens.rs` 508) asserts of every generated name that it is
  a variable; function names, `true`, `false` and `NaN` are not, so it passes only while none is generated.
- `lib.rs` 572 and 625 say `evaluate` and `evaluate_with` return `ParserError` for a text that is not
  valid; a recovered one gives `ParserRecovery`, a lexical error `LexicalError`, as the tests expect.
- `ceiling_f64` (`eval.rs` 1121) rounds `value / precision` up; if that underflows to zero (a positive value below about
  `precision` times 2.5e-324) the result is 0, which is below the value. `RoundedIsTheMultiple` leaves such values out.
- `shunting-yard-ffi/src/lib.rs` 20 calls `SHY_STATUS_PANIC` a caught panic; a callback that returns
  the code 4 has it passed through with stage RESOLVER (255).

## 6. Not modelled

- The matcher Logos generates and the tables LALRPOP generates: generated code, modelled by the rule
  and the grammar they are generated from.
- Float arithmetic proper (sums, products, transcendental functions, `round` of the `roundable` crate):
  the result of an operation is any of the classes it can have. `ApproximatelyEquals` likewise.
- The native stack itself: what is bounded is the depth of the recursion.
- The texts of messages, `Display`, the contents of names.
- In the C API: the values in `ShyEvalOptions` and `ShyValue` that cross the boundary (their acceptance
  and conversion is one of the outcomes of a call in `ShyFfi`); hosts that break the header's rules.
- C header, C tests, examples, fuzz targets (one stateless call of `evaluate`), CI, packaging: no state.

## 7. Order of work, and what is left

1. `Ast`, `ParsePipeline` and its proofs; `Values`, `IntArith`, `EvalOps`, `OpLaws`; `ResolverContract`,
   `Evaluator` and its proofs; `ShyFfi` and its proofs.
2. `Lexer`, `Grammar`, `CoreApi` with `ApiContract`, `FfiErrors`, `FloatInt`, `Repl`.
3. `EvaluatorProofs!ReturnsMeaning`, `BitsAreLawful`, `CoreApiProofs`, the theorems about `FfiErrors`, `OrderIsKept` and
   `ExtremesAreNearest`.
4. `InputProofs`, for which texts became sequences of characters in `Lexer`, and `RoundedAreMultiples`.
5. `GrammarProofs`, for which the levels of `Grammar` became one recursive function; the theorems about the C API in
   one module, `CApiProofs`.
6. Left: a model of the values that cross the C boundary.
