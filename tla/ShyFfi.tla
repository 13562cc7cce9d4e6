------------------------------- MODULE ShyFfi -------------------------------
(***************************************************************************)
(* The C API (crates/shunting-yard-ffi/src/lib.rs): the entry points that  *)
(* parse and evaluate, with their out parameters, the error objects and    *)
(* parsed handles they allocate for the host, and the callback that        *)
(* resolves variables, from inside which the host may call the API again.  *)
(*                                                                         *)
(* One thread; the active calls are a stack.  Of the core library only the *)
(* result is kept: a value, an error and its stage, and before them any    *)
(* number of calls of the resolver, none after one that failed (which is   *)
(* what ResolverContract promises).                                        *)
(***************************************************************************)
EXTENDS Naturals, Sequences, FiniteSets

CONSTANTS
    ErrorSlots,      \* the host's ShyError * variables
    HandleSlots,     \* the host's ShyParsedExpression * variables
    ErrorBoxes,      \* addresses for error objects
    HandleBoxes,     \* addresses for parsed expressions
    Null,            \* the null pointer
    Garbage,         \* any other pointer to no object: not initialized, freed
    Codes,           \* status codes callbacks return, among them "other" ones
    MaxCalls,        \* bound: how deep calls nest through callbacks
    MaxDropped       \* bound: how many error objects a careless host loses

ASSUME PointersAssumption ==
    /\ Null # Garbage
    /\ {Null, Garbage} \cap (ErrorBoxes \cup HandleBoxes \cup ErrorSlots \cup HandleSlots) = {}

\* "other" is any int that is no status.
ASSUME CodesAssumption == "none" \notin Codes

Statuses == {"OK", "NULL_POINTER", "INVALID_UTF8", "EVALUATION_ERROR", "PANIC",
             "RESOLVER_ERROR", "INVALID_VALUE", "INVALID_OPTIONS"}

Stages == {"INPUT", "LEXICAL", "PARSE", "RESOURCE_LIMIT", "EVALUATION", "RESOLVER",
           "PANIC", "INVALID_VALUE"}

\* ErrorParts, and the ShyError made of them: status and stage.
Parts(status, stage) == [status |-> status, stage |-> stage]
NoParts == Parts("OK", "NONE")
AllParts == [status : Statuses \ {"OK"}, stage : Stages]

PanicError == Parts("PANIC", "PANIC")
ResolverError(status) == Parts(status, "RESOLVER")
InvalidValueError == Parts("INVALID_VALUE", "INVALID_VALUE")

ParseErrors == {Parts("EVALUATION_ERROR", stage) :
                    stage \in {"LEXICAL", "PARSE", "RESOURCE_LIMIT"}}
EvalErrors == {Parts("EVALUATION_ERROR", "EVALUATION")}

\* An _ex function: what it does, what it reads, and whether it takes options
\* and a resolver.  All go the same way: clear the outputs, test the pointers,
\* convert the options, read the text, call the core, write the value, the
\* handle or the error.
Entry(op, from, options, callback) ==
    [op |-> op, from |-> from, options |-> options, callback |-> callback, reports |-> TRUE]

\* A status-only function calls the _ex function with a null out_error.
StatusOnly(entry) ==
    [op |-> entry.op, from |-> entry.from, options |-> entry.options,
     callback |-> entry.callback, reports |-> FALSE]

ParseExpressionEx == Entry("parse", "text", FALSE, FALSE)
ParseExpression == StatusOnly(ParseExpressionEx)
ParseExpressionWithOptionsEx == Entry("parse", "text", TRUE, FALSE)
ParseExpressionWithOptions == StatusOnly(ParseExpressionWithOptionsEx)
EvaluateNoVarsEx == Entry("evaluate", "text", FALSE, FALSE)
EvaluateNoVars == StatusOnly(EvaluateNoVarsEx)
EvaluateNoVarsWithOptionsEx == Entry("evaluate", "text", TRUE, FALSE)
EvaluateNoVarsWithOptions == StatusOnly(EvaluateNoVarsWithOptionsEx)
EvaluateWithCallbackEx == Entry("evaluate", "text", FALSE, TRUE)
EvaluateWithCallback == StatusOnly(EvaluateWithCallbackEx)
EvaluateWithCallbackWithOptionsEx == Entry("evaluate", "text", TRUE, TRUE)
EvaluateWithCallbackWithOptions == StatusOnly(EvaluateWithCallbackWithOptionsEx)
EvaluateParsedNoVarsEx == Entry("evaluate", "handle", FALSE, FALSE)
EvaluateParsedNoVars == StatusOnly(EvaluateParsedNoVarsEx)
EvaluateParsedWithCallbackEx == Entry("evaluate", "handle", FALSE, TRUE)
EvaluateParsedWithCallback == StatusOnly(EvaluateParsedWithCallbackEx)

ExEntries ==
    {ParseExpressionEx, ParseExpressionWithOptionsEx,
     EvaluateNoVarsEx, EvaluateNoVarsWithOptionsEx,
     EvaluateWithCallbackEx, EvaluateWithCallbackWithOptionsEx,
     EvaluateParsedNoVarsEx, EvaluateParsedWithCallbackEx}

StatusOnlyEntries ==
    {ParseExpression, ParseExpressionWithOptions,
     EvaluateNoVars, EvaluateNoVarsWithOptions,
     EvaluateWithCallback, EvaluateWithCallbackWithOptions,
     EvaluateParsedNoVars, EvaluateParsedWithCallback}

Entries == ExEntries \cup StatusOnlyEntries

VARIABLES
    calls,        \* the active calls
    errors,       \* the error object in each box, NoParts in a free one
    handles,      \* the boxes that hold a parsed expression
    errorSlot,    \* the contents of the host's error pointers
    handleSlot,   \* and of its handle pointers
    dropped,      \* history: objects callbacks left where their call then failed
    returned      \* what the call that just returned returned, or "none"

vars == <<calls, errors, handles, errorSlot, handleSlot, dropped, returned>>

Top == calls[Len(calls)]
Callers == SubSeq(calls, 1, Len(calls) - 1)

\* What a callback returns: its status code, and whether the kind of the value
\* it wrote is known.
Answers == [code : Codes, known : BOOLEAN]
NotAsked == [code |-> "none", known |-> TRUE]

\* The arguments of a call; a parameter the entry point does not have is as
\* good as a valid one.
Arguments ==
    [entry : Entries,
     text : {Null, "not_utf8", "valid"},
     handle : HandleBoxes \cup {Null, "valid"},
     options : {Null, "invalid", "valid"},
     resolver : {Null, "valid"},
     out : HandleSlots \cup {Null, "value"},     \* out_expression or out_value
     out_error : ErrorSlots \cup {Null}]

\* last_answer and left are history, of the call while it runs: what its callback
\* last returned, and what it left in the call's own out_error.
Frame(args, phase, answer, parts, left) ==
    [args |-> args, phase |-> phase, last_answer |-> answer, last_error_parts |-> parts,
     left |-> left]

Frames ==
    [args : Arguments,
     phase : {"running", "callback"},
     last_answer : Answers \cup {NotAsked},
     last_error_parts : AllParts \cup {NoParts},
     left : ErrorBoxes \cup {Null, Garbage}]

TypeOK ==
    /\ calls \in Seq(Frames)
    /\ errors \in [ErrorBoxes -> AllParts \cup {NoParts}]
    /\ handles \in SUBSET HandleBoxes
    /\ errorSlot \in [ErrorSlots -> ErrorBoxes \cup {Null, Garbage}]
    /\ handleSlot \in [HandleSlots -> HandleBoxes \cup {Null, Garbage}]
    /\ dropped \in SUBSET ErrorBoxes
    /\ returned \in Statuses \cup {"none"}

Init ==
    /\ calls = <<>>
    /\ errors = [b \in ErrorBoxes |-> NoParts]
    /\ handles = {}
    /\ errorSlot \in [ErrorSlots -> {Null, Garbage}]
    /\ handleSlot = [s \in HandleSlots |-> Garbage]
    /\ dropped = {}
    /\ returned = "none"

-----------------------------------------------------------------------------
(* The host: between calls, or inside a callback.                          *)

HostRuns == calls # <<>> => Top.phase = "callback"

\* The first check of the arguments that fails: all pointers, then the
\* options, then the text.
InputFailure(a) ==
    IF Null \in {a.text, a.handle, a.options, a.resolver, a.out}
    THEN Parts("NULL_POINTER", "INPUT")
    ELSE IF a.options = "invalid" THEN Parts("INVALID_OPTIONS", "INPUT")
    ELSE IF a.text = "not_utf8" THEN Parts("INVALID_UTF8", "INPUT")
    ELSE NoParts

\* Mutant: nothing is written on entry.
NotCleared(slot, s) == slot

\* clear_optional_error, clear_parsed_expression_output.
Cleared(slot, s) == IF s = Null THEN slot ELSE [slot EXCEPT ![s] = Null]

\* What a host may pass: live handles, and variables that own no object any
\* more; an active call's out_error included.
MayPass(a) ==
    /\ a.entry.from # "text" => a.text = "valid"
    /\ IF a.entry.from = "handle" THEN a.handle \in handles \cup {Null} ELSE a.handle = "valid"
    /\ ~a.entry.options => a.options = "valid"
    /\ ~a.entry.callback => a.resolver = "valid"
    /\ ~a.entry.reports => a.out_error = Null
    /\ a.out \in IF a.entry.op = "parse" THEN HandleSlots \cup {Null} ELSE {"value", Null}
    /\ a.out \in HandleSlots => handleSlot[a.out] \notin HandleBoxes
    /\ a.out_error \in ErrorSlots => errorSlot[a.out_error] \notin ErrorBoxes

\* An entry point is called, and clears its outputs before anything else.
Call ==
    /\ HostRuns
    /\ Len(calls) < MaxCalls
    /\ \E a \in Arguments :
         /\ MayPass(a)
         /\ errorSlot' = Cleared(errorSlot, a.out_error)
         /\ handleSlot' = IF a.entry.op = "parse" THEN Cleared(handleSlot, a.out) ELSE handleSlot
         /\ calls' = Append(calls, Frame(a, "running", NotAsked, NoParts, Null))
    /\ returned' = "none"
    /\ UNCHANGED <<errors, handles, dropped>>

\* shy_error_free; the variable keeps the pointer, unless the host resets it.
FreeError ==
    /\ HostRuns
    /\ \E s \in ErrorSlots :
         /\ errorSlot[s] \in ErrorBoxes
         /\ errors' = [errors EXCEPT ![errorSlot[s]] = NoParts]
         /\ \E left \in {Garbage, Null} :
              errorSlot' = [errorSlot EXCEPT ![s] = left]
    /\ returned' = "none"
    /\ UNCHANGED <<calls, handles, handleSlot, dropped>>

\* shy_parsed_expression_free, of a handle no active call evaluates.
FreeHandle ==
    /\ HostRuns
    /\ \E s \in HandleSlots :
         /\ handleSlot[s] \in HandleBoxes
         /\ \A i \in DOMAIN calls : calls[i].args.handle # handleSlot[s]
         /\ handles' = handles \ {handleSlot[s]}
         /\ handleSlot' = [handleSlot EXCEPT ![s] = Garbage]
    /\ returned' = "none"
    /\ UNCHANGED <<calls, errors, errorSlot, dropped>>

-----------------------------------------------------------------------------
(* The entry points.                                                       *)

\* A call that has not returned and is not in its callback; the arguments are
\* good.
Running == calls # <<>> /\ Top.phase = "running"
Admitted == Running /\ InputFailure(Top.args) = NoParts

Return(status) == calls' = Callers /\ returned' = status

\* Mutant: the object is allocated before the null test.
AllocateFirst(s, parts) ==
    \E box \in ErrorBoxes :
        /\ errors[box] = NoParts
        /\ errors' = [errors EXCEPT ![box] = parts]
        /\ errorSlot' = IF s = Null THEN errorSlot ELSE [errorSlot EXCEPT ![s] = box]

WriteOptionalError(s, parts) ==
    \/ s = Null /\ UNCHANGED <<errors, errorSlot>>
    \/ /\ s # Null
       /\ \E box \in ErrorBoxes :
            /\ errors[box] = NoParts
            /\ errors' = [errors EXCEPT ![box] = parts]
            /\ errorSlot' = [errorSlot EXCEPT ![s] = box]

\* The pointer the callback left in out_error is overwritten, not freed.
Fail(parts) ==
    /\ WriteOptionalError(Top.args.out_error, parts)
    /\ dropped' = dropped \cup ({Top.left} \cap ErrorBoxes)
    /\ Return(parts.status)
    /\ UNCHANGED <<handles, handleSlot>>

RejectArguments ==
    /\ Running
    /\ InputFailure(Top.args) # NoParts
    /\ Fail(InputFailure(Top.args))

\* ffi_boundary_with_error: a panic anywhere in the call.
Panic ==
    /\ Running
    /\ Fail(PanicError)

\* The core evaluates a variable; never again after an answer it could not use.
Ask ==
    /\ Admitted
    /\ Top.args.entry.callback
    /\ Top.last_error_parts = NoParts
    /\ calls' = Append(Callers, Frame(Top.args, "callback", NotAsked, NoParts, Null))
    /\ returned' = "none"
    /\ UNCHANGED <<errors, handles, errorSlot, handleSlot, dropped>>

\* Mutant: a code that is no status is passed on.
AnyCode(code) == code

StatusFromCode(code) == IF code \in Statuses THEN code ELSE "RESOLVER_ERROR"

\* resolve_callback: what it stores when it does not return a value.
AnswerParts(answer) ==
    IF StatusFromCode(answer.code) # "OK" THEN ResolverError(StatusFromCode(answer.code))
    ELSE IF ~answer.known THEN InvalidValueError
    ELSE NoParts

Held(s) == IF s = Null THEN Null ELSE errorSlot[s]

\* A callback may have made calls with the out_error of the call it works for,
\* and leave there what they wrote.
CallbackReturns ==
    /\ calls # <<>>
    /\ Top.phase = "callback"
    /\ LET left == Held(Top.args.out_error)
       IN  /\ left \in ErrorBoxes => Cardinality(dropped) < MaxDropped
           /\ \E answer \in Answers :
                 calls' = Append(Callers,
                                 Frame(Top.args, "running", answer, AnswerParts(answer), left))
    /\ returned' = "none"
    /\ UNCHANGED <<errors, handles, errorSlot, handleSlot, dropped>>

\* The errors the core can return: of the parse as long as it has not asked
\* for a variable, of the evaluation if there is one.
CoreErrors(f) ==
    (IF f.args.entry.from = "text" /\ f.last_answer = NotAsked THEN ParseErrors ELSE {})
    \cup (IF f.args.entry.op = "evaluate" THEN EvalErrors ELSE {})

\* Mutant: the error of the core wins.
CoreErrorFirst(f, error) == error

\* What the callback did wrong says more than the error the core made of it.
FailureOf(f, error) == IF f.last_error_parts # NoParts THEN f.last_error_parts ELSE error

CoreFails ==
    /\ Admitted
    /\ \E error \in CoreErrors(Top) : Fail(FailureOf(Top, error))

ParseSucceeds ==
    /\ Admitted
    /\ Top.args.entry.op = "parse"
    /\ \E box \in HandleBoxes \ handles :
         /\ handles' = handles \cup {box}
         /\ handleSlot' = [handleSlot EXCEPT ![Top.args.out] = box]
    /\ Return("OK")
    /\ UNCHANGED <<errors, errorSlot, dropped>>

EvaluateSucceeds ==
    /\ Admitted
    /\ Top.args.entry.op = "evaluate"
    /\ Top.last_error_parts = NoParts
    /\ Return("OK")
    /\ UNCHANGED <<errors, handles, errorSlot, handleSlot, dropped>>

Next ==
    \/ Call \/ FreeError \/ FreeHandle
    \/ RejectArguments \/ Panic
    \/ Ask \/ CallbackReturns
    \/ CoreFails \/ ParseSucceeds \/ EvaluateSucceeds

Spec == Init /\ [][Next]_vars

-----------------------------------------------------------------------------
(* Properties.                                                             *)

Live == {b \in ErrorBoxes : errors[b] # NoParts}

\* The live objects are the ones the variables point to, and no two variables
\* point to the same.
Owned(live, slots, boxes, slot) ==
    /\ live = {slot[s] : s \in slots} \cap boxes
    /\ \A s, t \in slots : s # t /\ slot[s] = slot[t] => slot[s] \notin boxes

\* Nothing is shared, and nothing is lost but what callbacks left in their own
\* call's out_error before it failed: every other live error object, and every
\* handle, is in exactly one of the host's variables, and no variable points to
\* a box that is free or given up, whichever calls failed, were nested or had a
\* null out_error.
NothingLost ==
    /\ dropped \subseteq Live
    /\ Owned(Live \ dropped, ErrorSlots, ErrorBoxes, errorSlot)
    /\ Owned(handles, HandleSlots, HandleBoxes, handleSlot)

Returning == Len(calls') < Len(calls)

\* The status, the error object and the handle a call leaves behind agree: with
\* OK, out_error is null, or still what the call's last callback itself put
\* there, and a parse has a new handle; otherwise out_error has an error object
\* with that status, over whatever callbacks left there, and a parse a null
\* handle, even when the arguments were bad.
OutputsAgree ==
    LET a == Top.args
        slot == errorSlot'[a.out_error]
    IN  Returning =>
          /\ a.out_error # Null =>
                IF returned' = "OK" THEN slot = Top.left
                ELSE slot \in ErrorBoxes /\ errors'[slot].status = returned'
          /\ a.entry.op = "parse" /\ a.out # Null =>
                IF returned' = "OK" THEN handleSlot'[a.out] \in handles' \ handles
                ELSE handleSlot'[a.out] = Null

OutputsAlwaysAgree == [][OutputsAgree]_vars

\* What the header says of every _ex function: "If out_error is not NULL,
\* *out_error is set to NULL on success".  It is, but on entry.
OutErrorIsNullOnSuccess ==
    [][Returning /\ returned' = "OK" /\ Top.args.out_error # Null =>
           errorSlot'[Top.args.out_error] = Null]_vars

\* What the callback's last answer makes of the call, in the words of the
\* header: SHY_STATUS_OK only with a value.
Blamed(answer) == answer # NotAsked /\ (answer.code # "OK" \/ ~answer.known)

\* A callback that failed is what the call reports, with the callback's own
\* status if it is one, and nothing else is reported as the callback's; a panic
\* takes precedence over everything.
BlameIsRight ==
    LET answer == Top.last_answer
        object == errors'[errorSlot'[Top.args.out_error]]
    IN  Returning =>
          /\ Blamed(answer) =>
                returned' \in {"PANIC", IF answer.code = "OK" THEN "INVALID_VALUE"
                                        ELSE IF answer.code \in Statuses THEN answer.code
                                        ELSE "RESOLVER_ERROR"}
          /\ ~Blamed(answer) => returned' \notin {"RESOLVER_ERROR", "INVALID_VALUE"}
          /\ returned' # "OK" /\ Top.args.out_error # Null =>
                (object.stage \in {"RESOLVER", "INVALID_VALUE"} =>  Blamed(answer))
                /\ (Blamed(answer) => object.stage \in {"RESOLVER", "INVALID_VALUE", "PANIC"})

BlameIsAlwaysRight == [][BlameIsRight]_vars
=============================================================================
