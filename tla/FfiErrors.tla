----------------------------- MODULE FfiErrors -----------------------------
(***************************************************************************)
(* What a failed call tells the host (crates/shunting-yard-ffi/src/lib.rs  *)
(* and the diagnostics of crates/shunting-yard/src/lib.rs): the core's     *)
(* error becomes ErrorParts, the ErrorParts a ShyError in 32-bit signed    *)
(* fields, and the host reads the ShyError back through the accessors, one *)
(* number at a time, as the header invites it to: the fields, the          *)
(* diagnostics by index, the expected tokens of each by a second index.    *)
(*                                                                         *)
(* The behaviour is one failed call and one host walking its error object. *)
(* Messages are left out.  The LALRPOP parser is external: any of its      *)
(* errors may come, alone or from recoveries.                              *)
(***************************************************************************)
EXTENDS Integers, Sequences, FiniteSets

CONSTANTS
    MaxI32,          \* i32::MAX
    NullPointer,     \* the null pointer
    Failures,        \* what the calls in question fail with
    Indices          \* indices a host may try, bounded by MaxI32 only

ASSUME MaxI32Assumption == MaxI32 \in Nat \ {0}
ASSUME IndicesAssumption == Indices \subseteq -(MaxI32 + 1) .. MaxI32

NoSpan == <<>>
Span(start, end) == <<start, end>>

-----------------------------------------------------------------------------
(* The core's diagnostics.                                                 *)

\* ParseDiagnosticKind, with the tokens it lists; a Recovery has a cause.
Kind(name, expected) == [name |-> name, expected |-> expected]

\* parse_error_to_diagnostic: a location is an empty span.  The texts of the
\* tokens are left out.
ParseErrorToDiagnostic(error) ==
    [span |-> CASE error.is \in {"InvalidToken", "UnrecognizedEof"} ->
                       Span(error.location, error.location)
                [] error.is \in {"UnrecognizedToken", "ExtraToken"} -> error.token
                [] OTHER -> NoSpan,
     kind |-> Kind(error.is,
                   IF error.is \in {"UnrecognizedEof", "UnrecognizedToken"} THEN error.expected
                   ELSE <<>>)]

\* recovery_to_diagnostic.
RecoveryToDiagnostic(error) ==
    LET cause == ParseErrorToDiagnostic(error)
    IN  [span |-> cause.span, kind |-> [name |-> "Recovery", cause |-> cause.kind]]

\* lalrpop_util::ParseError, as the parser fills it in: offsets into the text,
\* and the descriptions of the tokens that could have come.
IsRange(span) == \E start, end \in {span[1], span[2]} :
                   span = Span(start, end) /\ start \in Nat /\ end \in Nat /\ start =< end

IsParseError(e) ==
    /\ e.is \in {"InvalidToken", "UnrecognizedEof", "UnrecognizedToken", "ExtraToken", "User"}
    /\ e.is \in {"InvalidToken", "UnrecognizedEof"} => e.location \in Nat
    /\ e.is \in {"UnrecognizedToken", "ExtraToken"} => IsRange(e.token)
    /\ e.is \in {"UnrecognizedEof", "UnrecognizedToken"} => e.expected \in Seq(STRING)

\* What the parser leaves: a single hard error, or one recovery or more.
CoreDiagnostics(failure) ==
    [n \in DOMAIN failure.errors |->
        IF failure.hard THEN ParseErrorToDiagnostic(failure.errors[n])
        ELSE RecoveryToDiagnostic(failure.errors[n])]

IsRecovery(diagnostic) == diagnostic.kind.name = "Recovery"

-----------------------------------------------------------------------------
(* Into 32 bits.                                                           *)

\* Mutant: `as i32`.
WrapToI32(value) ==
    LET low == value % (2 * (MaxI32 + 1)) IN IF low > MaxI32 THEN low - 2 * (MaxI32 + 1) ELSE low

UsizeToI32Saturating(value) == IF value > MaxI32 THEN MaxI32 ELSE value

SaturatedSpan(span) ==
    IF span = NoSpan THEN NoSpan
    ELSE Span(UsizeToI32Saturating(span[1]), UsizeToI32Saturating(span[2]))

DiagnosticKindOf == [InvalidToken |-> 1, UnrecognizedEof |-> 2, UnrecognizedToken |-> 3,
                     ExtraToken |-> 4, User |-> 5, Recovery |-> 6]

\* Mutant: only the kinds that list tokens themselves.
NotOfTheCause(kind) == IF kind.name = "Recovery" THEN <<>> ELSE kind.expected

\* A Recovery shows what its cause expected.
ExpectedTokens(kind) == IF kind.name = "Recovery" THEN kind.cause.expected ELSE kind.expected

FfiDiagnostic(diagnostic) ==
    [kind |-> DiagnosticKindOf[diagnostic.kind.name],
     span |-> SaturatedSpan(diagnostic.span),
     expected_tokens |-> ExpectedTokens(diagnostic.kind)]

-----------------------------------------------------------------------------
(* ErrorParts.                                                             *)

ErrorParts(status, stage, code, span, diagnostics) ==
    [status |-> status, stage |-> stage, code |-> code, span |-> span,
     diagnostics |-> diagnostics]

InputErrorParts(status) ==
    ErrorParts(status, "INPUT",
          CASE status = "NULL_POINTER" -> 1
            [] status = "INVALID_UTF8" -> 2
            [] OTHER -> 700,
          NoSpan, <<>>)

PanicErrorParts == ErrorParts("PANIC", "PANIC", 3, NoSpan, <<>>)
ResolverErrorParts(status) == ErrorParts(status, "RESOLVER", 500, NoSpan, <<>>)
InvalidValueErrorParts == ErrorParts("INVALID_VALUE", "INVALID_VALUE", 600, NoSpan, <<>>)

LimitCode == [InputTooLarge |-> 301, TooManyTokens |-> 302, AstTooLarge |-> 303,
              ExpressionTooDeep |-> 304, TooManyFunctionArguments |-> 305,
              TooManyParserRecoveries |-> 306]

ResourceLimitErrorParts(limit) ==
    ErrorParts("EVALUATION_ERROR", "RESOURCE_LIMIT", LimitCode[limit], NoSpan, <<>>)

LexicalErrorParts(span) == ErrorParts("EVALUATION_ERROR", "LEXICAL", 100, span, <<>>)

First(positions) == CHOOSE n \in positions : \A m \in positions : n =< m

\* Mutant: of the first diagnostic, whether it has one or not.
SpanOfTheFirst(diagnostics) == IF diagnostics = <<>> THEN NoSpan ELSE diagnostics[1].span

\* find_map: of the first diagnostic that has one.
FirstSpan(diagnostics) ==
    LET known == {n \in DOMAIN diagnostics : diagnostics[n].span # NoSpan}
    IN  IF known = {} THEN NoSpan ELSE diagnostics[First(known)].span

\* Mutant: every diagnostic is taken for a recovery.
AllCounted(diagnostics) == Len(diagnostics)

RecoveryCount(diagnostics) ==
    Cardinality({n \in DOMAIN diagnostics : IsRecovery(diagnostics[n])})

ParseErrorParts(diagnostics) ==
    ErrorParts("EVALUATION_ERROR", "PARSE", IF RecoveryCount(diagnostics) > 0 THEN 201 ELSE 200,
          FirstSpan(diagnostics),
          [n \in DOMAIN diagnostics |-> FfiDiagnostic(diagnostics[n])])

EvalCode == [InvalidArity |-> 401, InvalidType |-> 402, DivisionByZero |-> 403,
             IntegerOverflow |-> 404, InvalidShiftCount |-> 405, InvalidExponent |-> 406,
             InvalidPrecision |-> 407, NonFiniteFloat |-> 408, SubnormalFloat |-> 409,
             UnexpectedOpcode |-> 410, UnknownVariable |-> 411, InvalidExpression |-> 412]

\* eval_error_parts; the core never wraps an error of the parse in Error::Eval
\* and the resolvers of the C API return none, so those arms are left out.
EvalErrorParts(kind) ==
    ErrorParts("EVALUATION_ERROR", "EVALUATION", EvalCode[kind], NoSpan, <<>>)

\* error_parts_from_core_error, what the argument checks and the panic guard
\* report, and what the resolver stored.
PartsOf(failure) ==
    CASE failure.variant = "ResourceLimit" -> ResourceLimitErrorParts(failure.kind)
      [] failure.variant = "Lexical" -> LexicalErrorParts(failure.span)
      [] failure.variant = "Parse" -> ParseErrorParts(CoreDiagnostics(failure))
      [] failure.variant = "Eval" -> EvalErrorParts(failure.kind)
      [] failure.variant = "input" -> InputErrorParts(failure.kind)
      [] failure.variant = "panic" -> PanicErrorParts
      [] failure.variant = "callback" -> ResolverErrorParts(failure.kind)
      [] failure.variant = "value" -> InvalidValueErrorParts

\* The statuses a callback can fail with: all but SHY_STATUS_OK.
FailedStatuses == {"NULL_POINTER", "INVALID_UTF8", "EVALUATION_ERROR", "PANIC",
                   "RESOLVER_ERROR", "INVALID_VALUE", "INVALID_OPTIONS"}

\* What a call may fail with.
IsFailure(f) ==
    \/ f.variant = "ResourceLimit" /\ f.kind \in DOMAIN LimitCode
    \/ f.variant = "Lexical" /\ IsRange(f.span)
    \/ /\ f.variant = "Parse"
       /\ f.hard \in BOOLEAN /\ (f.hard => Len(f.errors) = 1)
       /\ Len(f.errors) \in Nat \ {0} /\ DOMAIN f.errors = 1 .. Len(f.errors)
       /\ \A n \in DOMAIN f.errors : IsParseError(f.errors[n])
    \/ f.variant = "Eval" /\ f.kind \in DOMAIN EvalCode
    \/ f.variant = "input" /\ f.kind \in {"NULL_POINTER", "INVALID_UTF8", "INVALID_OPTIONS"}
    \/ f.variant = "callback" /\ f.kind \in FailedStatuses
    \/ f.variant \in {"panic", "value"}

ASSUME FailuresAssumption == \A f \in Failures : IsFailure(f)

\* ErrorParts::into_ffi_error.
IntoFfiError(parts) ==
    LET span == SaturatedSpan(parts.span)
    IN  [status |-> parts.status, stage |-> parts.stage, code |-> parts.code,
         has_span |-> IF span = NoSpan THEN 0 ELSE 1,
         span_start |-> IF span = NoSpan THEN -1 ELSE span[1],
         span_end |-> IF span = NoSpan THEN -1 ELSE span[2],
         diagnostic_count |-> UsizeToI32Saturating(Len(parts.diagnostics)),
         diagnostics |-> parts.diagnostics]

\* The null pointer points to no error and to no string.
ASSUME NullAssumption ==
    NullPointer \notin STRING /\ \A f \in Failures : IntoFfiError(PartsOf(f)) # NullPointer

-----------------------------------------------------------------------------
(* The accessors.                                                          *)

\* shy_error_status .. shy_error_diagnostic_count, of any pointer.
Fields(error) ==
    IF error = NullPointer
    THEN [status |-> "NULL_POINTER", stage |-> "NONE", code |-> 1, has_span |-> 0,
          span_start |-> -1, span_end |-> -1, diagnostic_count |-> 0]
    ELSE [status |-> error.status, stage |-> error.stage, code |-> error.code,
          has_span |-> error.has_span, span_start |-> error.span_start,
          span_end |-> error.span_end, diagnostic_count |-> error.diagnostic_count]

\* index >= 0, and list.get(index as usize) is Some.
Readable(list, index) == index + 1 \in DOMAIN list

\* with_diagnostic: the accessors of one diagnostic, or their defaults.
DiagnosticAt(error, index) ==
    IF error = NullPointer \/ ~Readable(error.diagnostics, index)
    THEN [kind |-> 0, has_span |-> 0, span_start |-> -1, span_end |-> -1, expected_count |-> 0]
    ELSE LET d == error.diagnostics[index + 1]
         IN  [kind |-> d.kind,
              has_span |-> IF d.span = NoSpan THEN 0 ELSE 1,
              span_start |-> IF d.span = NoSpan THEN -1 ELSE d.span[1],
              span_end |-> IF d.span = NoSpan THEN -1 ELSE d.span[2],
              expected_count |-> UsizeToI32Saturating(Len(d.expected_tokens))]

ExpectedTokenAt(error, index, expected_index) ==
    IF \/ error = NullPointer
       \/ ~Readable(error.diagnostics, index)
       \/ ~Readable(error.diagnostics[index + 1].expected_tokens, expected_index)
    THEN NullPointer
    ELSE error.diagnostics[index + 1].expected_tokens[expected_index + 1]

-----------------------------------------------------------------------------
(* A failed call, and the host's walk over what it left.                   *)

VARIABLES
    pc,          \* "call", "head", "diagnostic", "expected", "free", "done"
    failure,     \* what the call fails with
    error,       \* the host's ShyError *
    head,        \* what the host read of the error,
    seen,        \* of its diagnostics so far,
    tokens       \* and of the expected tokens of each

walkVars == <<pc, failure, error, head, seen, tokens>>

WalkInit ==
    /\ pc = "call"
    /\ failure \in Failures
    /\ error = NullPointer
    /\ head = Fields(NullPointer)
    /\ seen = <<>>
    /\ tokens = <<>>

\* failure_from_parts, and write_optional_error of a host that wants it.
FailureFromParts ==
    /\ pc = "call"
    /\ error' = IntoFfiError(PartsOf(failure))
    /\ pc' = "head"
    /\ UNCHANGED <<failure, head, seen, tokens>>

ReadHead ==
    /\ pc = "head"
    /\ head' = Fields(error)
    /\ pc' = "diagnostic"
    /\ UNCHANGED <<failure, error, seen, tokens>>

\* for (i = 0; i < shy_error_diagnostic_count(error); i++)
ReadDiagnostic ==
    /\ pc = "diagnostic"
    /\ Len(seen) < head.diagnostic_count
    /\ seen' = Append(seen, DiagnosticAt(error, Len(seen)))
    /\ tokens' = Append(tokens, <<>>)
    /\ pc' = "expected"
    /\ UNCHANGED <<failure, error, head>>

\* for (j = 0; j < shy_error_diagnostic_expected_count(error, i); j++)
ReadExpected ==
    LET i == Len(seen)
    IN  /\ pc = "expected"
        /\ Len(tokens[i]) < seen[i].expected_count
        /\ tokens' = [tokens EXCEPT ![i] = Append(@, ExpectedTokenAt(error, i - 1, Len(@)))]
        /\ UNCHANGED <<pc, failure, error, head, seen>>

NextDiagnostic ==
    /\ pc = "expected"
    /\ Len(tokens[Len(seen)]) = seen[Len(seen)].expected_count
    /\ pc' = "diagnostic"
    /\ UNCHANGED <<failure, error, head, seen, tokens>>

EndOfWalk ==
    /\ pc = "diagnostic"
    /\ Len(seen) = head.diagnostic_count
    /\ pc' = "free"
    /\ UNCHANGED <<failure, error, head, seen, tokens>>

\* shy_error_free; the host resets its pointer.
Free ==
    /\ pc = "free"
    /\ error' = NullPointer
    /\ pc' = "done"
    /\ UNCHANGED <<failure, head, seen, tokens>>

WalkNext ==
    \/ FailureFromParts
    \/ ReadHead \/ ReadDiagnostic \/ ReadExpected \/ NextDiagnostic \/ EndOfWalk
    \/ Free

WalkSpec == WalkInit /\ [][WalkNext]_walkVars

-----------------------------------------------------------------------------
(* Properties.                                                             *)

WalkDone == pc \in {"free", "done"}

\* The nearest int32_t of a count or an offset.
Clipped(n) == IF n > MaxI32 THEN MaxI32 ELSE n

\* What the parser reported for one diagnostic is what the host read: where, as
\* far as an int32_t tells, and which tokens would have been right.
Tells(read, expected, reported) ==
    /\ reported.is = "User" <=> read.has_span = 0
    /\ reported.is \in {"InvalidToken", "UnrecognizedEof"} =>
          /\ read.span_start = Clipped(reported.location)
          /\ read.span_end = Clipped(reported.location)
    /\ reported.is \in {"UnrecognizedToken", "ExtraToken"} =>
          /\ read.span_start = Clipped(reported.token[1])
          /\ read.span_end = Clipped(reported.token[2])
    /\ reported.is \in {"UnrecognizedEof", "UnrecognizedToken"} =>
          expected = SubSeq(reported.expected, 1, Clipped(Len(reported.expected)))
    /\ reported.is \in {"InvalidToken", "ExtraToken", "User"} => expected = <<>>

\* A host that walks an error object by its counts finds every diagnostic the
\* parser reported (as many as an i32 counts), in order, each with its own
\* place and with every token that was expected there, also when the parser
\* recovered from it; and no diagnostic of any other failure.  (From
\* parse_error_to_diagnostic to shy_error_diagnostic_expected_token.)
WalkFindsEveryDiagnostic ==
    WalkDone =>
      IF failure.variant = "Parse"
      THEN /\ Len(seen) = Clipped(Len(failure.errors))
           /\ \A i \in DOMAIN seen : Tells(seen[i], tokens[i], failure.errors[i])
           /\ \A i \in DOMAIN seen :
                 seen[i].kind = IF failure.hard THEN DiagnosticKindOf[failure.errors[i].is] ELSE 6
      ELSE seen = <<>>

\* -1, -1 and 0 together, or an interval of offsets and 1.
SaneSpan(read) ==
    \/ read.has_span = 0 /\ read.span_start = -1 /\ read.span_end = -1
    \/ read.has_span = 1 /\ 0 =< read.span_start /\ read.span_start =< read.span_end

\* Every span the host reads is a range, also of a text longer than an i32 can
\* index; and the span of a parse error is the one of the first diagnostic that
\* has a span, so the error has none only if no diagnostic has.
\* (usize_to_i32_saturating, ErrorParts::into_ffi_error, parse_error_parts.)
SpansAgree ==
    /\ SaneSpan(head)
    /\ \A i \in DOMAIN seen : SaneSpan(seen[i])
    /\ WalkDone /\ failure.variant = "Parse" /\ Len(seen) = Len(failure.errors) =>
          LET placed == {i \in DOMAIN seen : seen[i].has_span = 1}
          IN  IF placed = {} THEN head.has_span = 0
              ELSE /\ head.has_span = 1
                   /\ head.span_start = seen[First(placed)].span_start
                   /\ head.span_end = seen[First(placed)].span_end

\* What a host switches on: the failures of one cause.
Cause(f) ==
    CASE f.variant \in {"ResourceLimit", "Eval", "input"} -> <<f.variant, f.kind>>
      [] f.variant = "Parse" -> <<f.variant, f.hard>>
      [] OTHER -> <<f.variant>>

HundredsOf(stage) ==
    CASE stage \in {"INPUT", "PANIC"} -> {0, 7}
      [] stage = "LEXICAL" -> {1}
      [] stage = "PARSE" -> {2}
      [] stage = "RESOURCE_LIMIT" -> {3}
      [] stage = "EVALUATION" -> {4}
      [] stage = "RESOLVER" -> {5}
      [] stage = "INVALID_VALUE" -> {6}

\* The code of an error is the cause of the failure: two failures share a code
\* exactly when they have the same cause, whatever text, limit or variable
\* they come from, and the hundreds of the code are the stage, as the header
\* groups them.  (The code functions and SHY_ERROR_CODE_*.)
CodeIsTheCause ==
    WalkDone =>
      /\ head.code \div 100 \in HundredsOf(head.stage)
      /\ \A other \in Failures :
            PartsOf(other).code = head.code <=> Cause(other) = Cause(failure)

DefaultDiagnostic(read) ==
    read = [kind |-> 0, has_span |-> 0, span_start |-> -1, span_end |-> -1, expected_count |-> 0]

\* An index is good for something exactly if it is below the count, for
\* diagnostics and for the tokens in one, at any time of the walk and after
\* the object is gone; all others, negative ones included, read as defaults.
\* (Lists an i32 cannot count are left out: their last elements are read past
\* the count.)
CountsAreTheIndices ==
    LET count == Fields(error).diagnostic_count
    IN  \A i \in Indices :
          /\ count < MaxI32 =>
                (i \in 0 .. count - 1 <=> ~DefaultDiagnostic(DiagnosticAt(error, i)))
          /\ \A j \in Indices :
                DiagnosticAt(error, i).expected_count < MaxI32 =>
                  (j \in 0 .. DiagnosticAt(error, i).expected_count - 1
                     <=> ExpectedTokenAt(error, i, j) # NullPointer)
=============================================================================
