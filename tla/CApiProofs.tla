---------------------------- MODULE CApiProofs ------------------------------
(***************************************************************************)
(* Proofs about the C API.                                                 *)
(*                                                                         *)
(* First ShyFfi: what a host's calls do to its variables, proved for any   *)
(* number of variables and boxes, any status codes and any depth of        *)
(* nesting.                                                                *)
(*                                                                         *)
(* Then FfiErrors: what an error object tells the host, proved for every   *)
(* set of failures the functions can return, every number of recoveries    *)
(* and of expected tokens, every position and every width of an int32_t.   *)
(* The walk of a host is a loop in a loop, and its invariant WalkInv says  *)
(* what the two loops have read: the object of the call is held, seen is   *)
(* what its first Len(seen) indices read, and tokens is, for each of       *)
(* these, all of its expected tokens, or, for the one being read, the      *)
(* first ones.  The theorems follow from it and from facts about the parts *)
(* of an error (PartsOf) that hold of every failure.                       *)
(***************************************************************************)
EXTENDS ShyFfi, FfiErrors, SequenceTheorems, FiniteSetTheorems, WellFoundedInduction, TLAPS

\* Dropping the last element keeps the others in place.
LEMMA PopFacts ==
  ASSUME NEW S, NEW s \in Seq(S), s # <<>>
  PROVE  /\ SubSeq(s, 1, Len(s) - 1) \in Seq(S)
         /\ Len(SubSeq(s, 1, Len(s) - 1)) = Len(s) - 1
         /\ \A i \in 1 .. Len(s) - 1 : SubSeq(s, 1, Len(s) - 1)[i] = s[i]
<1>1. Len(s) \in Nat \ {0}
  BY EmptySeq
<1>2. \A i \in 1 .. Len(s) - 1 : s[i] \in S
  BY ElementOfSeq, <1>1
<1> DEFINE m == Len(s) - 1
<1>3. m \in Nat
  BY <1>1
<1>4. \A i \in 1..m : s[i] \in S
  BY <1>2
<1> HIDE DEF m
<1>5. /\ SubSeq(s, 1, m) \in Seq(S)
      /\ Len(SubSeq(s, 1, m)) = m
      /\ \A i \in 1..m : SubSeq(s, 1, m)[i] = s[i]
  BY <1>3, <1>4, SubSeqProperties
<1>6. QED
  BY <1>5 DEF m

(***************************************************************************)
(* The inductive invariant.                                                *)
(***************************************************************************)

OwedParts(answer) == IF answer = NotAsked THEN NoParts ELSE AnswerParts(answer)

\* What a call stored agrees with what its callback answered; a callback runs
\* only in calls that have one and whose arguments were good.
Good(f) ==
    /\ f.last_error_parts = OwedParts(f.last_answer)
    /\ f.phase = "callback" \/ f.last_answer # NotAsked =>
         f.args.entry.callback /\ InputFailure(f.args) = NoParts
    /\ f.args.entry.op = "parse" => f.args.out \in HandleSlots \cup {Null}

\* All calls but the innermost are in their callbacks.
Stacked(cs) ==
    /\ cs \in Seq(Frames)
    /\ \A i \in 1 .. Len(cs) : Good(cs[i])
    /\ \A i \in 1 .. Len(cs) - 1 : cs[i].phase = "callback"

\* The outputs of a call that runs are as it made them on entry, but for what
\* its callback left in out_error.
Quiet ==
    Running =>
        /\ Top.left = Held(Top.args.out_error)
        /\ Top.args.entry.op = "parse" /\ Top.args.out # Null => handleSlot[Top.args.out] = Null

IInv == TypeOK /\ NothingLost /\ Stacked(calls) /\ Quiet

\* No entry point that parses takes a callback.
LEMMA ParsingTakesNoCallback ==
    \A entry \in Entries : entry.op = "parse" => ~entry.callback
<1>1. \A entry \in ExEntries : entry.op = "parse" => ~entry.callback
    BY DEF ExEntries, Entry, ParseExpressionEx, ParseExpressionWithOptionsEx,
           EvaluateNoVarsEx, EvaluateNoVarsWithOptionsEx,
           EvaluateWithCallbackEx, EvaluateWithCallbackWithOptionsEx,
           EvaluateParsedNoVarsEx, EvaluateParsedWithCallbackEx
<1>2. \A entry \in StatusOnlyEntries : \E ex \in ExEntries : entry = StatusOnly(ex)
    BY DEF StatusOnlyEntries, ExEntries,
           ParseExpression, ParseExpressionWithOptions,
           EvaluateNoVars, EvaluateNoVarsWithOptions,
           EvaluateWithCallback, EvaluateWithCallbackWithOptions,
           EvaluateParsedNoVars, EvaluateParsedWithCallback
<1> QED
    BY <1>1, <1>2 DEF Entries, StatusOnly

-----------------------------------------------------------------------------
(***************************************************************************)
(* Out parameters.                                                         *)
(***************************************************************************)

Pointers(boxes) == boxes \cup {Null, Garbage}

\* Clearing a variable that owns nothing loses nothing.
LEMMA ClearFacts ==
    ASSUME NEW slots, NEW boxes, NEW live, NEW slot \in [slots -> Pointers(boxes)],
           NEW s \in slots \cup {Null},
           Null \notin slots \cup boxes,
           s # Null => slot[s] \notin boxes,
           Owned(live, slots, boxes, slot)
    PROVE  /\ Cleared(slot, s) \in [slots -> Pointers(boxes)]
           /\ Owned(live, slots, boxes, Cleared(slot, s))
           /\ s # Null => Cleared(slot, s)[s] = Null
<1>1. CASE s = Null
    BY <1>1 DEF Cleared
<1>2. CASE s # Null
    <2>1. s \in slots /\ Cleared(slot, s) = [slot EXCEPT ![s] = Null]
        BY <1>2 DEF Cleared
    <2>2. \A t \in slots : Cleared(slot, s)[t] = IF t = s THEN Null ELSE slot[t]
        BY <2>1
    <2>3. Cleared(slot, s) \in [slots -> Pointers(boxes)]
        BY <2>1 DEF Pointers
    <2>4. live = {Cleared(slot, s)[t] : t \in slots} \cap boxes
        BY <1>2, <2>2 DEF Owned
    <2> QED
        BY <2>1, <2>2, <2>3, <2>4 DEF Owned
<1> QED
    BY <1>1, <1>2

\* A variable that owns nothing may take a new object.
LEMMA TakeFacts ==
    ASSUME NEW slots, NEW boxes, NEW live, NEW slot \in [slots -> Pointers(boxes)],
           NEW s \in slots, NEW box \in boxes \ live,
           slot[s] \notin boxes,
           Owned(live, slots, boxes, slot)
    PROVE  /\ [slot EXCEPT ![s] = box] \in [slots -> Pointers(boxes)]
           /\ Owned(live \cup {box}, slots, boxes, [slot EXCEPT ![s] = box])
<1> DEFINE new == [slot EXCEPT ![s] = box]
<1>1. \A t \in slots : new[t] = IF t = s THEN box ELSE slot[t]
    OBVIOUS
<1>2. new \in [slots -> Pointers(boxes)]
    BY DEF Pointers
<1>3. \A t \in slots : slot[t] # box
    BY DEF Owned
<1> HIDE DEF new
<1>4. live \cup {box} = {new[t] : t \in slots} \cap boxes
    <2>1. ASSUME NEW b \in live \cup {box} PROVE b \in {new[t] : t \in slots} \cap boxes
        <3>1. CASE b = box
            BY <1>1, <3>1
        <3>2. CASE b # box
            <4>1. PICK t \in slots : slot[t] = b /\ b \in boxes
                BY <2>1, <3>2 DEF Owned
            <4> QED
                BY <1>1, <4>1
        <3> QED
            BY <3>1, <3>2
    <2>2. ASSUME NEW t \in slots, new[t] \in boxes PROVE new[t] \in live \cup {box}
        BY <1>1, <2>2 DEF Owned
    <2> QED
        BY <2>1, <2>2
<1>5. \A t, u \in slots : t # u /\ new[t] = new[u] => new[t] \notin boxes
    BY <1>1, <1>3 DEF Owned
<1>6. Owned(live \cup {box}, slots, boxes, new)
    BY <1>4, <1>5 DEF Owned
<1> QED
    BY <1>2, <1>6 DEF new

\* A new object in a variable that had one takes its place.
LEMMA ReplaceFacts ==
    ASSUME NEW slots, NEW boxes, NEW live, NEW slot \in [slots -> Pointers(boxes)],
           NEW s \in slots, NEW box \in boxes, box \notin live,
           Owned(live, slots, boxes, slot)
    PROVE  /\ [slot EXCEPT ![s] = box] \in [slots -> Pointers(boxes)]
           /\ Owned((live \ {slot[s]}) \cup {box}, slots, boxes, [slot EXCEPT ![s] = box])
<1> DEFINE new == [slot EXCEPT ![s] = box]
           kept == live \ {slot[s]}
<1>1. \A t \in slots : new[t] = IF t = s THEN box ELSE slot[t]
    OBVIOUS
<1>2. new \in [slots -> Pointers(boxes)]
    BY DEF Pointers
<1>3. \A t \in slots : slot[t] # box
    BY DEF Owned
<1> HIDE DEF new
<1>4. kept \cup {box} = {new[t] : t \in slots} \cap boxes
    <2>1. ASSUME NEW b \in kept \cup {box} PROVE b \in {new[t] : t \in slots} \cap boxes
        <3>1. CASE b = box
            BY <1>1, <3>1
        <3>2. CASE b # box
            <4>1. PICK t \in slots : slot[t] = b /\ b \in boxes
                BY <2>1, <3>2 DEF Owned
            <4> QED
                BY <1>1, <2>1, <3>2, <4>1
        <3> QED
            BY <3>1, <3>2
    <2>2. ASSUME NEW t \in slots, new[t] \in boxes PROVE new[t] \in kept \cup {box}
        <3>1. t # s => slot[t] \in live /\ slot[t] # slot[s]
            BY <1>1, <2>2 DEF Owned
        <3> QED
            BY <1>1, <3>1
    <2> QED
        BY <2>1, <2>2
<1>5. \A t, u \in slots : t # u /\ new[t] = new[u] => new[t] \notin boxes
    BY <1>1, <1>3 DEF Owned
<1>6. Owned(kept \cup {box}, slots, boxes, new)
    BY <1>4, <1>5 DEF Owned
<1> QED
    BY <1>2, <1>6 DEF new

\* A variable whose object is freed owns nothing, the others what they did.
LEMMA DropFacts ==
    ASSUME NEW slots, NEW boxes, NEW live, NEW slot \in [slots -> Pointers(boxes)],
           NEW s \in slots, NEW left,
           left \in {Null, Garbage} \ boxes,
           slot[s] \in boxes,
           Owned(live, slots, boxes, slot)
    PROVE  /\ [slot EXCEPT ![s] = left] \in [slots -> Pointers(boxes)]
           /\ Owned(live \ {slot[s]}, slots, boxes, [slot EXCEPT ![s] = left])
<1> DEFINE new == [slot EXCEPT ![s] = left]
<1>1. \A t \in slots : new[t] = IF t = s THEN left ELSE slot[t]
    OBVIOUS
<1>2. new \in [slots -> Pointers(boxes)]
    BY DEF Pointers
<1>3. \A t \in slots : t # s => slot[t] # slot[s]
    BY DEF Owned
<1> HIDE DEF new
<1>4. live \ {slot[s]} = {new[t] : t \in slots} \cap boxes
    <2>1. ASSUME NEW b \in live \ {slot[s]} PROVE b \in {new[t] : t \in slots} \cap boxes
        <3>1. PICK t \in slots : slot[t] = b /\ b \in boxes
            BY DEF Owned
        <3> QED
            BY <1>1, <3>1
    <2>2. ASSUME NEW t \in slots, new[t] \in boxes PROVE new[t] \in live \ {slot[s]}
        BY <1>1, <1>3, <2>2 DEF Owned
    <2> QED
        BY <2>1, <2>2
<1>5. \A t, u \in slots : t # u /\ new[t] = new[u] => new[t] \notin boxes
    BY <1>1 DEF Owned
<1>6. Owned(live \ {slot[s]}, slots, boxes, new)
    BY <1>4, <1>5 DEF Owned
<1> QED
    BY <1>2, <1>6 DEF new

-----------------------------------------------------------------------------
(***************************************************************************)
(* The stack of calls.                                                     *)
(***************************************************************************)

\* A call made from a callback is put on top of the calls that wait for it.
LEMMA PushFacts ==
    ASSUME NEW cs, Stacked(cs), cs # <<>> => cs[Len(cs)].phase = "callback",
           NEW f \in Frames, Good(f)
    PROVE  /\ Stacked(Append(cs, f))
           /\ Len(Append(cs, f)) = Len(cs) + 1
           /\ Append(cs, f) # <<>>
           /\ Append(cs, f)[Len(Append(cs, f))] = f
<1>1. cs \in Seq(Frames) /\ Len(cs) \in Nat
    BY DEF Stacked
<1>2. /\ Append(cs, f) \in Seq(Frames)
      /\ Len(Append(cs, f)) = Len(cs) + 1
      /\ \A i \in 1 .. Len(cs) : Append(cs, f)[i] = cs[i]
      /\ Append(cs, f)[Len(cs) + 1] = f
    BY <1>1
<1>3. \A i \in 1 .. Len(cs) : cs[i].phase = "callback"
    BY <1>1 DEF Stacked
<1>4. Append(cs, f) # <<>>
    BY <1>1, <1>2, EmptySeq
<1>5. \A i \in 1 .. Len(Append(cs, f)) : Good(Append(cs, f)[i])
    BY <1>1, <1>2 DEF Stacked
<1>6. \A i \in 1 .. Len(Append(cs, f)) - 1 : Append(cs, f)[i].phase = "callback"
    BY <1>1, <1>2, <1>3
<1> QED
    BY <1>2, <1>4, <1>5, <1>6 DEF Stacked

CallersOf(cs) == SubSeq(cs, 1, Len(cs) - 1)

\* Below a call are the calls that wait for it.
LEMMA CallersFacts ==
    ASSUME NEW cs, Stacked(cs), cs # <<>>
    PROVE  /\ Stacked(CallersOf(cs))
           /\ Len(CallersOf(cs)) \in Nat
           /\ Len(cs) = Len(CallersOf(cs)) + 1
           /\ CallersOf(cs) # <<>> => CallersOf(cs)[Len(CallersOf(cs))].phase = "callback"
           /\ cs[Len(cs)] \in Frames
           /\ Good(cs[Len(cs)])
<1> DEFINE rest == CallersOf(cs)
<1>1. cs \in Seq(Frames) /\ Len(cs) \in Nat /\ Len(cs) > 0
    BY EmptySeq DEF Stacked
<1>2. /\ rest \in Seq(Frames)
      /\ Len(rest) = Len(cs) - 1
      /\ \A i \in 1 .. Len(cs) - 1 : rest[i] = cs[i]
    BY <1>1, PopFacts DEF CallersOf
<1> HIDE DEF rest
<1>3. rest # <<>> => Len(rest) > 0
    BY <1>2, EmptySeq
<1>4. cs[Len(cs)] \in Frames /\ Good(cs[Len(cs)])
    BY <1>1 DEF Stacked
<1>5. rest # <<>> => rest[Len(rest)].phase = "callback"
    BY <1>1, <1>2, <1>3 DEF Stacked
<1>6. Stacked(rest)
    BY <1>1, <1>2 DEF Stacked
<1> QED
    BY <1>1, <1>2, <1>4, <1>5, <1>6 DEF rest

\* The same of the calls of a state.
LEMMA TopFacts ==
    ASSUME Stacked(calls), calls # <<>>
    PROVE  /\ Stacked(Callers)
           /\ Len(Callers) \in Nat
           /\ Len(calls) = Len(Callers) + 1
           /\ Callers # <<>> => Callers[Len(Callers)].phase = "callback"
           /\ Top \in Frames
           /\ Good(Top)
<1>1. Callers = CallersOf(calls) /\ Top = calls[Len(calls)]
    BY DEF Callers, CallersOf, Top
<1> QED
    BY <1>1, CallersFacts

-----------------------------------------------------------------------------
(***************************************************************************)
(* Errors.                                                                 *)
(***************************************************************************)

\* What can fail is told in parts of the kinds an error object has.
LEMMA FailureFacts ==
    /\ \A a : InputFailure(a) # NoParts => InputFailure(a) \in AllParts
    /\ \A a : InputFailure(a) # NoParts =>
                 InputFailure(a).stage = "INPUT"
                 /\ InputFailure(a).status \in {"NULL_POINTER", "INVALID_OPTIONS", "INVALID_UTF8"}
    /\ PanicError \in AllParts
    /\ \A f : \A cause \in CoreErrors(f) : cause \in AllParts
    /\ \A answer \in Answers : AnswerParts(answer) \in AllParts \cup {NoParts}
    /\ NoParts \notin AllParts
<1>1. \A a : InputFailure(a) # NoParts => InputFailure(a) \in AllParts
    BY DEF InputFailure, AllParts, Parts, Statuses, Stages
<1>2. \A a : InputFailure(a) # NoParts =>
                 InputFailure(a).stage = "INPUT"
                 /\ InputFailure(a).status \in {"NULL_POINTER", "INVALID_OPTIONS", "INVALID_UTF8"}
    BY DEF InputFailure, Parts
<1>3. PanicError \in AllParts
    BY DEF PanicError, AllParts, Parts, Statuses, Stages
<1>4. \A f : \A cause \in CoreErrors(f) : cause \in AllParts
    BY DEF CoreErrors, ParseErrors, EvalErrors, AllParts, Parts, Statuses, Stages
<1>5. \A answer \in Answers : AnswerParts(answer) \in AllParts \cup {NoParts}
    BY DEF AnswerParts, StatusFromCode, ResolverError, InvalidValueError,
           AllParts, Parts, Statuses, Stages
<1>6. NoParts \notin AllParts
    BY DEF NoParts, AllParts, Parts
<1> QED
    BY <1>1, <1>2, <1>3, <1>4, <1>5, <1>6

\* What a variable held, were it an object, is lost when an error is reported
\* through it, and nothing else is.
LEMMA WriteFacts ==
    ASSUME TypeOK, NothingLost,
           NEW s \in ErrorSlots \cup {Null}, NEW parts \in AllParts, NEW left,
           left = IF s = Null THEN Null ELSE errorSlot[s],
           dropped' = dropped \cup ({left} \cap ErrorBoxes),
           WriteOptionalError(s, parts)
    PROVE  /\ errors' \in [ErrorBoxes -> AllParts \cup {NoParts}]
           /\ errorSlot' \in [ErrorSlots -> ErrorBoxes \cup {Null, Garbage}]
           /\ dropped' \subseteq Live'
           /\ Owned((Live \ dropped)', ErrorSlots, ErrorBoxes, errorSlot')
           /\ s # Null => errorSlot'[s] \in ErrorBoxes /\ errors'[errorSlot'[s]] = parts
<1>1. CASE s = Null
    <2>1. left \notin ErrorBoxes /\ UNCHANGED <<errors, errorSlot>>
        BY <1>1, PointersAssumption DEF WriteOptionalError
    <2> QED
        BY <1>1, <2>1 DEF TypeOK, NothingLost, Live
<1>2. CASE s # Null
    <2>1. PICK box \in ErrorBoxes : /\ errors[box] = NoParts
                                    /\ errors' = [errors EXCEPT ![box] = parts]
                                    /\ errorSlot' = [errorSlot EXCEPT ![s] = box]
        BY <1>2 DEF WriteOptionalError
    <2>2. s \in ErrorSlots /\ left = errorSlot[s]
        BY <1>2
    <2>3. box \in ErrorBoxes \ Live
        BY <2>1 DEF Live
    <2>4. errors' \in [ErrorBoxes -> AllParts \cup {NoParts}] /\ errors'[box] = parts
        BY <2>1 DEF TypeOK
    <2>5. Live' = Live \cup {box}
        BY <2>1, FailureFacts DEF Live, TypeOK
    <2>6. errorSlot \in [ErrorSlots -> Pointers(ErrorBoxes)]
        BY DEF TypeOK, Pointers
    <2>7. Owned(Live \ dropped, ErrorSlots, ErrorBoxes, errorSlot) /\ dropped \subseteq Live
        BY DEF NothingLost
    <2> DEFINE kept == (Live \ dropped) \ {left}
    <2>8. /\ errorSlot' \in [ErrorSlots -> Pointers(ErrorBoxes)]
          /\ Owned(kept \cup {box}, ErrorSlots, ErrorBoxes, errorSlot')
        BY <2>1, <2>2, <2>3, <2>6, <2>7, ReplaceFacts
    <2>9. kept \cup {box} = Live' \ dropped'
        <3>1. Live \subseteq ErrorBoxes
            BY DEF Live
        <3>2. left \in ErrorBoxes => left \in Live
            BY <2>2, <2>7 DEF Owned
        <3>3. ASSUME NEW b PROVE b \in kept \cup {box} <=> b \in Live' \ dropped'
            BY <2>3, <2>5, <2>7, <3>1, <3>2
        <3> HIDE DEF kept
        <3> QED
            BY <3>3
    <2>10. dropped' \subseteq Live'
        <3>1. left \in ErrorBoxes => left \in Live
            BY <2>2, <2>7 DEF Owned
        <3> QED
            BY <2>5, <2>7, <3>1
    <2>11. errorSlot'[s] = box
        BY <2>1, <2>2 DEF TypeOK
    <2> QED
        BY <2>4, <2>8, <2>9, <2>10, <2>11 DEF Pointers
<1> QED
    BY <1>1, <1>2

-----------------------------------------------------------------------------
(***************************************************************************)
(* The steps keep the invariant.                                           *)
(***************************************************************************)

\* The innermost call goes on in another phase.
LEMMA GoOn ==
    ASSUME IInv, calls # <<>>,
           NEW f \in Frames, Good(f),
           calls' = Append(Callers, f),
           UNCHANGED <<errors, handles, errorSlot, handleSlot, dropped>>,
           returned' = "none",
           f.phase = "running" =>
               /\ f.left = Held(f.args.out_error)
               /\ f.args.entry.op # "parse"
    PROVE  IInv'
<1>1. /\ Stacked(Callers)
      /\ Callers # <<>> => Callers[Len(Callers)].phase = "callback"
    BY TopFacts DEF IInv
<1>2. Stacked(calls') /\ calls' # <<>> /\ Top' = f
    BY <1>1, PushFacts DEF Top
<1>3. TypeOK'
    BY <1>2 DEF IInv, TypeOK, Stacked
<1>4. NothingLost'
    BY DEF IInv, NothingLost, Live
<1>5. Quiet'
    BY <1>2 DEF Quiet, Running, Held
<1> QED
    BY <1>2, <1>3, <1>4, <1>5 DEF IInv

\* The innermost call returns: its caller, if any, is in its callback.
LEMMA Returned ==
    ASSUME IInv, calls # <<>>, NEW status \in Statuses, Return(status)
    PROVE  Stacked(calls)' /\ Quiet' /\ calls' \in Seq(Frames) /\ returned' \in Statuses
<1>1. /\ Stacked(Callers)
      /\ Callers # <<>> => Callers[Len(Callers)].phase = "callback"
    BY TopFacts DEF IInv
<1>2. calls' = Callers /\ returned' = status
    BY DEF Return
<1>3. Stacked(calls)'
    BY <1>1, <1>2
<1>4. ~Running'
    BY <1>1, <1>2 DEF Running, Top
<1>5. calls' \in Seq(Frames)
    BY <1>1, <1>2 DEF Stacked
<1> QED
    BY <1>2, <1>3, <1>4, <1>5 DEF Quiet

\* What is known of the call that runs.
LEMMA RunningFacts ==
    ASSUME IInv, Running
    PROVE  /\ calls # <<>>
           /\ Top \in Frames
           /\ Top.args \in Arguments
           /\ Top.args.out_error \in ErrorSlots \cup {Null}
           /\ Top.left = Held(Top.args.out_error)
           /\ Top.last_error_parts = OwedParts(Top.last_answer)
           /\ Top.last_answer \in Answers \cup {NotAsked}
           /\ Good(Top)
<1>1. calls # <<>> /\ Top \in Frames /\ Good(Top)
    BY TopFacts DEF IInv, Running
<1>2. Top.args \in Arguments /\ Top.last_answer \in Answers \cup {NotAsked}
    BY <1>1 DEF Frames
<1>3. Top.args.out_error \in ErrorSlots \cup {Null}
    BY <1>2 DEF Arguments
<1>4. Top.left = Held(Top.args.out_error)
    BY DEF IInv, Quiet
<1>5. Top.last_error_parts = OwedParts(Top.last_answer)
    BY <1>1 DEF Good
<1> QED
    BY <1>1, <1>2, <1>3, <1>4, <1>5

\* What a failing call leaves.
LEMMA FailKeeps ==
    ASSUME IInv, Running, NEW parts \in AllParts, Fail(parts)
    PROVE  /\ IInv'
           /\ Top.args.out_error # Null =>
                 /\ errorSlot'[Top.args.out_error] \in ErrorBoxes
                 /\ errors'[errorSlot'[Top.args.out_error]] = parts
<1> DEFINE s == Top.args.out_error
<1>1. /\ calls # <<>>
      /\ s \in ErrorSlots \cup {Null}
      /\ Top.left = IF s = Null THEN Null ELSE errorSlot[s]
    BY RunningFacts DEF Held
<1>2. /\ WriteOptionalError(s, parts)
      /\ dropped' = dropped \cup ({Top.left} \cap ErrorBoxes)
      /\ Return(parts.status)
      /\ UNCHANGED <<handles, handleSlot>>
    BY DEF Fail
<1> HIDE DEF s
<1>3. TypeOK /\ NothingLost
    BY DEF IInv
<1>4. /\ errors' \in [ErrorBoxes -> AllParts \cup {NoParts}]
      /\ errorSlot' \in [ErrorSlots -> ErrorBoxes \cup {Null, Garbage}]
      /\ dropped' \subseteq Live'
      /\ Owned((Live \ dropped)', ErrorSlots, ErrorBoxes, errorSlot')
      /\ s # Null => errorSlot'[s] \in ErrorBoxes /\ errors'[errorSlot'[s]] = parts
    BY <1>1, <1>2, <1>3, WriteFacts
<1>5. parts.status \in Statuses
    BY DEF AllParts
<1>6. Stacked(calls)' /\ Quiet' /\ calls' \in Seq(Frames) /\ returned' \in Statuses
    BY <1>1, <1>2, <1>5, Returned
<1>7. TypeOK'
    BY <1>2, <1>3, <1>4, <1>6 DEF TypeOK
<1>8. NothingLost'
    BY <1>2, <1>3, <1>4 DEF NothingLost
<1> QED
    BY <1>4, <1>6, <1>7, <1>8 DEF IInv, s

\* A host, or a callback, calls.
LEMMA CallKeeps == ASSUME IInv, Call PROVE IInv'
<1>1. PICK a \in Arguments :
         /\ MayPass(a)
         /\ errorSlot' = Cleared(errorSlot, a.out_error)
         /\ handleSlot' = IF a.entry.op = "parse" THEN Cleared(handleSlot, a.out) ELSE handleSlot
         /\ calls' = Append(calls, Frame(a, "running", NotAsked, NoParts, Null))
    BY DEF Call
<1>2. returned' = "none" /\ UNCHANGED <<errors, handles, dropped>> /\ HostRuns
    BY DEF Call
<1> DEFINE f == Frame(a, "running", NotAsked, NoParts, Null)
<1>3. a.entry.op = "parse" => a.out \in HandleSlots \cup {Null}
    BY <1>1 DEF MayPass
<1>4. f \in Frames /\ Good(f)
    BY <1>3 DEF Frame, Frames, Good, OwedParts
<1>5. /\ f.args = a /\ f.phase = "running" /\ f.left = Null
    BY DEF Frame
<1>6. calls' = Append(calls, f)
    BY <1>1
<1> HIDE DEF f
<1>7. calls # <<>> => calls[Len(calls)].phase = "callback"
    BY <1>2 DEF HostRuns, Top
<1>8. Stacked(calls') /\ calls' # <<>> /\ Top' = f
    BY <1>4, <1>6, <1>7, PushFacts DEF IInv, Top
<1>9. /\ errorSlot' \in [ErrorSlots -> Pointers(ErrorBoxes)]
      /\ Owned(Live \ dropped, ErrorSlots, ErrorBoxes, errorSlot')
      /\ a.out_error # Null => errorSlot'[a.out_error] = Null
    <2>1. a.out_error \in ErrorSlots \cup {Null}
        BY DEF Arguments
    <2>2. a.out_error # Null => errorSlot[a.out_error] \notin ErrorBoxes
        BY <1>1, <2>1 DEF MayPass
    <2>3. errorSlot \in [ErrorSlots -> Pointers(ErrorBoxes)]
        BY DEF IInv, TypeOK, Pointers
    <2>4. Owned(Live \ dropped, ErrorSlots, ErrorBoxes, errorSlot)
        BY DEF IInv, NothingLost
    <2>5. Null \notin ErrorSlots \cup ErrorBoxes
        BY PointersAssumption
    <2> QED
        BY <1>1, <2>1, <2>2, <2>3, <2>4, <2>5, ClearFacts
<1>10. /\ handleSlot' \in [HandleSlots -> Pointers(HandleBoxes)]
       /\ Owned(handles, HandleSlots, HandleBoxes, handleSlot')
       /\ a.entry.op = "parse" /\ a.out # Null => handleSlot'[a.out] = Null
    <2>1. handleSlot \in [HandleSlots -> Pointers(HandleBoxes)]
        BY DEF IInv, TypeOK, Pointers
    <2>2. Owned(handles, HandleSlots, HandleBoxes, handleSlot)
        BY DEF IInv, NothingLost
    <2>3. CASE a.entry.op = "parse"
        <3>1. a.out \in HandleSlots \cup {Null}
            BY <1>3, <2>3
        <3>2. a.out # Null => handleSlot[a.out] \notin HandleBoxes
            BY <1>1, <3>1 DEF MayPass
        <3>3. Null \notin HandleSlots \cup HandleBoxes
            BY PointersAssumption
        <3>4. handleSlot' = Cleared(handleSlot, a.out)
            BY <1>1, <2>3
        <3> QED
            BY <2>1, <2>2, <3>1, <3>2, <3>3, <3>4, ClearFacts
    <2>4. CASE a.entry.op # "parse"
        BY <1>1, <2>1, <2>2, <2>4
    <2> QED
        BY <2>3, <2>4
<1>11. TypeOK'
    BY <1>2, <1>8, <1>9, <1>10 DEF IInv, TypeOK, Stacked, Pointers
<1>12. NothingLost'
    BY <1>2, <1>9, <1>10 DEF IInv, NothingLost, Live
<1>13. Quiet'
    BY <1>5, <1>8, <1>9, <1>10 DEF Quiet, Running, Held
<1> QED
    BY <1>8, <1>11, <1>12, <1>13 DEF IInv

\* shy_error_free.
LEMMA FreeErrorKeeps == ASSUME IInv, FreeError PROVE IInv'
<1>1. PICK s \in ErrorSlots, left \in {Garbage, Null} :
         /\ errorSlot[s] \in ErrorBoxes
         /\ errors' = [errors EXCEPT ![errorSlot[s]] = NoParts]
         /\ errorSlot' = [errorSlot EXCEPT ![s] = left]
    BY DEF FreeError
<1>2. returned' = "none" /\ UNCHANGED <<calls, handles, handleSlot, dropped>> /\ HostRuns
    BY DEF FreeError
<1>3. left \in {Null, Garbage} \ ErrorBoxes
    BY PointersAssumption
<1>4. errorSlot \in [ErrorSlots -> Pointers(ErrorBoxes)] /\ errors \in [ErrorBoxes -> AllParts \cup {NoParts}]
    BY DEF IInv, TypeOK, Pointers
<1>5. Owned(Live \ dropped, ErrorSlots, ErrorBoxes, errorSlot) /\ dropped \subseteq Live
    BY DEF IInv, NothingLost
<1>6. /\ [errorSlot EXCEPT ![s] = left] \in [ErrorSlots -> Pointers(ErrorBoxes)]
      /\ Owned((Live \ dropped) \ {errorSlot[s]}, ErrorSlots, ErrorBoxes, [errorSlot EXCEPT ![s] = left])
    <2>1. errorSlot[s] \in ErrorBoxes /\ errorSlot \in [ErrorSlots -> Pointers(ErrorBoxes)]
        BY <1>1, <1>4
    <2> QED
        BY <1>3, <1>5, <2>1, DropFacts
<1>7. /\ errorSlot' \in [ErrorSlots -> Pointers(ErrorBoxes)]
      /\ Owned((Live \ dropped) \ {errorSlot[s]}, ErrorSlots, ErrorBoxes, errorSlot')
    BY <1>1, <1>6
<1>8. Live' = Live \ {errorSlot[s]} /\ errorSlot[s] \notin dropped
    BY <1>1, <1>4, <1>5 DEF Live, Owned
<1>9. errors' \in [ErrorBoxes -> AllParts \cup {NoParts}]
    BY <1>1, <1>4
<1>10. TypeOK'
    BY <1>2, <1>7, <1>9 DEF IInv, TypeOK, Pointers
<1>11. NothingLost'
    <2>1. (Live \ dropped)' = (Live \ dropped) \ {errorSlot[s]} /\ dropped' \subseteq Live'
        BY <1>2, <1>5, <1>8
    <2> QED
        BY <1>2, <1>7, <2>1 DEF IInv, NothingLost
<1>12. Stacked(calls)' /\ Quiet'
    BY <1>2 DEF IInv, Quiet, Running, HostRuns, Top
<1> QED
    BY <1>10, <1>11, <1>12 DEF IInv

\* shy_parsed_expression_free.
LEMMA FreeHandleKeeps == ASSUME IInv, FreeHandle PROVE IInv'
<1>1. PICK s \in HandleSlots :
         /\ handleSlot[s] \in HandleBoxes
         /\ handles' = handles \ {handleSlot[s]}
         /\ handleSlot' = [handleSlot EXCEPT ![s] = Garbage]
    BY DEF FreeHandle
<1>2. returned' = "none" /\ UNCHANGED <<calls, errors, errorSlot, dropped>> /\ HostRuns
    BY DEF FreeHandle
<1>3. Garbage \in {Null, Garbage} \ HandleBoxes
    BY PointersAssumption
<1>4. handleSlot \in [HandleSlots -> Pointers(HandleBoxes)]
    BY DEF IInv, TypeOK, Pointers
<1>5. Owned(handles, HandleSlots, HandleBoxes, handleSlot)
    BY DEF IInv, NothingLost
<1>6. /\ [handleSlot EXCEPT ![s] = Garbage] \in [HandleSlots -> Pointers(HandleBoxes)]
      /\ Owned(handles \ {handleSlot[s]}, HandleSlots, HandleBoxes,
               [handleSlot EXCEPT ![s] = Garbage])
    BY <1>1, <1>3, <1>4, <1>5, DropFacts
<1>7. /\ handleSlot' \in [HandleSlots -> Pointers(HandleBoxes)]
      /\ Owned(handles', HandleSlots, HandleBoxes, handleSlot')
    BY <1>1, <1>6
<1>8. handles' \in SUBSET HandleBoxes
    BY <1>1 DEF IInv, TypeOK
<1>9. TypeOK'
    BY <1>2, <1>7, <1>8 DEF IInv, TypeOK, Pointers
<1>10. NothingLost'
    BY <1>2, <1>7 DEF IInv, NothingLost, Live
<1>11. Stacked(calls)' /\ Quiet'
    BY <1>2 DEF IInv, Quiet, Running, HostRuns, Top
<1> QED
    BY <1>9, <1>10, <1>11 DEF IInv

\* An evaluation calls a callback.
LEMMA AskKeeps == ASSUME IInv, Ask PROVE IInv'
<1> DEFINE f == Frame(Top.args, "callback", NotAsked, NoParts, Null)
<1>1. /\ calls # <<>>
      /\ Top.args \in Arguments
      /\ Top.last_answer \in Answers \cup {NotAsked}
      /\ Good(Top)
    BY RunningFacts DEF Ask, Admitted
<1>2. /\ InputFailure(Top.args) = NoParts
      /\ Top.args.entry.callback
      /\ Top.last_error_parts = NoParts
      /\ calls' = Append(Callers, f)
      /\ returned' = "none"
      /\ UNCHANGED <<errors, handles, errorSlot, handleSlot, dropped>>
    BY DEF Ask, Admitted
<1>3. f \in Frames
    BY <1>1 DEF Frame, Frames
<1>4. f.args = Top.args /\ f.phase = "callback" /\ f.last_answer = NotAsked
      /\ f.last_error_parts = NoParts
    BY DEF Frame
<1> HIDE DEF f
<1>5. Good(f)
    BY <1>1, <1>2, <1>4 DEF Good, OwedParts
<1> QED
    BY <1>1, <1>2, <1>3, <1>4, <1>5, GoOn

\* The callback returns.
LEMMA CallbackReturnsKeeps == ASSUME IInv, CallbackReturns PROVE IInv'
<1> DEFINE left == Held(Top.args.out_error)
<1>1. PICK answer \in Answers :
         calls' = Append(Callers, Frame(Top.args, "running", answer, AnswerParts(answer), left))
    BY DEF CallbackReturns
<1>2. /\ calls # <<>>
      /\ Top.phase = "callback"
      /\ returned' = "none"
      /\ UNCHANGED <<errors, handles, errorSlot, handleSlot, dropped>>
    BY DEF CallbackReturns
<1> DEFINE f == Frame(Top.args, "running", answer, AnswerParts(answer), left)
<1>3. Top \in Frames /\ Good(Top)
    BY <1>2, TopFacts DEF IInv
<1>4. /\ Top.args \in Arguments
      /\ Top.args.entry.callback
      /\ Top.args.entry \in Entries
      /\ InputFailure(Top.args) = NoParts
    BY <1>2, <1>3 DEF Good, Frames, Arguments
<1>5. Top.args.entry.op # "parse"
    BY <1>4, ParsingTakesNoCallback
<1>6. left \in ErrorBoxes \cup {Null, Garbage}
    BY <1>4 DEF Arguments, Held, IInv, TypeOK
<1>7. answer # NotAsked
    BY CodesAssumption DEF Answers, NotAsked
<1>8. AnswerParts(answer) \in AllParts \cup {NoParts}
    BY FailureFacts
<1>9. f \in Frames
    BY <1>4, <1>6, <1>8 DEF Frame, Frames
<1>10. f.args = Top.args /\ f.phase = "running" /\ f.last_answer = answer
       /\ f.last_error_parts = AnswerParts(answer) /\ f.left = left
    BY DEF Frame
<1>11. calls' = Append(Callers, f)
    BY <1>1
<1> HIDE DEF f
<1>12. Good(f)
    BY <1>4, <1>5, <1>7, <1>10 DEF Good, OwedParts
<1> QED
    BY <1>2, <1>5, <1>9, <1>10, <1>11, <1>12, GoOn

\* The error a call reports is one.
LEMMA ReportFacts ==
    ASSUME IInv, Running, NEW cause \in CoreErrors(Top)
    PROVE  FailureOf(Top, cause) \in AllParts
<1>1. Top.last_error_parts \in AllParts \cup {NoParts}
    BY RunningFacts DEF Frames
<1> QED
    BY <1>1, FailureFacts DEF FailureOf

\* A parse hands out a handle no slot had.
LEMMA ParseSucceedsKeeps ==
    ASSUME IInv, ParseSucceeds
    PROVE  /\ IInv'
           /\ Top.args.out \in HandleSlots
           /\ handleSlot'[Top.args.out] \in handles' \ handles
<1>1. PICK box \in HandleBoxes \ handles :
         /\ handles' = handles \cup {box}
         /\ handleSlot' = [handleSlot EXCEPT ![Top.args.out] = box]
    BY DEF ParseSucceeds
<1>2. Admitted /\ Top.args.entry.op = "parse" /\ Return("OK") /\ UNCHANGED <<errors, errorSlot, dropped>>
    BY DEF ParseSucceeds
<1>3. calls # <<>> /\ Good(Top)
    BY <1>2, RunningFacts DEF Admitted
<1>4. Top.args.out # Null
    BY <1>2 DEF Admitted, InputFailure, NoParts, Parts
<1>5. Top.args.out \in HandleSlots
    BY <1>2, <1>3, <1>4 DEF Good
<1>6. handleSlot[Top.args.out] \notin HandleBoxes
    BY <1>2, <1>4, PointersAssumption DEF IInv, Quiet, Admitted
<1>7. handleSlot \in [HandleSlots -> Pointers(HandleBoxes)]
    BY DEF IInv, TypeOK, Pointers
<1>8. Owned(handles, HandleSlots, HandleBoxes, handleSlot)
    BY DEF IInv, NothingLost
<1>9. /\ [handleSlot EXCEPT ![Top.args.out] = box] \in [HandleSlots -> Pointers(HandleBoxes)]
      /\ Owned(handles \cup {box}, HandleSlots, HandleBoxes,
               [handleSlot EXCEPT ![Top.args.out] = box])
    BY <1>5, <1>6, <1>7, <1>8, TakeFacts
<1>10. /\ handleSlot' \in [HandleSlots -> Pointers(HandleBoxes)]
       /\ Owned(handles', HandleSlots, HandleBoxes, handleSlot')
    BY <1>1, <1>9
<1>11. handles' \in SUBSET HandleBoxes
    BY <1>1 DEF IInv, TypeOK
<1>12. Stacked(calls)' /\ Quiet' /\ calls' \in Seq(Frames) /\ returned' \in Statuses
    BY <1>2, <1>3, Returned DEF Statuses
<1>13. TypeOK'
    BY <1>2, <1>10, <1>11, <1>12 DEF IInv, TypeOK, Pointers
<1>14. NothingLost'
    BY <1>2, <1>10 DEF IInv, NothingLost, Live
<1>15. handleSlot'[Top.args.out] = box
    BY <1>1, <1>5, <1>7
<1> QED
    BY <1>1, <1>5, <1>12, <1>13, <1>14, <1>15 DEF IInv

\* An evaluation returns a value.
LEMMA EvaluateSucceedsKeeps == ASSUME IInv, EvaluateSucceeds PROVE IInv'
<1>1. Running /\ Return("OK") /\ UNCHANGED <<errors, handles, errorSlot, handleSlot, dropped>>
    BY DEF EvaluateSucceeds, Admitted
<1>2. calls # <<>>
    BY <1>1 DEF Running
<1>3. Stacked(calls)' /\ Quiet' /\ calls' \in Seq(Frames) /\ returned' \in Statuses
    BY <1>1, <1>2, Returned DEF Statuses
<1> QED
    BY <1>1, <1>3 DEF IInv, TypeOK, NothingLost, Live

\* How a call ends.
Reports(parts) ==
    \/ parts = PanicError
    \/ parts = InputFailure(Top.args) /\ InputFailure(Top.args) # NoParts
    \/ \E cause \in CoreErrors(Top) : parts = FailureOf(Top, cause)

\* The three ways to fail are one: parts to report.
LEMMA Endings ==
    ASSUME IInv, RejectArguments \/ Panic \/ CoreFails
    PROVE  \E parts \in AllParts : Running /\ Fail(parts) /\ Reports(parts)
<1>1. CASE RejectArguments
    BY <1>1, FailureFacts DEF RejectArguments, Reports
<1>2. CASE Panic
    BY <1>2, FailureFacts DEF Panic, Reports
<1>3. CASE CoreFails
    <2>1. Running
        BY <1>3 DEF CoreFails, Admitted
    <2>2. PICK cause \in CoreErrors(Top) : Fail(FailureOf(Top, cause))
        BY <1>3 DEF CoreFails
    <2>3. FailureOf(Top, cause) \in AllParts
        BY <2>1, ReportFacts
    <2> QED
        BY <2>1, <2>2, <2>3 DEF Reports
<1> QED
    BY <1>1, <1>2, <1>3

\* No other step ends one.
LEMMA NotReturning ==
    ASSUME IInv,
           Call \/ FreeError \/ FreeHandle \/ Ask \/ CallbackReturns \/ UNCHANGED vars
    PROVE  ~Returning
<1>1. calls \in Seq(Frames) /\ Len(calls) \in Nat
    BY DEF IInv, TypeOK
<1>2. CASE Call
    <2>1. PICK f : calls' = Append(calls, f)
        BY <1>2 DEF Call
    <2> QED
        BY <1>1, <2>1 DEF Returning
<1>3. CASE FreeError \/ FreeHandle \/ UNCHANGED vars
    BY <1>1, <1>3 DEF Returning, FreeError, FreeHandle, vars
<1>4. CASE Ask \/ CallbackReturns
    <2>1. PICK f : calls' = Append(Callers, f)
        BY <1>4 DEF Ask, CallbackReturns
    <2>2. calls # <<>>
        BY <1>4 DEF Ask, CallbackReturns, Admitted, Running
    <2>3. Callers \in Seq(Frames) /\ Len(calls) = Len(Callers) + 1
        BY <2>2, TopFacts DEF IInv, Stacked
    <2> QED
        BY <1>1, <2>1, <2>3 DEF Returning
<1> QED
    BY <1>2, <1>3, <1>4

-----------------------------------------------------------------------------
(***************************************************************************)
(* Theorems.                                                               *)
(***************************************************************************)

\* The invariant of the proofs: the stack of calls, and what each call has
\* stored so far, agree with what its callback did and with its outputs.
THEOREM Invariance == Spec => []IInv
<1>1. Init => IInv
    <2> SUFFICES ASSUME Init PROVE IInv
        OBVIOUS
    <2>1. calls = <<>> /\ calls \in Seq(Frames) /\ Len(calls) = 0
        BY DEF Init
    <2>2. TypeOK
        BY <2>1 DEF Init, TypeOK
    <2>3. Live = {} /\ handles = {}
        BY DEF Init, Live
    <2>4. dropped = {} /\ Owned(Live \ dropped, ErrorSlots, ErrorBoxes, errorSlot)
        BY <2>3, PointersAssumption DEF Init, Owned
    <2>5. Owned(handles, HandleSlots, HandleBoxes, handleSlot)
        BY <2>3, PointersAssumption DEF Init, Owned
    <2>6. Stacked(calls) /\ Quiet
        BY <2>1 DEF Stacked, Quiet, Running
    <2> QED
        BY <2>2, <2>4, <2>5, <2>6 DEF IInv, NothingLost
<1>2. IInv /\ [Next]_vars => IInv'
    <2> SUFFICES ASSUME IInv, [Next]_vars PROVE IInv'
        OBVIOUS
    <2>1. CASE Call
        BY <2>1, CallKeeps
    <2>2. CASE FreeError
        BY <2>2, FreeErrorKeeps
    <2>3. CASE FreeHandle
        BY <2>3, FreeHandleKeeps
    <2>4. CASE RejectArguments \/ Panic \/ CoreFails
        BY <2>4, Endings, FailKeeps
    <2>5. CASE Ask
        BY <2>5, AskKeeps
    <2>6. CASE CallbackReturns
        BY <2>6, CallbackReturnsKeeps
    <2>7. CASE ParseSucceeds
        BY <2>7, ParseSucceedsKeeps
    <2>8. CASE EvaluateSucceeds
        BY <2>8, EvaluateSucceedsKeeps
    <2>9. CASE UNCHANGED vars
        BY <2>9 DEF vars, IInv, TypeOK, NothingLost, Live, Stacked, Quiet, Running, Top, Held
    <2> QED
        BY <2>1, <2>2, <2>3, <2>4, <2>5, <2>6, <2>7, <2>8, <2>9 DEF Next
<1> QED
    BY <1>1, <1>2, PTL DEF Spec

\* Type correctness of the C API's state.
THEOREM TypeCorrect == Spec => []TypeOK
<1>1. IInv => TypeOK
    BY DEF IInv
<1> QED
    BY <1>1, Invariance, PTL

\* No error object or handle is ever owned by two variables, and the only ones
\* lost are those a callback left in the out_error of its own call, when the call
\* then fails, for any nesting of calls (Box::into_raw, write_optional_error, the
\* two free functions).
THEOREM NothingIsLost == Spec => []NothingLost
<1>1. IInv => NothingLost
    BY DEF IInv
<1> QED
    BY <1>1, Invariance, PTL

\* Status, error object and handle agree whenever a call returns, whatever its
\* callbacks left in out_error: a success keeps it, a failure overwrites it.
THEOREM OutputsAgreeOnReturn == Spec => OutputsAlwaysAgree
<1>1. IInv /\ [Next]_vars => [OutputsAgree]_vars
    <2> SUFFICES ASSUME IInv, [Next]_vars, Returning PROVE OutputsAgree
        BY DEF OutputsAgree
    <2>1. CASE RejectArguments \/ Panic \/ CoreFails
        <3>1. PICK parts \in AllParts : Running /\ Fail(parts)
            BY <2>1, Endings
        <3>2. Top.args.out_error # Null =>
                 /\ errorSlot'[Top.args.out_error] \in ErrorBoxes
                 /\ errors'[errorSlot'[Top.args.out_error]] = parts
            BY <3>1, FailKeeps
        <3>3. returned' = parts.status /\ parts.status # "OK" /\ UNCHANGED handleSlot
            BY <3>1 DEF Fail, Return, AllParts
        <3>4. Top.args.entry.op = "parse" /\ Top.args.out # Null =>
                 handleSlot[Top.args.out] = Null
            BY <3>1 DEF IInv, Quiet
        <3> QED
            BY <3>2, <3>3, <3>4 DEF OutputsAgree
    <2>2. CASE ParseSucceeds
        <3>1. handleSlot'[Top.args.out] \in handles' \ handles
            BY <2>2, ParseSucceedsKeeps
        <3>2. Running /\ returned' = "OK" /\ UNCHANGED errorSlot
            BY <2>2 DEF ParseSucceeds, Return, Admitted
        <3>3. Top.args.out_error # Null => errorSlot[Top.args.out_error] = Top.left
            BY <3>2, RunningFacts DEF Held
        <3> QED
            BY <3>1, <3>2, <3>3 DEF OutputsAgree
    <2>3. CASE EvaluateSucceeds
        <3>1. Running /\ returned' = "OK" /\ UNCHANGED errorSlot /\ Top.args.entry.op = "evaluate"
            BY <2>3 DEF EvaluateSucceeds, Return, Admitted
        <3>2. Top.args.out_error # Null => errorSlot[Top.args.out_error] = Top.left
            BY <3>1, RunningFacts DEF Held
        <3> QED
            BY <3>1, <3>2 DEF OutputsAgree
    <2> QED
        BY <2>1, <2>2, <2>3, NotReturning DEF Next
<1> QED
    BY <1>1, Invariance, PTL DEF Spec, OutputsAlwaysAgree

\* What a call stores of the last answer of its callback.
LEMMA BlameFacts ==
    ASSUME NEW answer \in Answers \cup {NotAsked}
    PROVE  /\ ~Blamed(answer) => OwedParts(answer) = NoParts
           /\ Blamed(answer) =>
                /\ OwedParts(answer) # NoParts
                /\ OwedParts(answer).stage \in {"RESOLVER", "INVALID_VALUE"}
                /\ OwedParts(answer).status =
                     IF answer.code = "OK" THEN "INVALID_VALUE"
                     ELSE IF answer.code \in Statuses THEN answer.code ELSE "RESOLVER_ERROR"
<1>1. CASE answer = NotAsked
    BY <1>1 DEF Blamed, OwedParts
<1>2. CASE answer # NotAsked
    <2>1. answer \in Answers
        BY <1>2
    <2>2. OwedParts(answer) = AnswerParts(answer)
        BY <1>2 DEF OwedParts
    <2>3. CASE answer.code = "OK"
        BY <1>2, <2>1, <2>2, <2>3
           DEF Blamed, AnswerParts, StatusFromCode, Statuses, InvalidValueError, Parts,
               NoParts, Answers
    <2>4. CASE answer.code # "OK"
        <3>1. StatusFromCode(answer.code) # "OK"
            BY <2>4 DEF StatusFromCode
        <3>2. AnswerParts(answer) = ResolverError(StatusFromCode(answer.code))
            BY <3>1 DEF AnswerParts
        <3>3. /\ AnswerParts(answer).stage = "RESOLVER"
              /\ AnswerParts(answer).status = StatusFromCode(answer.code)
            BY <3>2 DEF ResolverError, Parts
        <3>4. AnswerParts(answer) # NoParts
            BY <3>1, <3>3 DEF NoParts, Parts
        <3> QED
            BY <1>2, <2>2, <2>4, <3>3, <3>4 DEF Blamed, StatusFromCode
    <2> QED
        BY <2>3, <2>4
<1> QED
    BY <1>1, <1>2

\* A failing callback, and nothing else, is reported as the callback's failure,
\* with its own status.
THEOREM BlameFallsRight == Spec => BlameIsAlwaysRight
<1>1. IInv /\ [Next]_vars => [BlameIsRight]_vars
    <2> SUFFICES ASSUME IInv, [Next]_vars, Returning PROVE BlameIsRight
        BY DEF BlameIsRight
    <2> DEFINE answer == Top.last_answer
    <2>1. CASE RejectArguments \/ Panic \/ CoreFails
        <3>1. PICK parts \in AllParts : Running /\ Fail(parts) /\ Reports(parts)
            BY <2>1, Endings
        <3>2. Top.args.out_error # Null => errors'[errorSlot'[Top.args.out_error]] = parts
            BY <3>1, FailKeeps
        <3>3. returned' = parts.status /\ parts.status # "OK"
            BY <3>1 DEF Fail, Return, AllParts
        <3>4. /\ answer \in Answers \cup {NotAsked}
              /\ Top.last_error_parts = OwedParts(answer)
              /\ Good(Top)
            BY <3>1, RunningFacts
        <3>5. CASE parts = PanicError
            BY <3>2, <3>3, <3>5 DEF BlameIsRight, PanicError, Parts
        <3>6. CASE parts = InputFailure(Top.args) /\ InputFailure(Top.args) # NoParts
            <4>1. ~Blamed(answer)
                BY <3>4, <3>6 DEF Good, Blamed
            <4>2. /\ parts.stage = "INPUT"
                  /\ parts.status \in {"NULL_POINTER", "INVALID_OPTIONS", "INVALID_UTF8"}
                BY <3>6, FailureFacts
            <4> QED
                BY <3>2, <3>3, <4>1, <4>2 DEF BlameIsRight
        <3>7. ASSUME NEW cause \in CoreErrors(Top), parts = FailureOf(Top, cause)
              PROVE  BlameIsRight
            <4>1. /\ cause.status = "EVALUATION_ERROR"
                  /\ cause.stage \notin {"RESOLVER", "INVALID_VALUE"}
                BY <3>7 DEF CoreErrors, ParseErrors, EvalErrors, Parts
            <4>2. parts = IF OwedParts(answer) # NoParts THEN OwedParts(answer) ELSE cause
                BY <3>4, <3>7 DEF FailureOf
            <4>3. CASE Blamed(answer)
                BY <3>2, <3>3, <3>4, <4>2, <4>3, BlameFacts DEF BlameIsRight
            <4>4. CASE ~Blamed(answer)
                BY <3>2, <3>3, <3>4, <4>1, <4>2, <4>4, BlameFacts DEF BlameIsRight
            <4> QED
                BY <4>3, <4>4
        <3> QED
            BY <3>1, <3>5, <3>6, <3>7 DEF Reports
    <2>2. CASE ParseSucceeds \/ EvaluateSucceeds
        <3>1. Running /\ returned' = "OK"
            BY <2>2 DEF ParseSucceeds, EvaluateSucceeds, Return, Admitted
        <3>2. /\ answer \in Answers \cup {NotAsked}
              /\ Top.last_error_parts = OwedParts(answer)
              /\ Good(Top)
              /\ Top.args \in Arguments
            BY <3>1, RunningFacts
        <3>3. CASE ParseSucceeds
            <4>1. Top.args.entry \in Entries /\ Top.args.entry.op = "parse"
                BY <3>2, <3>3 DEF Arguments, ParseSucceeds
            <4>2. ~Top.args.entry.callback
                BY <4>1, ParsingTakesNoCallback
            <4>3. ~Blamed(answer)
                BY <3>2, <4>2 DEF Good, Blamed
            <4> QED
                BY <3>1, <4>3 DEF BlameIsRight
        <3>4. CASE EvaluateSucceeds
            <4>1. Top.last_error_parts = NoParts
                BY <3>4 DEF EvaluateSucceeds
            <4>2. ~Blamed(answer)
                BY <3>2, <4>1, BlameFacts
            <4> QED
                BY <3>1, <4>2 DEF BlameIsRight
        <3> QED
            BY <2>2, <3>3, <3>4
    <2> QED
        BY <2>1, <2>2, NotReturning DEF Next
<1> QED
    BY <1>1, Invariance, PTL DEF Spec, BlameIsAlwaysRight

-----------------------------------------------------------------------------
(***************************************************************************)
(* What an error object tells the host.                                    *)
(***************************************************************************)

\* A set of natural numbers that is not empty has a least element.
LEMMA LeastNumber ==
  ASSUME NEW S \in SUBSET Nat, S # {}
  PROVE  \E m \in S : \A k \in S : m =< k
<1>1. PICK m \in S : \A k \in S : <<k, m>> \notin OpToRel(<, Nat)
  BY NatLessThanWellFounded, WFMin, Zenon
<1>2. \A k \in S : ~(k < m)
  BY <1>1, Zenon DEF OpToRel
<1>3. QED
  BY <1>2

-----------------------------------------------------------------------------
(* The parts of an error.                                                  *)

\* A range is two offsets, the first not after the second.
LEMMA RangeFacts ==
  ASSUME NEW span, IsRange(span)
  PROVE  /\ span = Span(span[1], span[2]) /\ span # NoSpan
         /\ span[1] \in Nat /\ span[2] \in Nat /\ span[1] =< span[2]
BY DEF IsRange, Span, NoSpan

\* A count or an offset that fits is kept; a larger one becomes the greatest.
LEMMA SaturatedFacts ==
  ASSUME NEW n \in Nat
  PROVE  /\ UsizeToI32Saturating(n) \in 0 .. MaxI32
         /\ UsizeToI32Saturating(n) =< n
         /\ n =< MaxI32 => UsizeToI32Saturating(n) = n
         /\ UsizeToI32Saturating(n) < MaxI32 => UsizeToI32Saturating(n) = n
BY MaxI32Assumption DEF UsizeToI32Saturating

\* The code says the cause.
LEMMA CodeFacts ==
  ASSUME NEW f \in Failures
  PROVE  /\ f.variant = "ResourceLimit" => PartsOf(f).code = LimitCode[f.kind]
         /\ f.variant = "Lexical" => PartsOf(f).code = 100
         /\ f.variant = "Parse" => PartsOf(f).code = IF f.hard THEN 200 ELSE 201
         /\ f.variant = "Eval" => PartsOf(f).code = EvalCode[f.kind]
         /\ f.variant = "input" => PartsOf(f).code = CASE f.kind = "NULL_POINTER" -> 1
                                                       [] f.kind = "INVALID_UTF8" -> 2
                                                       [] OTHER -> 700
         /\ f.variant = "panic" => PartsOf(f).code = 3
         /\ f.variant = "callback" => PartsOf(f).code = 500
         /\ f.variant = "value" => PartsOf(f).code = 600
<1>1. IsFailure(f)
  BY FailuresAssumption
<1>2. ASSUME f.variant = "Parse"
      PROVE  PartsOf(f).code = IF f.hard THEN 200 ELSE 201
  <2> DEFINE d == CoreDiagnostics(f)
             recoveries == {n \in DOMAIN d : IsRecovery(d[n])}
  <2>1. /\ Len(f.errors) \in Nat \ {0} /\ DOMAIN f.errors = 1 .. Len(f.errors)
        /\ f.hard \in BOOLEAN /\ \A n \in DOMAIN f.errors : IsParseError(f.errors[n])
    BY <1>1, <1>2 DEF IsFailure
  <2>2. DOMAIN d = 1 .. Len(f.errors)
    BY <2>1 DEF CoreDiagnostics
  <2>3. f.hard => recoveries = {}
    BY <2>1, <2>2 DEF CoreDiagnostics, IsRecovery, ParseErrorToDiagnostic, Kind, IsParseError
  <2>4. ~f.hard => recoveries = 1 .. Len(f.errors)
    BY <2>1, <2>2 DEF CoreDiagnostics, IsRecovery, RecoveryToDiagnostic
  <2>5. f.hard => RecoveryCount(d) = 0
    BY <2>3, FS_EmptySet DEF RecoveryCount
  <2>6. ~f.hard => RecoveryCount(d) = Len(f.errors)
    <3>1. Cardinality(1 .. Len(f.errors)) = Len(f.errors)
      BY <2>1, FS_Interval
    <3>2. RecoveryCount(d) = Cardinality(recoveries)
      BY DEF RecoveryCount
    <3>3. QED
      BY <2>4, <3>1, <3>2
  <2> HIDE DEF d, recoveries
  <2>7. PartsOf(f).code = IF RecoveryCount(d) > 0 THEN 201 ELSE 200
    BY <1>2 DEF PartsOf, ParseErrorParts, ErrorParts, d
  <2>8. QED
    BY <2>1, <2>5, <2>6, <2>7
<1>3. QED
  BY <1>1, <1>2
  DEF IsFailure, PartsOf, ResourceLimitErrorParts, LexicalErrorParts, EvalErrorParts,
      InputErrorParts, PanicErrorParts, ResolverErrorParts, InvalidValueErrorParts, ErrorParts

\* What the error object has for the n-th diagnostic of a failed parse.
LEMMA ReportedFacts ==
  ASSUME NEW f \in Failures, f.variant = "Parse"
  PROVE  LET diagnostics == PartsOf(f).diagnostics
         IN  /\ Len(f.errors) \in Nat \ {0} /\ DOMAIN f.errors = 1 .. Len(f.errors)
             /\ \A n \in 1 .. Len(f.errors) : IsParseError(f.errors[n])
             /\ diagnostics \in Seq({FfiDiagnostic(CoreDiagnostics(f)[n]) : n \in 1 .. Len(f.errors)})
             /\ Len(diagnostics) = Len(f.errors) /\ DOMAIN diagnostics = 1 .. Len(f.errors)
             /\ \A n \in 1 .. Len(f.errors) :
                  LET e == f.errors[n]
                      d == diagnostics[n]
                  IN  /\ d.kind = IF f.hard THEN DiagnosticKindOf[e.is] ELSE 6
                      /\ d.kind \in 1 .. 6
                      /\ CoreDiagnostics(f)[n].span = ParseErrorToDiagnostic(e).span
                      /\ d.span = SaturatedSpan(ParseErrorToDiagnostic(e).span)
                      /\ d.expected_tokens =
                           IF e.is \in {"UnrecognizedEof", "UnrecognizedToken"} THEN e.expected ELSE <<>>
                      /\ d.expected_tokens \in Seq(STRING)
<1> DEFINE D == PartsOf(f).diagnostics
           K == Len(f.errors)
<1>1. /\ K \in Nat \ {0} /\ DOMAIN f.errors = 1 .. K
      /\ f.hard \in BOOLEAN /\ \A n \in 1 .. K : IsParseError(f.errors[n])
  BY FailuresAssumption DEF IsFailure
<1>2. D = [n \in 1 .. K |-> FfiDiagnostic(CoreDiagnostics(f)[n])]
  BY <1>1 DEF PartsOf, ParseErrorParts, ErrorParts, CoreDiagnostics
<1>3. ASSUME NEW n \in 1 .. K
      PROVE  LET e == f.errors[n]
                 d == D[n]
             IN  /\ d.kind = IF f.hard THEN DiagnosticKindOf[e.is] ELSE 6
                 /\ d.kind \in 1 .. 6
                 /\ CoreDiagnostics(f)[n].span = ParseErrorToDiagnostic(e).span
                 /\ d.span = SaturatedSpan(ParseErrorToDiagnostic(e).span)
                 /\ d.expected_tokens =
                      IF e.is \in {"UnrecognizedEof", "UnrecognizedToken"} THEN e.expected ELSE <<>>
                 /\ d.expected_tokens \in Seq(STRING)
  <2> DEFINE e == f.errors[n]
             cause == ParseErrorToDiagnostic(e)
             c == CoreDiagnostics(f)[n]
  <2>1. c = IF f.hard THEN cause ELSE RecoveryToDiagnostic(e)
    BY <1>1 DEF CoreDiagnostics
  <2>2. IsParseError(e)
    BY <1>1
  <2> HIDE DEF c, e
  <2>3. /\ cause.kind.name = e.is
        /\ cause.kind.expected = IF e.is \in {"UnrecognizedEof", "UnrecognizedToken"}
                                 THEN e.expected ELSE <<>>
    BY DEF ParseErrorToDiagnostic, Kind
  <2>4. c.span = cause.span
    BY <2>1 DEF RecoveryToDiagnostic
  <2>5. c.kind.name = IF f.hard THEN e.is ELSE "Recovery"
    BY <2>1, <2>3 DEF RecoveryToDiagnostic
  <2>6. ExpectedTokens(c.kind) = cause.kind.expected
    BY <2>1, <2>2, <2>3 DEF RecoveryToDiagnostic, ExpectedTokens, IsParseError
  <2>7. DiagnosticKindOf[c.kind.name] \in 1 .. 6 /\ DiagnosticKindOf["Recovery"] = 6
    BY <1>1, <2>2, <2>5 DEF DiagnosticKindOf, IsParseError
  <2>8. D[n] = FfiDiagnostic(c)
    BY <1>2 DEF c
  <2>9. e.is \in {"UnrecognizedEof", "UnrecognizedToken"} => e.expected \in Seq(STRING)
    BY <2>2 DEF IsParseError
  <2> HIDE DEF cause, D
  <2>10. /\ D[n].kind = DiagnosticKindOf[c.kind.name]
         /\ D[n].span = SaturatedSpan(cause.span)
         /\ D[n].expected_tokens = cause.kind.expected
    BY <2>4, <2>6, <2>8 DEF FfiDiagnostic
  <2>11. /\ D[n].kind = IF f.hard THEN DiagnosticKindOf[e.is] ELSE 6
         /\ D[n].kind \in 1 .. 6
    BY <2>5, <2>7, <2>10
  <2>12. /\ D[n].expected_tokens = IF e.is \in {"UnrecognizedEof", "UnrecognizedToken"}
                                   THEN e.expected ELSE <<>>
         /\ D[n].expected_tokens \in Seq(STRING)
    <3>1. <<>> \in Seq(STRING)
      OBVIOUS
    <3>2. QED
      BY <2>3, <2>9, <2>10, <3>1
  <2>13. QED
    BY <2>4, <2>10, <2>11, <2>12 DEF c, cause, e
<1>4. /\ D \in Seq({FfiDiagnostic(CoreDiagnostics(f)[n]) : n \in 1 .. K})
      /\ Len(D) = K /\ DOMAIN D = 1 .. K
  BY <1>1, <1>2
<1>5. QED
  BY <1>1, <1>3, <1>4

\* No other failure has diagnostics.
LEMMA OthersReportNone ==
  ASSUME NEW f \in Failures, f.variant # "Parse"
  PROVE  PartsOf(f).diagnostics = <<>>
BY FailuresAssumption
DEF IsFailure, PartsOf, ResourceLimitErrorParts, LexicalErrorParts, EvalErrorParts,
    InputErrorParts, PanicErrorParts, ResolverErrorParts, InvalidValueErrorParts, ErrorParts

-----------------------------------------------------------------------------
(* The invariant of the walk.                                              *)

\* The error object of the call.
ErrorOf(f) == IntoFfiError(PartsOf(f))

DiagnosticCount(f) == Fields(ErrorOf(f)).diagnostic_count

\* What a host reads of the first n diagnostics of it.
Diagnostic(f, i) == DiagnosticAt(ErrorOf(f), i - 1)
FirstDiagnostics(f, n) == [i \in 1 .. n |-> Diagnostic(f, i)]

\* And of the first k expected tokens of the i-th.
TokenCount(f, i) == Diagnostic(f, i).expected_count
FirstTokens(f, i, k) == [j \in 1 .. k |-> ExpectedTokenAt(ErrorOf(f), i - 1, j - 1)]

\* The pointer, and what was read through it.
ErrorHeld ==
    /\ failure \in Failures
    /\ pc \in {"call", "head", "diagnostic", "expected", "free", "done"}
    /\ error = IF pc \in {"call", "done"} THEN NullPointer ELSE ErrorOf(failure)
    /\ head = IF pc \in {"call", "head"} THEN Fields(NullPointer) ELSE Fields(ErrorOf(failure))

\* The diagnostics read so far are the first ones.
DiagnosticsRead ==
    /\ Len(seen) \in 0 .. DiagnosticCount(failure)
    /\ seen = FirstDiagnostics(failure, Len(seen))
    /\ pc \in {"call", "head"} => Len(seen) = 0
    /\ pc = "expected" => Len(seen) > 0
    /\ WalkDone => Len(seen) = DiagnosticCount(failure)

\* So are the expected tokens of each: all of them, but for the diagnostic that
\* is being read.
TokensRead ==
    /\ Len(tokens) = Len(seen)
    /\ tokens = [i \in 1 .. Len(seen) |-> tokens[i]]
    /\ \A i \in 1 .. Len(seen) :
         \E k \in 0 .. TokenCount(failure, i) :
            /\ tokens[i] = FirstTokens(failure, i, k)
            /\ i < Len(seen) \/ pc # "expected" => k = TokenCount(failure, i)

\* The inductive invariant.
WalkInv == ErrorHeld /\ DiagnosticsRead /\ TokensRead

\* The counts are numbers.
LEMMA CountFacts ==
  ASSUME NEW f \in Failures
  PROVE  LET D == PartsOf(f).diagnostics
         IN  /\ Len(D) \in Nat /\ DOMAIN D = 1 .. Len(D)
             /\ ErrorOf(f).diagnostics = D /\ ErrorOf(f) # NullPointer
             /\ Fields(ErrorOf(f)).diagnostic_count = UsizeToI32Saturating(Len(D))
             /\ Fields(ErrorOf(f)).diagnostic_count \in 0 .. MaxI32
             /\ Fields(ErrorOf(f)).diagnostic_count =< Len(D)
             /\ \A i \in Int : i \in 0 .. Len(D) - 1 =>
                  /\ D[i + 1].expected_tokens \in Seq(STRING)
                  /\ D[i + 1].kind \in 1 .. 6
                  /\ DiagnosticAt(ErrorOf(f), i) =
                       [kind |-> D[i + 1].kind,
                        has_span |-> IF D[i + 1].span = NoSpan THEN 0 ELSE 1,
                        span_start |-> IF D[i + 1].span = NoSpan THEN -1 ELSE D[i + 1].span[1],
                        span_end |-> IF D[i + 1].span = NoSpan THEN -1 ELSE D[i + 1].span[2],
                        expected_count |-> UsizeToI32Saturating(Len(D[i + 1].expected_tokens))]
             /\ \A i \in Int : i \notin 0 .. Len(D) - 1 =>
                  DiagnosticAt(ErrorOf(f), i) =
                    [kind |-> 0, has_span |-> 0, span_start |-> -1, span_end |-> -1,
                     expected_count |-> 0]
             /\ \A i \in Int : DiagnosticAt(ErrorOf(f), i).expected_count \in 0 .. MaxI32
<1> DEFINE D == PartsOf(f).diagnostics
           E == ErrorOf(f)
<1>1. Len(D) \in Nat /\ DOMAIN D = 1 .. Len(D)
  <2>1. CASE f.variant = "Parse"
    BY <2>1, ReportedFacts
  <2>2. CASE f.variant # "Parse"
    BY <2>2, OthersReportNone
  <2>3. QED
    BY <2>1, <2>2
<1>2. E.diagnostics = D /\ E # NullPointer /\ E.diagnostic_count = UsizeToI32Saturating(Len(D))
  BY NullAssumption DEF ErrorOf, IntoFfiError
<1>3. \A i \in 0 .. Len(D) - 1 :
        D[i + 1].expected_tokens \in Seq(STRING) /\ D[i + 1].kind \in 1 .. 6
  <2>1. CASE f.variant = "Parse"
    <3>1. /\ Len(D) = Len(f.errors)
          /\ \A n \in 1 .. Len(f.errors) :
               D[n].expected_tokens \in Seq(STRING) /\ D[n].kind \in 1 .. 6
      BY <2>1, ReportedFacts
    <3> HIDE DEF D
    <3>2. \A i \in 0 .. Len(D) - 1 : i + 1 \in 1 .. Len(D)
      BY <1>1
    <3>3. QED
      BY <3>1, <3>2
  <2>2. CASE f.variant # "Parse"
    <3>1. D = <<>>
      BY <2>2, OthersReportNone
    <3>2. QED
      BY <3>1
  <2>3. QED
    BY <2>1, <2>2
<1> HIDE DEF D, E
<1>4. \A i \in Int : Readable(D, i) <=> i \in 0 .. Len(D) - 1
  BY <1>1 DEF Readable
<1>5. Fields(E).diagnostic_count = UsizeToI32Saturating(Len(D))
  BY <1>2 DEF Fields
<1>6. /\ Fields(E).diagnostic_count \in 0 .. MaxI32
      /\ Fields(E).diagnostic_count =< Len(D)
  BY <1>1, <1>5, SaturatedFacts
<1>7. ASSUME NEW i \in Int, i \in 0 .. Len(D) - 1
      PROVE  DiagnosticAt(E, i) =
               [kind |-> D[i + 1].kind,
                has_span |-> IF D[i + 1].span = NoSpan THEN 0 ELSE 1,
                span_start |-> IF D[i + 1].span = NoSpan THEN -1 ELSE D[i + 1].span[1],
                span_end |-> IF D[i + 1].span = NoSpan THEN -1 ELSE D[i + 1].span[2],
                expected_count |-> UsizeToI32Saturating(Len(D[i + 1].expected_tokens))]
  BY <1>2, <1>4, <1>7 DEF DiagnosticAt
<1>8. ASSUME NEW i \in Int, i \notin 0 .. Len(D) - 1
      PROVE  DiagnosticAt(E, i) =
               [kind |-> 0, has_span |-> 0, span_start |-> -1, span_end |-> -1,
                expected_count |-> 0]
  BY <1>2, <1>4, <1>8 DEF DiagnosticAt
<1>9. ASSUME NEW i \in Int
      PROVE  DiagnosticAt(E, i).expected_count \in 0 .. MaxI32
  <2>1. CASE i \in 0 .. Len(D) - 1
    <3>1. Len(D[i + 1].expected_tokens) \in Nat
      BY <1>3, <2>1
    <3>2. QED
      BY <1>7, <2>1, <3>1, SaturatedFacts
  <2>2. CASE i \notin 0 .. Len(D) - 1
    BY <1>8, <2>2, MaxI32Assumption
  <2>3. QED
    BY <2>1, <2>2
<1>10. QED
  BY <1>1, <1>2, <1>3, <1>5, <1>6, <1>7, <1>8, <1>9 DEF D, E

\* A call returns, and nothing has been read.
LEMMA InitInv ==
  ASSUME WalkInit
  PROVE  WalkInv
<1>1. DiagnosticCount(failure) \in 0 .. MaxI32
  BY CountFacts DEF WalkInit, DiagnosticCount
<1>2. seen = FirstDiagnostics(failure, Len(seen)) /\ Len(seen) = 0 /\ Len(tokens) = 0
  BY DEF WalkInit, FirstDiagnostics
<1>3. QED
  BY <1>1, <1>2, MaxI32Assumption
  DEF WalkInit, WalkInv, ErrorHeld, DiagnosticsRead, TokensRead, WalkDone

\* Steps that read no diagnostic and no token.
LEMMA OthersKeep ==
  ASSUME WalkInv, FailureFromParts \/ ReadHead \/ EndOfWalk \/ Free \/ UNCHANGED walkVars
  PROVE  WalkInv'
<1>1. ErrorHeld'
  BY DEF FailureFromParts, ReadHead, EndOfWalk, Free, walkVars, WalkInv, ErrorHeld, ErrorOf
<1>2. DiagnosticsRead'
  BY DEF FailureFromParts, ReadHead, EndOfWalk, Free, walkVars, WalkInv, ErrorHeld, DiagnosticsRead,
         DiagnosticCount, WalkDone
<1>3. TokensRead'
  BY DEF FailureFromParts, ReadHead, EndOfWalk, Free, walkVars, WalkInv, DiagnosticsRead, TokensRead
<1>4. QED
  BY <1>1, <1>2, <1>3 DEF WalkInv

\* Reading a diagnostic starts an empty list of its tokens.
LEMMA ReadDiagnosticKeeps ==
  ASSUME WalkInv, ReadDiagnostic
  PROVE  WalkInv'
<1> DEFINE n == Len(seen)
<1>1. /\ pc = "diagnostic" /\ pc' = "expected" /\ UNCHANGED <<failure, error, head>>
      /\ error = ErrorOf(failure) /\ n < DiagnosticCount(failure) /\ failure \in Failures
      /\ seen' = Append(seen, DiagnosticAt(ErrorOf(failure), n))
      /\ tokens' = Append(tokens, <<>>)
  BY DEF ReadDiagnostic, WalkInv, ErrorHeld, DiagnosticCount
<1>2. DiagnosticCount(failure) \in Nat /\ \A i \in 1 .. n + 1 : TokenCount(failure, i) \in Nat
  BY <1>1, CountFacts, MaxI32Assumption
  DEF WalkInv, DiagnosticsRead, DiagnosticCount, TokenCount, Diagnostic
<1>3. n \in Nat /\ n + 1 \in 0 .. DiagnosticCount(failure)
  BY <1>1, <1>2 DEF WalkInv, DiagnosticsRead
<1>4. /\ seen = FirstDiagnostics(failure, n)
      /\ Len(tokens) = n /\ tokens = [i \in 1 .. n |-> tokens[i]]
      /\ \A i \in 1 .. n : tokens[i] = FirstTokens(failure, i, TokenCount(failure, i))
  BY <1>1 DEF WalkInv, DiagnosticsRead, TokensRead
<1>5. seen' = FirstDiagnostics(failure, n + 1) /\ Len(seen') = n + 1
  <2>1. seen \in Seq({Diagnostic(failure, i) : i \in 1 .. n}) /\ Len(seen) = n
    BY <1>3, <1>4 DEF FirstDiagnostics
  <2>2. DiagnosticAt(ErrorOf(failure), n) = Diagnostic(failure, n + 1)
    BY <1>3 DEF Diagnostic
  <2> HIDE DEF n
  <2>3. QED
    BY <1>1, <1>3, <1>4, <2>1, <2>2 DEF FirstDiagnostics
<1>6. /\ Len(tokens') = n + 1 /\ tokens' = [i \in 1 .. n + 1 |-> tokens'[i]]
      /\ \A i \in 1 .. n : tokens'[i] = tokens[i]
      /\ tokens'[n + 1] = <<>>
  <2> HIDE DEF n
  <2>1. tokens \in Seq({tokens[i] : i \in 1 .. n})
    BY <1>3, <1>4
  <2>2. QED
    BY <1>1, <1>3, <1>4, <2>1
<1>7. ErrorHeld'
  BY <1>1 DEF WalkInv, ErrorHeld
<1>8. DiagnosticsRead'
  BY <1>1, <1>3, <1>5 DEF DiagnosticsRead, WalkDone
<1>9. TokensRead'
  <2> HIDE DEF n
  <2>1. ASSUME NEW i \in 1 .. n + 1
        PROVE  \E k \in 0 .. TokenCount(failure, i) :
                 /\ tokens'[i] = FirstTokens(failure, i, k)
                 /\ i < n + 1 => k = TokenCount(failure, i)
    <3>1. CASE i \in 1 .. n
      BY <1>2, <1>4, <1>6, <3>1
    <3>2. CASE i = n + 1
      <4>1. tokens'[i] = FirstTokens(failure, i, 0)
        BY <1>6, <3>2 DEF FirstTokens
      <4>2. QED
        BY <1>2, <1>3, <3>2, <4>1
    <3>3. QED
      BY <1>3, <3>1, <3>2
  <2>2. QED
    BY <1>1, <1>5, <1>6, <2>1 DEF TokensRead
<1>10. QED
  BY <1>7, <1>8, <1>9 DEF WalkInv

\* Reading a token adds it to those of the last diagnostic.
LEMMA ReadExpectedKeeps ==
  ASSUME WalkInv, ReadExpected \/ NextDiagnostic
  PROVE  WalkInv'
<1> DEFINE n == Len(seen)
           count == TokenCount(failure, n)
<1>1. /\ pc = "expected" /\ pc' \in {"expected", "diagnostic"}
      /\ UNCHANGED <<failure, error, head, seen>>
      /\ error = ErrorOf(failure) /\ failure \in Failures
      /\ n \in Nat \ {0} /\ seen[n].expected_count = count
  <2>1. failure \in Failures /\ n \in 1 .. DiagnosticCount(failure)
        /\ seen = FirstDiagnostics(failure, n) /\ pc = "expected"
    BY DEF ReadExpected, NextDiagnostic, WalkInv, ErrorHeld, DiagnosticsRead
  <2>2. n \in Nat \ {0}
    BY <2>1, CountFacts, MaxI32Assumption DEF DiagnosticCount
  <2> HIDE DEF n
  <2>3. seen[n].expected_count = TokenCount(failure, n)
    BY <2>1, <2>2 DEF FirstDiagnostics, TokenCount
  <2>4. QED
    BY <2>1, <2>2, <2>3 DEF ReadExpected, NextDiagnostic, WalkInv, ErrorHeld
<1>2. count \in Nat
  BY <1>1, CountFacts, MaxI32Assumption DEF TokenCount, Diagnostic
<1>3. /\ Len(tokens) = n /\ tokens = [i \in 1 .. n |-> tokens[i]]
      /\ \A i \in 1 .. n :
           \E k \in 0 .. TokenCount(failure, i) :
              /\ tokens[i] = FirstTokens(failure, i, k)
              /\ i < n => k = TokenCount(failure, i)
  BY <1>1 DEF WalkInv, TokensRead
<1>4. PICK k \in 0 .. count : tokens[n] = FirstTokens(failure, n, k)
  BY <1>1, <1>3
<1>5. Len(tokens[n]) = k
  BY <1>2, <1>4 DEF FirstTokens
<1>6. ErrorHeld' /\ DiagnosticsRead'
  BY <1>1 DEF WalkInv, ErrorHeld, DiagnosticsRead, WalkDone
<1>7. TokensRead'
  <2> HIDE DEF n, count
  <2>1. CASE NextDiagnostic
    <3>1. tokens' = tokens /\ k = count
      BY <1>1, <1>5, <2>1 DEF NextDiagnostic, n
    <3>2. \A i \in 1 .. n : tokens[i] = FirstTokens(failure, i, TokenCount(failure, i))
                             /\ TokenCount(failure, i) \in 0 .. TokenCount(failure, i)
      BY <1>1, <1>2, <1>3, <1>4, <3>1 DEF count
    <3>3. QED
      BY <1>1, <1>3, <3>1, <3>2 DEF TokensRead, n
  <2>2. CASE ReadExpected
    <3>1. /\ pc' = "expected" /\ k < count
          /\ tokens' = [tokens EXCEPT ![n] = Append(tokens[n], ExpectedTokenAt(ErrorOf(failure), n - 1, k))]
      BY <1>1, <1>5, <2>2 DEF ReadExpected, n
    <3>2. Append(tokens[n], ExpectedTokenAt(ErrorOf(failure), n - 1, k)) = FirstTokens(failure, n, k + 1)
      <4> DEFINE new == ExpectedTokenAt(ErrorOf(failure), n - 1, k)
                 at(j) == ExpectedTokenAt(ErrorOf(failure), n - 1, j - 1)
      <4>1. k \in Nat /\ at(k + 1) = new
        BY <1>2
      <4>2. tokens[n] = [j \in 1 .. k |-> at(j)] /\ FirstTokens(failure, n, k + 1) = [j \in 1 .. k + 1 |-> at(j)]
        BY <1>4 DEF FirstTokens
      <4> HIDE DEF new, at
      <4>3. tokens[n] \in Seq({at(j) : j \in 1 .. k})
        BY <4>1, <4>2
      <4>4. Append(tokens[n], new) = [j \in 1 .. k + 1 |-> at(j)]
        BY <1>5, <4>1, <4>2, <4>3
      <4>5. QED
        BY <4>2, <4>4 DEF new
    <3>3. /\ Len(tokens') = n /\ tokens' = [i \in 1 .. n |-> tokens'[i]]
          /\ tokens'[n] = FirstTokens(failure, n, k + 1)
          /\ \A i \in 1 .. n : i # n => tokens'[i] = tokens[i]
      <4>1. tokens' = [tokens EXCEPT ![n] = FirstTokens(failure, n, k + 1)]
        BY <3>1, <3>2
      <4>2. tokens' = [i \in 1 .. n |-> IF i = n THEN FirstTokens(failure, n, k + 1) ELSE tokens[i]]
        BY <1>1, <1>3, <4>1
      <4>3. n \in Nat \ {0}
        BY <1>1 DEF n
      <4>4. QED
        BY <4>2, <4>3
    <3>4. k + 1 \in 0 .. count
      BY <1>2, <3>1
    <3>5. \A i \in 1 .. n :
             \E m \in 0 .. TokenCount(failure, i) :
                /\ tokens'[i] = FirstTokens(failure, i, m)
                /\ i < n => m = TokenCount(failure, i)
      <4> TAKE i \in 1 .. n
      <4>1. CASE i = n
        BY <1>1, <3>3, <3>4, <4>1 DEF count
      <4>2. CASE i # n
        BY <1>3, <3>3, <4>2
      <4>3. QED
        BY <4>1, <4>2
    <3>6. QED
      BY <1>1, <3>1, <3>3, <3>5 DEF TokensRead, n
  <2>3. QED
    BY <2>1, <2>2
<1>8. QED
  BY <1>6, <1>7 DEF WalkInv

\* Every step keeps the invariant.
LEMMA NextKeeps ==
  ASSUME WalkInv, [WalkNext]_walkVars
  PROVE  WalkInv'
BY OthersKeep, ReadDiagnosticKeeps, ReadExpectedKeeps DEF WalkNext

-----------------------------------------------------------------------------
(* The theorems.                                                           *)

\* A host's walk has read the first diagnostics, and the first tokens of each,
\* of the error object it holds.
THEOREM WalkInvariance == WalkSpec => []WalkInv
<1>1. WalkInit => WalkInv
  BY InitInv
<1>2. WalkInv /\ [WalkNext]_walkVars => WalkInv'
  BY NextKeeps
<1>3. QED
  BY <1>1, <1>2, PTL DEF WalkSpec

\* At the end of the walk all has been read.
LEMMA WalkIsWhole ==
  ASSUME WalkInv, WalkDone
  PROVE  LET n == DiagnosticCount(failure)
         IN  /\ failure \in Failures /\ n \in Nat /\ head = Fields(ErrorOf(failure))
             /\ seen = FirstDiagnostics(failure, n) /\ Len(seen) = n /\ DOMAIN seen = 1 .. n
             /\ \A i \in 1 .. n :
                  tokens[i] = FirstTokens(failure, i, TokenCount(failure, i))
<1>1. failure \in Failures /\ head = Fields(ErrorOf(failure)) /\ pc # "expected"
  BY DEF WalkDone, WalkInv, ErrorHeld
<1>2. DiagnosticCount(failure) \in Nat
  BY <1>1, CountFacts, MaxI32Assumption DEF DiagnosticCount
<1>3. Len(seen) = DiagnosticCount(failure) /\ seen = FirstDiagnostics(failure, Len(seen))
  BY DEF WalkInv, DiagnosticsRead
<1>4. DOMAIN seen = 1 .. DiagnosticCount(failure)
  BY <1>3 DEF FirstDiagnostics
<1>5. QED
  BY <1>1, <1>2, <1>3, <1>4 DEF WalkInv, TokensRead

\* The code tells the causes of failures apart, whatever else they differ in.
LEMMA SameCodeSameCause ==
  ASSUME NEW f \in Failures, NEW g \in Failures
  PROVE  PartsOf(g).code = PartsOf(f).code <=> Cause(g) = Cause(f)
<1> DEFINE CodesOf(v) == CASE v = "ResourceLimit" -> 301 .. 306
                           [] v = "Lexical" -> {100}
                           [] v = "Parse" -> {200, 201}
                           [] v = "Eval" -> 401 .. 412
                           [] v = "input" -> {1, 2, 700}
                           [] v = "panic" -> {3}
                           [] v = "callback" -> {500}
                           [] v = "value" -> {600}
           Variants == {"ResourceLimit", "Lexical", "Parse", "Eval", "input", "panic",
                        "callback", "value"}
<1>1. /\ IsFailure(f) /\ IsFailure(g)
      /\ f.variant \in Variants /\ g.variant \in Variants
  BY FailuresAssumption DEF IsFailure
<1>2. ASSUME NEW h \in Failures
      PROVE  PartsOf(h).code \in CodesOf(h.variant)
  <2>1. IsFailure(h)
    BY FailuresAssumption
  <2>2. QED
    BY <2>1, CodeFacts DEF IsFailure, LimitCode, EvalCode
<1>3. CASE f.variant # g.variant
  <2>1. Cause(f)[1] = f.variant /\ Cause(g)[1] = g.variant
    BY <1>1 DEF Cause
  <2>2. \A v, w \in Variants : v # w => CodesOf(v) \cap CodesOf(w) = {}
    OBVIOUS
  <2> HIDE DEF CodesOf, Variants
  <2>3. QED
    BY <1>1, <1>2, <1>3, <2>1, <2>2
<1>4. CASE f.variant = g.variant
  <2> HIDE DEF CodesOf, Variants
  <2>1. CASE f.variant = "ResourceLimit"
    <3>1. f.kind \in DOMAIN LimitCode /\ g.kind \in DOMAIN LimitCode
      BY <1>1, <1>4, <2>1 DEF IsFailure
    <3>2. \A k, m \in DOMAIN LimitCode : LimitCode[k] = LimitCode[m] => k = m
      BY DEF LimitCode
    <3>3. PartsOf(f).code = LimitCode[f.kind] /\ PartsOf(g).code = LimitCode[g.kind]
      <4>1. g.variant = "ResourceLimit"
        BY <1>4, <2>1
      <4>2. QED
        BY <2>1, <4>1, CodeFacts
    <3>4. Cause(f) = <<f.variant, f.kind>> /\ Cause(g) = <<g.variant, g.kind>>
      BY <1>4, <2>1 DEF Cause
    <3>5. QED
      BY <1>4, <3>1, <3>2, <3>3, <3>4
  <2>2. CASE f.variant = "Eval"
    <3>1. f.kind \in DOMAIN EvalCode /\ g.kind \in DOMAIN EvalCode
      BY <1>1, <1>4, <2>2 DEF IsFailure
    <3>2. \A k, m \in DOMAIN EvalCode : EvalCode[k] = EvalCode[m] => k = m
      BY DEF EvalCode
    <3>3. PartsOf(f).code = EvalCode[f.kind] /\ PartsOf(g).code = EvalCode[g.kind]
      <4>1. g.variant = "Eval"
        BY <1>4, <2>2
      <4>2. QED
        BY <2>2, <4>1, CodeFacts
    <3>4. Cause(f) = <<f.variant, f.kind>> /\ Cause(g) = <<g.variant, g.kind>>
      BY <1>4, <2>2 DEF Cause
    <3>5. QED
      BY <1>4, <3>1, <3>2, <3>3, <3>4
  <2>3. CASE f.variant = "input"
    <3> DEFINE code(k) == CASE k = "NULL_POINTER" -> 1
                            [] k = "INVALID_UTF8" -> 2
                            [] OTHER -> 700
               Kinds == {"NULL_POINTER", "INVALID_UTF8", "INVALID_OPTIONS"}
    <3>1. f.kind \in Kinds /\ g.kind \in Kinds
      BY <1>1, <1>4, <2>3 DEF IsFailure
    <3>2. \A k, m \in Kinds : code(k) = code(m) => k = m
      OBVIOUS
    <3>3. PartsOf(f).code = code(f.kind) /\ PartsOf(g).code = code(g.kind)
      <4>1. g.variant = "input"
        BY <1>4, <2>3
      <4>2. QED
        BY <2>3, <4>1, CodeFacts
    <3>4. Cause(f) = <<f.variant, f.kind>> /\ Cause(g) = <<g.variant, g.kind>>
      BY <1>4, <2>3 DEF Cause
    <3> HIDE DEF code
    <3>5. QED
      BY <1>4, <3>1, <3>2, <3>3, <3>4
  <2>4. CASE f.variant = "Parse"
    <3>1. f.hard \in BOOLEAN /\ g.hard \in BOOLEAN
      BY <1>1, <1>4, <2>4 DEF IsFailure
    <3>2. /\ PartsOf(f).code = IF f.hard THEN 200 ELSE 201
          /\ PartsOf(g).code = IF g.hard THEN 200 ELSE 201
      <4>1. g.variant = "Parse"
        BY <1>4, <2>4
      <4>2. QED
        BY <2>4, <4>1, CodeFacts
    <3>3. Cause(f) = <<f.variant, f.hard>> /\ Cause(g) = <<g.variant, g.hard>>
      BY <1>4, <2>4 DEF Cause
    <3>4. PartsOf(g).code = PartsOf(f).code <=> g.hard = f.hard
      BY <3>1, <3>2
    <3>5. QED
      BY <1>4, <3>3, <3>4
  <2>5. CASE f.variant \in {"Lexical", "panic", "callback", "value"}
    BY <1>4, <2>5, CodeFacts DEF Cause
  <2>6. QED
    BY <1>1, <2>1, <2>2, <2>3, <2>4, <2>5 DEF Variants
<1>5. QED
  BY <1>3, <1>4

\* The code a host reads is the cause of the failure, and its hundreds the
\* stage, for all failures there can be.
THEOREM CodesAreCauses == WalkSpec => []CodeIsTheCause
<1>1. WalkInv => CodeIsTheCause
  <2> SUFFICES ASSUME WalkInv, WalkDone
               PROVE  /\ head.code \div 100 \in HundredsOf(head.stage)
                      /\ \A other \in Failures :
                            PartsOf(other).code = head.code <=> Cause(other) = Cause(failure)
    BY DEF CodeIsTheCause
  <2>1. failure \in Failures /\ head = Fields(ErrorOf(failure)) /\ IsFailure(failure)
    BY WalkIsWhole, FailuresAssumption
  <2>2. /\ head.code = PartsOf(failure).code /\ head.stage = PartsOf(failure).stage
    BY <2>1, CountFacts DEF Fields, ErrorOf, IntoFfiError
  <2>3. head.code \div 100 \in HundredsOf(head.stage)
    <3>1. PartsOf(failure).stage = CASE failure.variant = "ResourceLimit" -> "RESOURCE_LIMIT"
                                     [] failure.variant = "Lexical" -> "LEXICAL"
                                     [] failure.variant = "Parse" -> "PARSE"
                                     [] failure.variant = "Eval" -> "EVALUATION"
                                     [] failure.variant = "input" -> "INPUT"
                                     [] failure.variant = "panic" -> "PANIC"
                                     [] failure.variant = "callback" -> "RESOLVER"
                                     [] failure.variant = "value" -> "INVALID_VALUE"
      BY <2>1
      DEF IsFailure, PartsOf, ResourceLimitErrorParts, LexicalErrorParts, EvalErrorParts,
          InputErrorParts, PanicErrorParts, ResolverErrorParts, InvalidValueErrorParts,
          ParseErrorParts, ErrorParts
    <3>2. QED
      BY <2>1, <2>2, <3>1, CodeFacts DEF IsFailure, LimitCode, EvalCode, HundredsOf
  <2>4. QED
    BY <2>1, <2>2, <2>3, SameCodeSameCause
<1>2. QED
  BY <1>1, WalkInvariance, PTL

\* A host that walks an error object by its counts finds every diagnostic the
\* parser reported, each with its own place and all of its expected tokens, and
\* none of any other failure, however many there are and however long the text.
THEOREM WalksFindAll == WalkSpec => []WalkFindsEveryDiagnostic
<1>1. WalkInv => WalkFindsEveryDiagnostic
  <2> SUFFICES ASSUME WalkInv, WalkDone
               PROVE  WalkFindsEveryDiagnostic
    BY DEF WalkFindsEveryDiagnostic
  <2> DEFINE n == DiagnosticCount(failure)
             D == PartsOf(failure).diagnostics
  <2>1. /\ failure \in Failures /\ n \in Nat
        /\ seen = FirstDiagnostics(failure, n) /\ Len(seen) = n /\ DOMAIN seen = 1 .. n
        /\ \A i \in 1 .. n : tokens[i] = FirstTokens(failure, i, TokenCount(failure, i))
    BY WalkIsWhole
  <2>2. /\ n = UsizeToI32Saturating(Len(D)) /\ n =< Len(D) /\ Len(D) \in Nat
        /\ ErrorOf(failure).diagnostics = D /\ ErrorOf(failure) # NullPointer
    BY <2>1, CountFacts DEF DiagnosticCount
  <2>3. CASE failure.variant # "Parse"
    <3>1. Len(D) = 0
      BY <2>1, <2>3, OthersReportNone
    <3>2. n = 0
      BY <2>1, <2>2, <3>1
    <3>3. seen = <<>>
      BY <2>1, <3>2 DEF FirstDiagnostics
    <3>4. QED
      BY <2>3, <3>3 DEF WalkFindsEveryDiagnostic
  <2>4. CASE failure.variant = "Parse"
    <3> DEFINE K == Len(failure.errors)
    <3>1. /\ K \in Nat \ {0} /\ Len(D) = K /\ DOMAIN D = 1 .. K
          /\ \A i \in 1 .. K : IsParseError(failure.errors[i])
          /\ \A i \in 1 .. K :
               LET e == failure.errors[i]
                   d == D[i]
               IN  /\ d.kind = IF failure.hard THEN DiagnosticKindOf[e.is] ELSE 6
                   /\ d.span = SaturatedSpan(ParseErrorToDiagnostic(e).span)
                   /\ d.expected_tokens =
                        IF e.is \in {"UnrecognizedEof", "UnrecognizedToken"} THEN e.expected ELSE <<>>
                   /\ d.expected_tokens \in Seq(STRING)
      BY <2>1, <2>4, ReportedFacts
    <3>2. Len(seen) = Clipped(Len(failure.errors))
      BY <2>1, <2>2, <3>1 DEF Clipped, UsizeToI32Saturating
    <3> HIDE DEF n, D, K
    <3>3. ASSUME NEW i \in 1 .. n
          PROVE  /\ Tells(seen[i], tokens[i], failure.errors[i])
                 /\ seen[i].kind = IF failure.hard THEN DiagnosticKindOf[failure.errors[i].is] ELSE 6
      <4> DEFINE e == failure.errors[i]
                 d == D[i]
                 U(x) == UsizeToI32Saturating(x)
      <4>1. i \in 1 .. K /\ i - 1 \in Int /\ i - 1 \in 0 .. Len(D) - 1 /\ i - 1 + 1 = i
        BY <2>1, <2>2, <3>1
      <4>2. seen[i] = [kind |-> d.kind,
                       has_span |-> IF d.span = NoSpan THEN 0 ELSE 1,
                       span_start |-> IF d.span = NoSpan THEN -1 ELSE d.span[1],
                       span_end |-> IF d.span = NoSpan THEN -1 ELSE d.span[2],
                       expected_count |-> U(Len(d.expected_tokens))]
        <5>1. seen[i] = DiagnosticAt(ErrorOf(failure), i - 1)
          BY <2>1 DEF FirstDiagnostics, Diagnostic
        <5>2. QED
          BY <2>1, <4>1, <5>1, CountFacts DEF D
      <4>3. tokens[i] = FirstTokens(failure, i, U(Len(d.expected_tokens)))
        <5>1. TokenCount(failure, i) = seen[i].expected_count
          BY <2>1 DEF FirstDiagnostics, TokenCount
        <5>2. QED
          BY <2>1, <4>2, <5>1
      <4>4. d.expected_tokens \in Seq(STRING) /\ Len(d.expected_tokens) \in Nat
        BY <3>1, <4>1
      <4> DEFINE x == d.expected_tokens
                 k == U(Len(x))
      <4>5. k \in Nat /\ k =< Len(x) /\ k = Clipped(Len(x))
        BY <4>4, SaturatedFacts, MaxI32Assumption DEF Clipped, UsizeToI32Saturating
      <4>6. \A j \in 1 .. k : ExpectedTokenAt(ErrorOf(failure), i - 1, j - 1) = x[j]
        <5> SUFFICES ASSUME NEW j \in 1 .. k
                     PROVE  ExpectedTokenAt(ErrorOf(failure), i - 1, j - 1) = x[j]
          OBVIOUS
        <5> HIDE DEF k
        <5>1. Readable(D, i - 1)
          BY <2>2, <3>1, <4>1 DEF Readable
        <5>2. j \in 1 .. Len(x) /\ DOMAIN x = 1 .. Len(x) /\ j - 1 + 1 = j
          BY <4>4, <4>5
        <5>3. Readable(x, j - 1)
          BY <5>2 DEF Readable
        <5> HIDE DEF d
        <5>4. QED
          BY <2>2, <4>1, <5>1, <5>2, <5>3 DEF ExpectedTokenAt, d
      <4>7. tokens[i] = SubSeq(x, 1, Clipped(Len(x)))
        <5> HIDE DEF k, x
        <5>1. tokens[i] = [j \in 1 .. k |-> x[j]]
          BY <4>3, <4>6 DEF FirstTokens, k, x
        <5>2. SubSeq(x, 1, k) = [j \in 1 .. k |-> x[j]]
          BY <4>4, <4>5 DEF x
        <5>3. QED
          BY <4>5, <5>1, <5>2
      <4>8. /\ IsParseError(e)
            /\ x = IF e.is \in {"UnrecognizedEof", "UnrecognizedToken"} THEN e.expected ELSE <<>>
            /\ d.kind = IF failure.hard THEN DiagnosticKindOf[e.is] ELSE 6
            /\ d.span = SaturatedSpan(ParseErrorToDiagnostic(e).span)
        BY <3>1, <4>1
      <4> DEFINE t == tokens[i]
                 r == seen[i]
      <4>9. r.kind = IF failure.hard THEN DiagnosticKindOf[e.is] ELSE 6
        BY <4>2, <4>8
      <4>10. x = <<>> => t = <<>>
        BY <4>5, <4>7 DEF Clipped
      <4>11. /\ r.has_span = IF d.span = NoSpan THEN 0 ELSE 1
             /\ r.span_start = IF d.span = NoSpan THEN -1 ELSE d.span[1]
             /\ r.span_end = IF d.span = NoSpan THEN -1 ELSE d.span[2]
        BY <4>2
      <4>12. t = SubSeq(x, 1, Clipped(Len(x)))
        BY <4>7
      <4> HIDE DEF e, x, t, r, d, k
      <4>13. \A m : U(m) = Clipped(m)
        BY DEF UsizeToI32Saturating, Clipped
      <4> HIDE DEF U
      <4>14. CASE e.is = "User"
        <5>1. d.span = NoSpan
          BY <4>8, <4>14 DEF SaturatedSpan, ParseErrorToDiagnostic
        <5>2. QED
          BY <4>8, <4>9, <4>10, <4>11, <4>14, <5>1 DEF Tells, e, t, r
      <4>15. CASE e.is \in {"InvalidToken", "UnrecognizedEof"}
        <5>1. d.span = Span(U(e.location), U(e.location)) /\ d.span # NoSpan
          BY <4>8, <4>15 DEF SaturatedSpan, ParseErrorToDiagnostic, Span, NoSpan, U
        <5>2. /\ r.has_span = 1
              /\ r.span_start = Clipped(e.location) /\ r.span_end = Clipped(e.location)
          BY <4>11, <4>13, <5>1 DEF Span
        <5>3. CASE e.is = "InvalidToken"
          <6>1. t = <<>>
            BY <4>8, <4>10, <5>3
          <6>2. Tells(r, t, e)
            BY <5>2, <5>3, <6>1 DEF Tells
          <6>3. QED
            BY <4>9, <6>2 DEF e, t, r
        <5>4. CASE e.is = "UnrecognizedEof"
          <6>1. t = SubSeq(e.expected, 1, Clipped(Len(e.expected)))
            BY <4>8, <4>12, <5>4
          <6>2. Tells(r, t, e)
            BY <5>2, <5>4, <6>1 DEF Tells
          <6>3. QED
            BY <4>9, <6>2 DEF e, t, r
        <5>5. QED
          BY <4>15, <5>3, <5>4
      <4>16. CASE e.is \in {"UnrecognizedToken", "ExtraToken"}
        <5>1. /\ e.token = Span(e.token[1], e.token[2])
              /\ e.token[1] \in Nat /\ e.token[2] \in Nat /\ e.token[1] =< e.token[2]
              /\ e.token # NoSpan
          BY <4>8, <4>16, RangeFacts DEF IsParseError
        <5>2. d.span = Span(U(e.token[1]), U(e.token[2])) /\ d.span # NoSpan
          BY <4>8, <4>16, <5>1 DEF SaturatedSpan, ParseErrorToDiagnostic, Span, NoSpan, U
        <5>3. /\ r.has_span = 1
              /\ r.span_start = Clipped(e.token[1]) /\ r.span_end = Clipped(e.token[2])
          BY <4>11, <4>13, <5>2 DEF Span
        <5>4. CASE e.is = "ExtraToken"
          <6>1. t = <<>>
            BY <4>8, <4>10, <5>4
          <6>2. Tells(r, t, e)
            BY <5>3, <5>4, <6>1 DEF Tells
          <6>3. QED
            BY <4>9, <6>2 DEF e, t, r
        <5>5. CASE e.is = "UnrecognizedToken"
          <6>1. t = SubSeq(e.expected, 1, Clipped(Len(e.expected)))
            BY <4>8, <4>12, <5>5
          <6>2. Tells(r, t, e)
            BY <5>3, <5>5, <6>1 DEF Tells
          <6>3. QED
            BY <4>9, <6>2 DEF e, t, r
        <5>6. QED
          BY <4>16, <5>4, <5>5
      <4>17. QED
        BY <4>8, <4>14, <4>15, <4>16 DEF IsParseError
    <3>4. QED
      BY <2>1, <2>4, <3>2, <3>3 DEF WalkFindsEveryDiagnostic
  <2>5. QED
    BY <2>3, <2>4
<1>2. QED
  BY <1>1, WalkInvariance, PTL

\* An index reads something exactly below the count, whatever the pointer.
THEOREM IndicesBelowCounts == WalkSpec => []CountsAreTheIndices
<1>1. WalkInv => CountsAreTheIndices
  <2> SUFFICES ASSUME WalkInv, NEW i \in Indices
               PROVE  LET count == Fields(error).diagnostic_count
                          read == DiagnosticAt(error, i)
                      IN  /\ count < MaxI32 => (i \in 0 .. count - 1 <=> ~DefaultDiagnostic(read))
                          /\ \A j \in Indices :
                               read.expected_count < MaxI32 =>
                                 (j \in 0 .. read.expected_count - 1
                                    <=> ExpectedTokenAt(error, i, j) # NullPointer)
    BY DEF CountsAreTheIndices
  <2>1. failure \in Failures /\ (error = NullPointer \/ error = ErrorOf(failure))
    BY DEF WalkInv, ErrorHeld
  <2>2. Indices \subseteq Int
    BY IndicesAssumption, MaxI32Assumption
  <2>3. CASE error = NullPointer
    BY <2>2, <2>3 DEF Fields, DiagnosticAt, ExpectedTokenAt, DefaultDiagnostic
  <2>4. CASE error = ErrorOf(failure)
    <3> DEFINE E == ErrorOf(failure)
               D == PartsOf(failure).diagnostics
               count == Fields(E).diagnostic_count
               read == DiagnosticAt(E, i)
    <3>1. /\ Len(D) \in Nat /\ DOMAIN D = 1 .. Len(D) /\ E.diagnostics = D /\ E # NullPointer
          /\ count = UsizeToI32Saturating(Len(D))
      BY <2>1, CountFacts
    <3>2. i \in Int /\ (Readable(D, i) <=> i \in 0 .. Len(D) - 1)
      BY <2>2, <3>1 DEF Readable
    <3>3. count < MaxI32 => count = Len(D)
      BY <3>1, SaturatedFacts
    <3>4. CASE i \in 0 .. Len(D) - 1
      <4> DEFINE x == D[i + 1].expected_tokens
      <4>1. /\ x \in Seq(STRING) /\ read.kind \in 1 .. 6
            /\ read.expected_count = UsizeToI32Saturating(Len(x))
        <5>1. x \in Seq(STRING) /\ D[i + 1].kind \in 1 .. 6
          BY <2>1, <3>2, <3>4, CountFacts
        <5>2. /\ read.kind = D[i + 1].kind
              /\ read.expected_count = UsizeToI32Saturating(Len(x))
          BY <2>1, <3>2, <3>4, CountFacts
        <5>3. QED
          BY <5>1, <5>2
      <4>2. ~DefaultDiagnostic(read)
        BY <4>1 DEF DefaultDiagnostic
      <4> HIDE DEF read, x, E, D, count
      <4>3. Len(x) \in Nat /\ (read.expected_count < MaxI32 => read.expected_count = Len(x))
        BY <4>1, SaturatedFacts
      <4>4. ASSUME NEW j \in Indices
            PROVE  ExpectedTokenAt(E, i, j) # NullPointer <=> j \in 0 .. Len(x) - 1
        <5>1. j \in Int /\ (Readable(x, j) <=> j \in 0 .. Len(x) - 1)
          BY <2>2, <4>1 DEF Readable
        <5>2. Readable(x, j) => x[j + 1] \in STRING
          BY <4>1 DEF Readable
        <5>3. ExpectedTokenAt(E, i, j) = IF Readable(x, j) THEN x[j + 1] ELSE NullPointer
          BY <3>1, <3>2, <3>4 DEF ExpectedTokenAt, x
        <5>4. QED
          BY <5>1, <5>2, <5>3, NullAssumption
      <4>5. QED
        BY <2>4, <3>3, <3>4, <4>2, <4>3, <4>4 DEF E, read, count
    <3>5. CASE i \notin 0 .. Len(D) - 1
      <4>1. read = [kind |-> 0, has_span |-> 0, span_start |-> -1, span_end |-> -1,
                    expected_count |-> 0]
        BY <2>1, <3>2, <3>5, CountFacts
      <4>2. \A j \in Indices : ExpectedTokenAt(E, i, j) = NullPointer
        BY <3>1, <3>2, <3>5 DEF ExpectedTokenAt
      <4> HIDE DEF read, E, D, count
      <4>3. DefaultDiagnostic(read) /\ read.expected_count = 0
        BY <4>1 DEF DefaultDiagnostic
      <4>4. QED
        BY <2>2, <2>4, <3>3, <3>5, <4>2, <4>3 DEF E, read, count
    <3>6. QED
      BY <3>4, <3>5
  <2>5. QED
    BY <2>1, <2>3, <2>4
<1>2. QED
  BY <1>1, WalkInvariance, PTL

-----------------------------------------------------------------------------
(* Where.                                                                  *)

IsPlace(span) == span = NoSpan \/ IsRange(span)

\* Saturation keeps a range a range, and what is read of it is sane.
LEMMA PlacesReadSane ==
  ASSUME NEW span, IsPlace(span), NEW read,
         read.has_span = IF SaturatedSpan(span) = NoSpan THEN 0 ELSE 1,
         read.span_start = IF SaturatedSpan(span) = NoSpan THEN -1 ELSE SaturatedSpan(span)[1],
         read.span_end = IF SaturatedSpan(span) = NoSpan THEN -1 ELSE SaturatedSpan(span)[2]
  PROVE  SaneSpan(read) /\ (read.has_span = 1 <=> span # NoSpan)
<1>1. CASE span = NoSpan
  BY <1>1 DEF SaturatedSpan, SaneSpan
<1>2. CASE IsRange(span)
  <2>1. span # NoSpan /\ span[1] \in Nat /\ span[2] \in Nat /\ span[1] =< span[2]
    BY <1>2, RangeFacts
  <2>2. /\ SaturatedSpan(span) = Span(UsizeToI32Saturating(span[1]), UsizeToI32Saturating(span[2]))
        /\ SaturatedSpan(span) # NoSpan
    BY <2>1 DEF SaturatedSpan, Span, NoSpan
  <2>3. /\ 0 =< UsizeToI32Saturating(span[1])
        /\ UsizeToI32Saturating(span[1]) =< UsizeToI32Saturating(span[2])
    BY <2>1, MaxI32Assumption DEF UsizeToI32Saturating
  <2>4. QED
    BY <2>1, <2>2, <2>3 DEF Span, SaneSpan
<1>3. QED
  BY <1>1, <1>2 DEF IsPlace

\* The parser reports places.
LEMMA CausesArePlaces ==
  ASSUME NEW e, IsParseError(e)
  PROVE  IsPlace(ParseErrorToDiagnostic(e).span)
<1>1. CASE e.is \in {"InvalidToken", "UnrecognizedEof"}
  BY <1>1 DEF IsParseError, ParseErrorToDiagnostic, IsPlace, IsRange, Span
<1>2. CASE e.is \in {"UnrecognizedToken", "ExtraToken"}
  BY <1>2 DEF IsParseError, ParseErrorToDiagnostic, IsPlace
<1>3. CASE e.is = "User"
  BY <1>3 DEF ParseErrorToDiagnostic, IsPlace
<1>4. QED
  BY <1>1, <1>2, <1>3 DEF IsParseError

\* The span of a parse error is that of the first diagnostic that has one.
LEMMA PlaceOfTheError ==
  ASSUME NEW f \in Failures
  PROVE  /\ IsPlace(PartsOf(f).span)
         /\ f.variant = "Parse" =>
              LET d == CoreDiagnostics(f)
                  known == {n \in 1 .. Len(f.errors) : d[n].span # NoSpan}
              IN  /\ known = {} => PartsOf(f).span = NoSpan
                  /\ known # {} => /\ First(known) \in known
                                   /\ PartsOf(f).span = d[First(known)].span
<1>1. CASE f.variant = "Parse"
  <2> DEFINE d == CoreDiagnostics(f)
             known == {n \in 1 .. Len(f.errors) : d[n].span # NoSpan}
  <2>1. /\ Len(f.errors) \in Nat \ {0} /\ DOMAIN f.errors = 1 .. Len(f.errors)
        /\ \A n \in 1 .. Len(f.errors) : IsPlace(d[n].span)
    BY <1>1, ReportedFacts, CausesArePlaces
  <2>2. DOMAIN d = 1 .. Len(f.errors)
    BY <2>1 DEF CoreDiagnostics
  <2> HIDE DEF d
  <2>3. PartsOf(f).span = FirstSpan(d)
    BY <1>1 DEF PartsOf, ParseErrorParts, ErrorParts, d
  <2>4. FirstSpan(d) = IF known = {} THEN NoSpan ELSE d[First(known)].span
    BY <2>2 DEF FirstSpan
  <2>5. known # {} => First(known) \in known
    <3>1. known \subseteq Nat
      BY <2>1
    <3> HIDE DEF known
    <3>2. known # {} => \E n \in known : \A m \in known : n =< m
      BY <3>1, LeastNumber
    <3>3. QED
      BY <3>2 DEF First
  <2>6. IsPlace(PartsOf(f).span)
    BY <2>1, <2>3, <2>4, <2>5 DEF IsPlace
  <2>7. QED
    BY <1>1, <2>3, <2>4, <2>5, <2>6 DEF d
<1>2. CASE f.variant # "Parse"
  BY <1>2, FailuresAssumption
  DEF IsFailure, PartsOf, ResourceLimitErrorParts, LexicalErrorParts, EvalErrorParts,
      InputErrorParts, PanicErrorParts, ResolverErrorParts, InvalidValueErrorParts, ErrorParts,
      IsPlace
<1>3. QED
  BY <1>1, <1>2

\* The two ways of reading a span are one: the fields of the error and those of
\* a diagnostic.
Shows(read, span) ==
    /\ read.has_span = IF SaturatedSpan(span) = NoSpan THEN 0 ELSE 1
    /\ read.span_start = IF SaturatedSpan(span) = NoSpan THEN -1 ELSE SaturatedSpan(span)[1]
    /\ read.span_end = IF SaturatedSpan(span) = NoSpan THEN -1 ELSE SaturatedSpan(span)[2]

\* A diagnostic the host read shows where the parser saw it.
LEMMA SeenShowPlaces ==
  ASSUME WalkInv, NEW i \in 1 .. Len(seen)
  PROVE  /\ failure.variant = "Parse" /\ i \in 1 .. Len(failure.errors)
         /\ Shows(seen[i], CoreDiagnostics(failure)[i].span)
         /\ IsPlace(CoreDiagnostics(failure)[i].span)
<1> DEFINE D == PartsOf(failure).diagnostics
           c == CoreDiagnostics(failure)[i]
<1>1. /\ failure \in Failures
      /\ Len(seen) \in 0 .. DiagnosticCount(failure)
      /\ seen = FirstDiagnostics(failure, Len(seen))
  BY DEF WalkInv, ErrorHeld, DiagnosticsRead
<1>2. Len(D) \in Nat /\ DiagnosticCount(failure) \in Nat /\ DiagnosticCount(failure) =< Len(D)
  BY <1>1, CountFacts, MaxI32Assumption DEF DiagnosticCount
<1>3. i \in 1 .. Len(D) /\ i - 1 \in Int /\ i - 1 \in 0 .. Len(D) - 1 /\ i - 1 + 1 = i
  BY <1>1, <1>2
<1>4. failure.variant = "Parse"
  <2>1. failure.variant # "Parse" => D = <<>>
    BY <1>1, OthersReportNone
  <2>2. QED
    BY <1>3, <2>1
<1>5. /\ i \in 1 .. Len(failure.errors) /\ IsParseError(failure.errors[i])
      /\ c.span = ParseErrorToDiagnostic(failure.errors[i]).span
      /\ D[i].span = SaturatedSpan(c.span)
  BY <1>1, <1>3, <1>4, ReportedFacts
<1>6. seen[i] = DiagnosticAt(ErrorOf(failure), i - 1)
  BY <1>1 DEF FirstDiagnostics, Diagnostic
<1>7. /\ seen[i].has_span = IF D[i].span = NoSpan THEN 0 ELSE 1
      /\ seen[i].span_start = IF D[i].span = NoSpan THEN -1 ELSE D[i].span[1]
      /\ seen[i].span_end = IF D[i].span = NoSpan THEN -1 ELSE D[i].span[2]
  BY <1>1, <1>3, <1>6, CountFacts
<1> HIDE DEF D, c
<1>8. Shows(seen[i], c.span)
  BY <1>5, <1>7 DEF Shows
<1>9. IsPlace(c.span)
  BY <1>5, CausesArePlaces
<1>10. QED
  BY <1>4, <1>5, <1>8, <1>9 DEF c

\* Every span a host reads is a range, and the span of a parse error the one of
\* the first diagnostic that has one, for any text and any number of
\* recoveries.
THEOREM SpansAreSane == WalkSpec => []SpansAgree
<1>1. WalkInv => SpansAgree
  <2> SUFFICES ASSUME WalkInv
               PROVE  SpansAgree
    OBVIOUS
  <2> DEFINE span == PartsOf(failure).span
             C == CoreDiagnostics(failure)
  <2>1. failure \in Failures /\ (head = Fields(NullPointer) \/ head = Fields(ErrorOf(failure)))
    BY DEF WalkInv, ErrorHeld
  <2>2. head = Fields(ErrorOf(failure)) => Shows(head, span)
    <3>1. ErrorOf(failure) # NullPointer
      BY <2>1, CountFacts
    <3>2. QED
      BY <3>1 DEF Fields, ErrorOf, IntoFfiError, Shows
  <2>3. SaneSpan(head)
    <3>1. CASE head = Fields(NullPointer)
      BY <3>1 DEF Fields, SaneSpan
    <3>2. CASE head = Fields(ErrorOf(failure))
      BY <2>1, <2>2, <3>2, PlaceOfTheError, PlacesReadSane DEF Shows
    <3>3. QED
      BY <2>1, <3>1, <3>2
  <2>4. DOMAIN seen = 1 .. Len(seen) /\ Len(seen) \in Nat
    <3>1. Len(seen) \in Nat /\ seen = FirstDiagnostics(failure, Len(seen))
      BY <2>1, CountFacts, MaxI32Assumption DEF WalkInv, DiagnosticsRead, DiagnosticCount
    <3>2. QED
      BY <3>1 DEF FirstDiagnostics
  <2>5. \A i \in DOMAIN seen : SaneSpan(seen[i]) /\ (seen[i].has_span = 1 <=> C[i].span # NoSpan)
    BY <2>4, SeenShowPlaces, PlacesReadSane DEF Shows
  <2> DEFINE placed == {i \in DOMAIN seen : seen[i].has_span = 1}
  <2>6. ASSUME WalkDone, failure.variant = "Parse", Len(seen) = Len(failure.errors)
        PROVE  IF placed = {} THEN head.has_span = 0
               ELSE /\ head.has_span = 1
                    /\ head.span_start = seen[First(placed)].span_start
                    /\ head.span_end = seen[First(placed)].span_end
    <3>1. Shows(head, span)
      BY <2>2, <2>6, WalkIsWhole
    <3>2. placed = {n \in 1 .. Len(failure.errors) : C[n].span # NoSpan}
      BY <2>4, <2>5, <2>6
    <3>3. /\ placed = {} => span = NoSpan
          /\ placed # {} => First(placed) \in placed /\ span = C[First(placed)].span
      <4> HIDE DEF placed
      <4>1. QED
        BY <2>1, <2>6, <3>2, PlaceOfTheError
    <3>4. CASE placed = {}
      BY <3>1, <3>3, <3>4 DEF Shows, SaturatedSpan
    <3>5. CASE placed # {}
      <4> DEFINE m == First(placed)
      <4>1. m \in placed /\ span = C[m].span
        BY <3>3, <3>5
      <4> HIDE DEF m
      <4>2. m \in 1 .. Len(seen) /\ seen[m].has_span = 1
        BY <2>4, <4>1
      <4>3. Shows(seen[m], C[m].span)
        BY <4>2, SeenShowPlaces
      <4>4. /\ head.has_span = seen[m].has_span
            /\ head.span_start = seen[m].span_start
            /\ head.span_end = seen[m].span_end
        BY <3>1, <4>1, <4>3 DEF Shows
      <4>5. QED
        BY <3>5, <4>2, <4>4 DEF m
    <3>6. QED
      BY <3>4, <3>5
  <2>7. QED
    BY <2>3, <2>5, <2>6 DEF SpansAgree
<1>2. QED
  BY <1>1, WalkInvariance, PTL
=============================================================================
