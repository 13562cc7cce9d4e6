-------------------------------- MODULE Repl --------------------------------
(***************************************************************************)
(* The interactive loop (crates/shunting-yard/src/main.rs) between a       *)
(* writer that feeds its standard input piece by piece, and may close it,  *)
(* and output streams that may fail: prompt, flush, read a line, stop if   *)
(* it says "exit", evaluate it with no variables, print the error if there *)
(* is one.  A result is not printed.                                       *)
(*                                                                         *)
(* Text is a sequence of pieces; lines that only differ inside a piece are *)
(* not told apart.  The evaluation is external: of the pieces below it     *)
(* accepts a single number among blanks.                                   *)
(***************************************************************************)
EXTENDS Naturals, Sequences, SequencesExt, FiniteSetsExt

CONSTANTS
    Pieces,        \* what the writer writes at a time
    MaxPieces      \* bound: how much it writes in all

ASSUME PiecesAssumption == {"1", "exit", "newline"} \subseteq Pieces

VARIABLES
    phase,      \* "prompt", "read", "decide", "report", "ended"
    stdin,      \* written and not read yet
    closed,     \* the writer is gone
    input,      \* the String of this round
    outcome,    \* "running", "ok", "error" (main returned Err), "panic"
    typed,      \* history: all that was written,
    evaluated   \* and the texts evaluated, but for the empty one

loopVars == <<phase, stdin, closed, input, outcome, typed, evaluated>>

LoopInit ==
    /\ phase = "prompt"
    /\ stdin = <<>>
    /\ closed = FALSE
    /\ input = <<>>
    /\ outcome = "running"
    /\ typed = <<>>
    /\ evaluated = <<>>

-----------------------------------------------------------------------------
(* The writer.                                                             *)

Write ==
    /\ ~closed
    /\ Len(typed) < MaxPieces
    /\ \E piece \in Pieces :
         /\ stdin' = Append(stdin, piece)
         /\ typed' = Append(typed, piece)
    /\ UNCHANGED <<phase, closed, input, outcome, evaluated>>

Close ==
    /\ ~closed
    /\ closed' = TRUE
    /\ UNCHANGED <<phase, stdin, input, outcome, typed, evaluated>>

-----------------------------------------------------------------------------
(* The program.                                                            *)

End(how) == phase' = "ended" /\ outcome' = how
Goto(label) == phase' = label /\ UNCHANGED outcome

\* Mutant: one String for all rounds; read_line appends.
KeptInput == input

\* String::new()
NewInput == <<>>

\* The prompt, and stdout().flush()?
Prompt ==
    /\ phase = "prompt"
    /\ input' = NewInput
    /\ Goto("read")
    /\ UNCHANGED <<stdin, closed, typed, evaluated>>

FlushFails ==
    /\ phase = "prompt"
    /\ End("error")
    /\ UNCHANGED <<stdin, closed, input, typed, evaluated>>

EndOfLine(text) == text # <<>> /\ Last(text) = "newline"

\* stdin().read_line(&mut input)?  It blocks until there is a newline or the
\* end of the input, and checks what it read when it has read it.
ReadPiece ==
    /\ phase = "read"
    /\ ~EndOfLine(input)
    /\ stdin # <<>>
    /\ input' = Append(input, Head(stdin))
    /\ stdin' = Tail(stdin)
    /\ UNCHANGED <<phase, closed, outcome, typed, evaluated>>

LineRead ==
    /\ phase = "read"
    /\ EndOfLine(input) \/ (closed /\ stdin = <<>>)
    /\ IF \E i \in DOMAIN input : input[i] = "not_utf8" THEN End("error") ELSE Goto("decide")
    /\ UNCHANGED <<stdin, closed, input, typed, evaluated>>

ReadFails ==
    /\ phase = "read"
    /\ End("error")
    /\ UNCHANGED <<stdin, closed, input, typed, evaluated>>

Blanks == {"blank", "return", "newline"}

\* str::trim
Trimmed(text) ==
    LET kept == {i \in DOMAIN text : text[i] \notin Blanks}
    IN  IF kept = {} THEN <<>> ELSE SubSeq(text, Min(kept), Max(kept))

\* Mutant: the line as it was read, with its newline.
IsExitUntrimmed(text) == text = <<"exit">>

\* input.trim() == "exit"
IsExit(text) == Trimmed(text) = <<"exit">>

\* evaluate(&input, &variables); a carriage return is no token.
Evaluates(text) == SelectSeq(text, LAMBDA p : p \notin {"blank", "newline"}) = <<"1">>

Exit ==
    /\ phase = "decide"
    /\ IsExit(input)
    /\ End("ok")
    /\ UNCHANGED <<stdin, closed, input, typed, evaluated>>

Evaluate ==
    /\ phase = "decide"
    /\ ~IsExit(input)
    /\ evaluated' = IF input = <<>> THEN evaluated ELSE Append(evaluated, input)
    /\ Goto(IF Evaluates(input) THEN "prompt" ELSE "report")
    /\ UNCHANGED <<stdin, closed, input, typed>>

\* eprintln!, which panics if standard error is gone.
Report ==
    /\ phase = "report"
    /\ Goto("prompt")
    /\ UNCHANGED <<stdin, closed, input, typed, evaluated>>

ReportFails ==
    /\ phase = "report"
    /\ End("panic")
    /\ UNCHANGED <<stdin, closed, input, typed, evaluated>>

Writer == Write \/ Close

Program ==
    \/ Prompt \/ FlushFails
    \/ ReadPiece \/ LineRead \/ ReadFails
    \/ Exit \/ Evaluate
    \/ Report \/ ReportFails

LoopNext == Writer \/ Program

\* The program runs when it can; the writer need not write, and no stream need
\* fail.
FairSpec == LoopInit /\ [][LoopNext]_loopVars /\ WF_loopVars(Program)

-----------------------------------------------------------------------------
(* Properties.                                                             *)

IsLine(text) == \A i \in DOMAIN text : text[i] = "newline" => i = Len(text)

\* The text that is read but neither evaluated nor turned down yet.
InHand == IF phase \in {"read", "decide", "ended"} THEN input ELSE <<>>

\* It says "exit" and nothing else, blanks apart.
SaysExit(text) ==
    \E i \in DOMAIN text : text[i] = "exit" /\ \A j \in DOMAIN text \ {i} : text[j] \in Blanks

\* However reading and writing interleave, the program evaluates what was
\* written line by line: in order, every line once and alone, the last one also
\* when the input ends without a newline; and it ends well only on a line that
\* says "exit", going on for ever over an input that has ended, which reads as
\* empty text.  (The String made anew in each round, read_line, the comparison.)
EveryLineUntilExit ==
    /\ outcome \in {"running", "ok"} =>
          FlattenSeq(evaluated) \o InHand \o stdin = typed
    /\ \A n \in DOMAIN evaluated : IsLine(evaluated[n]) /\ ~SaysExit(evaluated[n])
    /\ \A n \in 1 .. Len(evaluated) - 1 : Last(evaluated[n]) = "newline"
    /\ outcome = "ok" => SaysExit(input)

\* A whole line of what was written, the last one when nothing can follow.
WholeLine(i, j) ==
    /\ i = 1 \/ typed[i - 1] = "newline"
    /\ IsLine(SubSeq(typed, i, j))
    /\ typed[j] = "newline" \/ (closed /\ j = Len(typed))

ExitWritten ==
    \E i, j \in DOMAIN typed : i =< j /\ WholeLine(i, j) /\ SaysExit(SubSeq(typed, i, j))

\* A written exit line ends the program, whatever lines come before it, and
\* whether or not the writer goes on or closes.
ExitEnds == ExitWritten ~> phase = "ended"
=============================================================================
