----------------------------- MODULE InputProofs -----------------------------
(***************************************************************************)
(* Proofs about what reads the input, for every text and everything typed: *)
(* the token stream (Lexer) covers its text with the spans of the longest  *)
(* slices, and the interactive loop (Repl) evaluates the lines it is given *)
(* one by one until one says exit.                                         *)
(*                                                                         *)
(* Every induction is over a set of natural numbers (SetInduction), and    *)
(* what a recursive definition computes is had from a function that obeys  *)
(* its equations, which exists because it is made step by step.            *)
(***************************************************************************)
EXTENDS Lexer, Repl, SequenceTheorems, FiniteSetTheorems, WellFoundedInduction, TLAPS

-----------------------------------------------------------------------------
(* Numbers and recursion.                                                  *)

\* A set of natural numbers that is not empty has a least element.
LEMMA LeastNumber ==
  ASSUME NEW S \in SUBSET Nat, S # {}
  PROVE  \E m \in S : \A k \in S : m =< k
<1>1. PICK m \in S : \A k \in S : <<k, m>> \notin OpToRel(<, Nat)
  BY NatLessThanWellFounded, WFMin, Zenon
<1>2. \A k \in S : ~(k < m)
  BY <1>1, Zenon DEF OpToRel
<1>3. QED
  BY <1>2

\* A set with 0 and with the successor of each element has every number.
LEMMA SetInduction ==
  ASSUME NEW S \in SUBSET Nat, 0 \in S, \A k \in S : k + 1 \in S
  PROVE  S = Nat
<1> SUFFICES ASSUME Nat \ S # {}
             PROVE  FALSE
  OBVIOUS
<1>1. PICK m \in Nat \ S : \A k \in Nat \ S : m =< k
  BY LeastNumber
<1>2. m - 1 \in S /\ m - 1 + 1 = m
  BY <1>1
<1>3. QED
  BY <1>1, <1>2

\* f is what the steps make of the base, as far as n.
Iterates(f, T, base, step, n) ==
    f \in [0 .. n -> T] /\ f[0] = base /\ \A k \in 1 .. n : f[k] = step[k][f[k - 1]]

\* Whatever the steps are, there is one for every n.
LEMMA IteratesExist ==
  ASSUME NEW T, NEW base \in T, NEW step \in [Nat -> [T -> T]], NEW n \in Nat
  PROVE  \E f : Iterates(f, T, base, step, n)
<1> DEFINE S == {k \in Nat : \E f : Iterates(f, T, base, step, k)}
<1>1. 0 \in S
  <2>1. Iterates([k \in 0 .. 0 |-> base], T, base, step, 0)
    BY DEF Iterates
  <2> QED
    BY <2>1
<1>2. ASSUME NEW m \in S
      PROVE  m + 1 \in S
  <2>1. PICK f : Iterates(f, T, base, step, m)
    BY <1>2
  <2> DEFINE last == step[m + 1][f[m]]
             g == [k \in 0 .. m + 1 |-> IF k = m + 1 THEN last ELSE f[k]]
  <2>2. m \in Nat /\ f[m] \in T /\ last \in T
    BY <2>1 DEF Iterates
  <2>3. g \in [0 .. m + 1 -> T]
    BY <2>1, <2>2 DEF Iterates
  <2>4. ASSUME NEW k \in 1 .. m + 1
        PROVE  g[k] = step[k][g[k - 1]]
    <3>1. k - 1 \in 0 .. m + 1 /\ k - 1 # m + 1 /\ k \in 0 .. m + 1 /\ k - 1 \in 0 .. m
      BY <2>2
    <3>2. g[k - 1] = f[k - 1] /\ g[k] = IF k = m + 1 THEN last ELSE f[k]
      BY <3>1
    <3>3. CASE k = m + 1
      <4>1. k - 1 = m
        BY <3>3, <2>2
      <4> QED
        BY <4>1, <3>2, <3>3
    <3>4. CASE k # m + 1
      <4>1. k \in 1 .. m
        BY <3>4, <2>2
      <4>2. f[k] = step[k][f[k - 1]]
        BY <4>1, <2>1 DEF Iterates
      <4> QED
        BY <4>2, <3>2, <3>4
    <3> QED
      BY <3>3, <3>4
  <2>5. g[0] = base
    BY <2>1, <2>2 DEF Iterates
  <2> HIDE DEF g
  <2>6. Iterates(g, T, base, step, m + 1)
    BY <2>3, <2>4, <2>5 DEF Iterates
  <2> QED
    BY <2>2, <2>6
<1>3. S = Nat
  <2>1. S \in SUBSET Nat
    OBVIOUS
  <2> HIDE DEF S
  <2> QED
    BY <1>1, <1>2, <2>1, SetInduction
<1> QED
  BY <1>3

\* A set of places that is not empty has a first and a last.
LEMMA FiniteBounds ==
  ASSUME NEW n \in Nat, NEW S \in SUBSET (1 .. n), S # {}
  PROVE  /\ Min(S) \in S /\ \A i \in S : Min(S) =< i
         /\ Max(S) \in S /\ \A i \in S : i =< Max(S)
<1>1. PICK a \in S : \A i \in S : a =< i
  BY LeastNumber
<1>2. PICK b \in {n - i : i \in S} : \A k \in {n - i : i \in S} : b =< k
  <2>1. {n - i : i \in S} \in SUBSET Nat /\ {n - i : i \in S} # {}
    OBVIOUS
  <2> QED
    BY <2>1, LeastNumber
<1>3. PICK c \in S : b = n - c
  OBVIOUS
<1>4. ASSUME NEW i \in S
      PROVE  i =< c
  <2>1. n - i \in {n - k : k \in S} /\ i \in Int /\ c \in Int
    OBVIOUS
  <2>2. n - c =< n - i
    BY <1>2, <1>3, <2>1
  <2> QED
    BY <2>1, <2>2
<1>5. Min(S) \in S /\ \A i \in S : Min(S) =< i
  BY <1>1 DEF Min
<1>6. Max(S) \in S /\ \A i \in S : Max(S) >= i
  <2>1. \A i \in S : c >= i
    BY <1>4
  <2> QED
    BY <2>1 DEF Max
<1> QED
  BY <1>5, <1>6

-----------------------------------------------------------------------------
(* The interactive loop: what FlattenSeq computes, and what the comparison *)
(* with "exit" finds.                                                      *)

\* flat is the concatenations of the first sequences of ss.
Flattens(flat, ss) ==
    flat = [i \in 1 .. Len(ss) |-> IF i = 1 THEN ss[i] ELSE flat[i - 1] \o ss[i]]

\* There is a function that flattens the sequences over a set, as FlattenSeq
\* asks for one.
LEMMA FlattensExist ==
  ASSUME NEW A, NEW ss \in Seq(Seq(A))
  PROVE  \E flat : Flattens(flat, ss)
<1> DEFINE T == Seq(A)
           step == [k \in Nat |-> [s \in T |-> IF k \in 1 .. Len(ss) THEN s \o ss[k] ELSE s]]
<1>1. Len(ss) \in Nat /\ \A k \in 1 .. Len(ss) : ss[k] \in T
  OBVIOUS
<1>2. <<>> \in T
  OBVIOUS
<1>3. step \in [Nat -> [T -> T]]
  <2>1. \A k \in Nat : [s \in T |-> IF k \in 1 .. Len(ss) THEN s \o ss[k] ELSE s] \in [T -> T]
    BY <1>1
  <2> QED
    BY <2>1
<1>4. \A k \in 1 .. Len(ss) : \A s \in T : step[k][s] = s \o ss[k]
  <2>1. \A k \in 1 .. Len(ss) : k \in Nat
    BY <1>1
  <2> QED
    BY <2>1
<1> HIDE DEF step
<1>5. PICK f : Iterates(f, T, <<>>, step, Len(ss))
  BY <1>1, <1>2, <1>3, IteratesExist
<1> DEFINE flat == [i \in 1 .. Len(ss) |-> f[i]]
<1>6. ASSUME NEW i \in 1 .. Len(ss)
      PROVE  flat[i] = IF i = 1 THEN ss[i] ELSE flat[i - 1] \o ss[i]
  <2>1. i - 1 \in 0 .. Len(ss)
    BY <1>1
  <2>2. f[i - 1] \in T
    BY <1>5, <2>1 DEF Iterates
  <2>3. f[i] = f[i - 1] \o ss[i]
    BY <1>4, <1>5, <2>2 DEF Iterates
  <2>4. CASE i = 1
    <3>1. f[i - 1] = <<>>
      BY <1>5, <2>4 DEF Iterates
    <3> QED
      BY <2>3, <2>4, <3>1, <1>1, ConcatEmptySeq
  <2>5. CASE i # 1
    <3>1. i - 1 \in 1 .. Len(ss)
      BY <2>5, <1>1
    <3> QED
      BY <2>3, <2>5, <3>1
  <2> QED
    BY <2>4, <2>5
<1>7. flat = [i \in 1 .. Len(ss) |-> flat[i]]
  OBVIOUS
<1> HIDE DEF flat
<1>8. Flattens(flat, ss)
  BY <1>6, <1>7 DEF Flattens
<1> QED
  BY <1>8

\* FlattenSeq concatenates them all.
LEMMA FlattenFacts ==
  ASSUME NEW A, NEW ss \in Seq(Seq(A)), ss # <<>>
  PROVE  \E flat : Flattens(flat, ss) /\ FlattenSeq(ss) = flat[Len(ss)]
<1> DEFINE flat == CHOOSE f : Flattens(f, ss)
<1>1. Flattens(flat, ss)
  BY FlattensExist
<1>2. Len(ss) # 0
  OBVIOUS
<1>3. FlattenSeq(ss) = flat[Len(ss)]
  BY <1>2, Zenon DEF FlattenSeq, Flattens
<1> QED
  BY <1>1, <1>3

\* One more sequence is appended to what the others flatten to.
LEMMA FlattenAppend ==
  ASSUME NEW A, NEW ss \in Seq(Seq(A)), NEW s \in Seq(A)
  PROVE  /\ FlattenSeq(ss) \in Seq(A)
         /\ FlattenSeq(Append(ss, s)) = FlattenSeq(ss) \o s
<1> DEFINE ts == Append(ss, s)
<1>1. /\ ts \in Seq(Seq(A)) /\ ts # <<>> /\ Len(ts) = Len(ss) + 1 /\ Len(ss) \in Nat
      /\ \A i \in 1 .. Len(ss) : ts[i] = ss[i] /\ ss[i] \in Seq(A)
      /\ ts[Len(ss) + 1] = s
  BY AppendProperties
<1> HIDE DEF ts
<1>2. PICK g : Flattens(g, ts) /\ FlattenSeq(ts) = g[Len(ts)]
  BY <1>1, FlattenFacts
<1>3. CASE ss = <<>>
  <2>1. FlattenSeq(ss) = <<>>
    BY <1>3 DEF FlattenSeq
  <2>2. Len(ts) = 1 /\ g[1] = s
    BY <1>1, <1>2, <1>3 DEF Flattens
  <2> QED
    BY <1>2, <2>1, <2>2, ConcatEmptySeq, EmptySeq DEF ts
<1>4. CASE ss # <<>>
  <2>1. PICK f : Flattens(f, ss) /\ FlattenSeq(ss) = f[Len(ss)]
    BY <1>4, FlattenFacts
  <2> DEFINE S == {k \in Nat : k + 1 =< Len(ss) => f[k + 1] = g[k + 1] /\ f[k + 1] \in Seq(A)}
  <2>2. 1 \in 1 .. Len(ss) /\ 1 \in 1 .. Len(ts)
    BY <1>1, <1>4
  <2>3. 0 \in S
    <3>1. f[1] = ss[1] /\ g[1] = ts[1]
      BY <1>2, <2>1, <2>2 DEF Flattens
    <3> QED
      BY <1>1, <2>2, <3>1
  <2>4. ASSUME NEW k \in S
        PROVE  k + 1 \in S
    <3> SUFFICES ASSUME k + 1 + 1 =< Len(ss)
                 PROVE  f[k + 1 + 1] = g[k + 1 + 1] /\ f[k + 1 + 1] \in Seq(A)
      OBVIOUS
    <3>1. k \in Nat /\ k + 1 =< Len(ss) /\ k + 1 + 1 \in 1 .. Len(ss) /\ k + 1 + 1 # 1
          /\ k + 1 + 1 - 1 = k + 1 /\ k + 1 + 1 \in 1 .. Len(ts)
      BY <1>1
    <3>2. f[k + 1] = g[k + 1] /\ f[k + 1] \in Seq(A)
      BY <3>1
    <3> DEFINE n == k + 1 + 1
    <3>3. n \in 1 .. Len(ss) /\ n \in 1 .. Len(ts) /\ n # 1 /\ n - 1 = k + 1
      BY <3>1
    <3> HIDE DEF n
    <3>4. f[n] = f[k + 1] \o ss[n] /\ g[n] = g[k + 1] \o ts[n]
      BY <1>2, <2>1, <3>3 DEF Flattens
    <3>5. ts[n] = ss[n] /\ ss[n] \in Seq(A)
      BY <1>1, <3>3
    <3>6. f[n] = g[n] /\ f[n] \in Seq(A)
      BY <3>2, <3>4, <3>5, ConcatProperties
    <3> QED
      BY <3>6 DEF n
  <2> HIDE DEF S
  <2>5. S = Nat
    <3>1. S \in SUBSET Nat
      BY DEF S
    <3> QED
      BY <2>3, <2>4, <3>1, SetInduction
  <2>6. Len(ss) - 1 \in S /\ Len(ss) - 1 + 1 = Len(ss)
    BY <1>1, <2>2, <2>5
  <2>7. f[Len(ss)] = g[Len(ss)] /\ f[Len(ss)] \in Seq(A)
    BY <2>6 DEF S
  <2> DEFINE n == Len(ss) + 1
  <2>8. n \in 1 .. Len(ts) /\ n # 1 /\ n - 1 = Len(ss) /\ n = Len(ts) /\ ts[n] = s
    BY <1>1, <2>2
  <2> HIDE DEF n
  <2>9. g[n] = g[Len(ss)] \o s
    BY <1>2, <2>8 DEF Flattens
  <2> QED
    BY <1>2, <2>1, <2>7, <2>8, <2>9 DEF ts
<1> QED
  BY <1>3, <1>4

\* The comparison with "exit" finds the lines that say so.
LEMMA ExitIsSaid ==
  ASSUME NEW line \in Seq(Pieces)
  PROVE  IsExit(line) <=> SaysExit(line)
<1> DEFINE kept == {i \in DOMAIN line : line[i] \notin Blanks}
<1>1. Len(line) \in Nat /\ DOMAIN line = 1 .. Len(line)
  OBVIOUS
<1>2. "exit" \notin Blanks
  BY DEF Blanks
<1>3. ASSUME IsExit(line)
      PROVE  SaysExit(line)
  <2>1. kept # {}
    <3>1. <<>> # <<"exit">>
      OBVIOUS
    <3> QED
      BY <1>3, <3>1 DEF IsExit, Trimmed
  <2>2. SubSeq(line, Min(kept), Max(kept)) = <<"exit">>
    BY <1>3, <2>1 DEF IsExit, Trimmed
  <2> DEFINE low == Min(kept)
             high == Max(kept)
  <2>3. kept \in SUBSET (1 .. Len(line))
    BY <1>1
  <2>4. low \in kept /\ high \in kept /\ \A i \in kept : low =< i /\ i =< high
    BY <1>1, <2>1, <2>3, FiniteBounds
  <2> HIDE DEF kept, low, high
  <2>5. low \in 1 .. Len(line) /\ high \in 1 .. Len(line) /\ low =< high
    BY <2>3, <2>4
  <2>6. \A i \in low .. high : line[i] \in Pieces
    <3>1. \A i \in low .. high : i \in 1 .. Len(line)
      BY <1>1, <2>5
    <3> QED
      BY <3>1, ElementOfSeq
  <2>7. /\ Len(SubSeq(line, low, high)) = high - low + 1
        /\ \A i \in 1 .. high - low + 1 : SubSeq(line, low, high)[i] = line[low + i - 1]
    BY <1>1, <2>5, <2>6, SubSeqProperties
  <2>8. SubSeq(line, low, high) = <<"exit">>
    BY <2>2 DEF low, high
  <2>9. high = low /\ line[low] = "exit"
    <3>1. high - low + 1 = 1
      BY <2>7, <2>8
    <3>2. high = low /\ 1 \in 1 .. high - low + 1 /\ low + 1 - 1 = low
      BY <1>1, <2>5, <3>1
    <3> QED
      BY <2>7, <2>8, <3>2
  <2>10. \A j \in DOMAIN line \ {low} : line[j] \in Blanks
    <3>1. \A j \in kept : j = low
      <4>1. \A j \in kept : low =< j /\ j =< low /\ j \in Int
        BY <2>3, <2>4, <2>9
      <4> QED
        BY <2>5, <4>1
    <3> QED
      BY <3>1 DEF kept
  <2> QED
    BY <1>1, <2>5, <2>9, <2>10 DEF SaysExit
<1>4. ASSUME SaysExit(line)
      PROVE  IsExit(line)
  <2>1. PICK i \in DOMAIN line : line[i] = "exit" /\ \A j \in DOMAIN line \ {i} : line[j] \in Blanks
    BY <1>4 DEF SaysExit
  <2>2. kept = {i}
    BY <1>2, <2>1
  <2>3. Min(kept) = i /\ Max(kept) = i
    BY <1>1, <2>2, FiniteBounds
  <2>4. SubSeq(line, i, i) = <<"exit">>
    <3>1. i \in 1 .. Len(line) /\ i \in i .. Len(line) /\ line[i] \in Pieces /\ i \in Int /\ i < i + 1
      BY <1>1, <2>1
    <3>2. SubSeq(line, i, i) = <<line[i]>> \o SubSeq(line, i + 1, i)
      BY <3>1, SubSeqRecursiveFirst
    <3>3. SubSeq(line, i + 1, i) = <<>>
      BY <3>1, SubSeqEmpty
    <3>4. <<line[i]>> \in Seq(Pieces)
      BY <3>1
    <3> QED
      BY <2>1, <3>2, <3>3, <3>4, ConcatEmptySeq
  <2> QED
    BY <2>2, <2>3, <2>4 DEF IsExit, Trimmed
<1> QED
  BY <1>3, <1>4

-----------------------------------------------------------------------------
(* The interactive loop: its invariant, and its steps.                     *)

LoopTypeOK ==
    /\ phase \in {"prompt", "read", "decide", "report", "ended"}
    /\ stdin \in Seq(Pieces) /\ input \in Seq(Pieces) /\ typed \in Seq(Pieces)
    /\ evaluated \in Seq(Seq(Pieces)) /\ closed \in BOOLEAN
    /\ outcome = "running" <=> phase # "ended"

\* Nothing is lost or read twice.
AllAccounted ==
    outcome \in {"running", "ok"} => (FlattenSeq(evaluated) \o InHand) \o stdin = typed

\* What is read is a line, a whole one when it is looked at.
ReadsLines ==
    /\ IsLine(input)
    /\ phase = "decide" => EndOfLine(input) \/ (closed /\ stdin = <<>>)
    /\ outcome = "ok" => SaysExit(input)

EvaluatedLines ==
    \A n \in DOMAIN evaluated :
        evaluated[n] # <<>> /\ IsLine(evaluated[n]) /\ ~SaysExit(evaluated[n])

\* Only the last line may lack its newline, and then there is no more to read.
OnlyTheLastIsCut ==
    \A n \in DOMAIN evaluated :
        \/ Last(evaluated[n]) = "newline"
        \/ /\ n = Len(evaluated)
           /\ closed /\ stdin = <<>> /\ (phase \in {"read", "decide"} => input = <<>>)

LoopInv == LoopTypeOK /\ AllAccounted /\ ReadsLines /\ EvaluatedLines /\ OnlyTheLastIsCut

\* Nothing is written, read or evaluated at first.
LEMMA InitLoopInv == LoopInit => LoopInv
<1> SUFFICES ASSUME LoopInit
             PROVE  LoopInv
  OBVIOUS
<1>1. LoopTypeOK
  BY EmptySeq DEF LoopInit, LoopTypeOK
<1>2. AllAccounted
  <2>1. FlattenSeq(<<>>) = <<>>
    BY DEF FlattenSeq
  <2>2. <<>> \o <<>> = <<>>
    BY EmptySeq, ConcatEmptySeq
  <2> QED
    BY <2>1, <2>2 DEF LoopInit, AllAccounted, InHand
<1>3. ReadsLines /\ EvaluatedLines /\ OnlyTheLastIsCut
  BY DEF LoopInit, ReadsLines, EvaluatedLines, OnlyTheLastIsCut, IsLine
<1> QED
  BY <1>1, <1>2, <1>3 DEF LoopInv

\* What is written goes to the ends of typed and of stdin.
LEMMA WriteKeeps ==
  ASSUME LoopInv, Write
  PROVE  LoopInv'
<1>1. PICK piece \in Pieces : stdin' = Append(stdin, piece) /\ typed' = Append(typed, piece)
  BY DEF Write
<1>2. UNCHANGED <<phase, closed, input, outcome, evaluated>> /\ ~closed
  BY DEF Write
<1>3. LoopTypeOK'
  BY <1>1, <1>2, AppendProperties DEF LoopInv, LoopTypeOK
<1>4. AllAccounted'
  <2> DEFINE taken == FlattenSeq(evaluated) \o InHand
  <2>1. taken \in Seq(Pieces)
    BY EmptySeq, FlattenAppend, ConcatProperties DEF LoopInv, LoopTypeOK, InHand
  <2>2. taken' = taken
    BY <1>2 DEF InHand
  <2> HIDE DEF taken
  <2>3. taken \o Append(stdin, piece) = Append(taken \o stdin, piece)
    <3>1. <<piece>> \in Seq(Pieces) /\ stdin \in Seq(Pieces)
      BY DEF LoopInv, LoopTypeOK
    <3>2. Append(stdin, piece) = stdin \o <<piece>>
      BY <3>1, AppendIsConcat
    <3>3. Append(taken \o stdin, piece) = (taken \o stdin) \o <<piece>>
      BY <2>1, <3>1, ConcatProperties, AppendIsConcat
    <3> QED
      BY <2>1, <3>1, <3>2, <3>3, ConcatAssociative
  <2> QED
    BY <1>1, <1>2, <2>2, <2>3 DEF LoopInv, AllAccounted, taken
<1>5. (ReadsLines /\ EvaluatedLines /\ OnlyTheLastIsCut)'
  BY <1>2 DEF LoopInv, ReadsLines, EvaluatedLines, OnlyTheLastIsCut, InHand
<1> QED
  BY <1>3, <1>4, <1>5 DEF LoopInv

\* A piece moves from stdin to the input, which is one line still.
LEMMA ReadPieceKeeps ==
  ASSUME LoopInv, ReadPiece
  PROVE  LoopInv'
<1> DEFINE piece == Head(stdin)
<1>1. /\ phase = "read" /\ ~EndOfLine(input) /\ stdin # <<>>
      /\ input' = Append(input, piece) /\ stdin' = Tail(stdin)
      /\ UNCHANGED <<phase, closed, outcome, typed, evaluated>>
  BY DEF ReadPiece
<1>2. piece \in Pieces /\ Tail(stdin) \in Seq(Pieces) /\ input \in Seq(Pieces)
  BY <1>1, HeadTailProperties DEF LoopInv, LoopTypeOK
<1> HIDE DEF piece
<1>3. LoopTypeOK'
  BY <1>1, <1>2, AppendProperties DEF LoopInv, LoopTypeOK
<1>4. AllAccounted'
  <2> DEFINE before == FlattenSeq(evaluated)
  <2>1. before \in Seq(Pieces)
    BY EmptySeq, FlattenAppend DEF LoopInv, LoopTypeOK
  <2>2. before' = before /\ InHand = input /\ InHand' = Append(input, piece)
    BY <1>1 DEF InHand
  <2>3. <<piece>> \in Seq(Pieces) /\ stdin \in Seq(Pieces)
    BY <1>2 DEF LoopInv, LoopTypeOK
  <2>4. stdin = <<piece>> \o Tail(stdin)
    <3>1. /\ Len(Tail(stdin)) = Len(stdin) - 1 /\ Len(stdin) \in Nat
          /\ \A i \in 1 .. Len(Tail(stdin)) : Tail(stdin)[i] = stdin[i + 1]
      BY <1>1, <2>3, HeadTailProperties
    <3> DEFINE whole == <<piece>> \o Tail(stdin)
    <3>2. whole \in Seq(Pieces) /\ Len(whole) = Len(stdin)
      BY <1>2, <2>3, <3>1, ConcatProperties
    <3>3. ASSUME NEW i \in 1 .. Len(stdin)
          PROVE  whole[i] = stdin[i]
      <4>1. whole[i] = IF i =< 1 THEN <<piece>>[i] ELSE Tail(stdin)[i - 1]
        BY <1>2, <2>3, <3>1, ConcatProperties
      <4>2. i = 1 => whole[i] = stdin[i]
        BY <1>1, <4>1 DEF piece
      <4>3. i # 1 => i - 1 \in 1 .. Len(Tail(stdin)) /\ i - 1 + 1 = i /\ ~(i =< 1)
        BY <3>1
      <4> QED
        BY <3>1, <4>1, <4>2, <4>3
    <3> HIDE DEF whole
    <3>4. stdin = whole
      BY <2>3, <3>2, <3>3, SeqEqual
    <3> QED
      BY <3>4 DEF whole
  <2> HIDE DEF before
  <2>5. (before \o Append(input, piece)) \o Tail(stdin) = (before \o input) \o stdin
    <3>1. Append(input, piece) = input \o <<piece>>
      BY <1>2, AppendIsConcat
    <3>2. before \o (input \o <<piece>>) = (before \o input) \o <<piece>>
      BY <1>2, <2>1, <2>3, ConcatAssociative
    <3>3. before \o input \in Seq(Pieces)
      BY <1>2, <2>1, ConcatProperties
    <3>4. ((before \o input) \o <<piece>>) \o Tail(stdin) = (before \o input) \o (<<piece>> \o Tail(stdin))
      BY <1>2, <2>3, <3>3, ConcatAssociative
    <3> QED
      BY <2>4, <3>1, <3>2, <3>4
  <2> QED
    BY <1>1, <2>2, <2>5 DEF LoopInv, AllAccounted, before
<1>5. ReadsLines'
  <2>1. ASSUME NEW i \in DOMAIN input', input'[i] = "newline"
        PROVE  i = Len(input')
    <3>1. /\ Len(input') = Len(input) + 1 /\ DOMAIN input' = 1 .. Len(input')
          /\ Len(input) \in Nat /\ DOMAIN input = 1 .. Len(input)
          /\ \A k \in 1 .. Len(input) : input'[k] = input[k]
      BY <1>1, <1>2, <1>3, AppendProperties DEF LoopTypeOK
    <3>2. CASE i \in 1 .. Len(input)
      <4>1. input[i] = "newline" /\ i = Len(input)
        BY <2>1, <3>1, <3>2 DEF LoopInv, ReadsLines, IsLine
      <4>2. input # <<>>
        BY <3>1, <3>2
      <4> QED
        BY <1>1, <4>1, <4>2 DEF EndOfLine, Last
    <3> QED
      BY <3>1, <3>2
  <2>2. IsLine(input')
    BY <2>1 DEF IsLine
  <2>3. phase' # "decide" /\ outcome' # "ok"
    BY <1>1 DEF LoopInv, LoopTypeOK
  <2> QED
    BY <2>2, <2>3 DEF ReadsLines
<1>6. (EvaluatedLines /\ OnlyTheLastIsCut)'
  BY <1>1 DEF LoopInv, EvaluatedLines, OnlyTheLastIsCut
<1> QED
  BY <1>3, <1>4, <1>5, <1>6 DEF LoopInv

\* The input moves to the evaluated lines: it is one, and says no exit.
LEMMA EvaluateKeeps ==
  ASSUME LoopInv, Evaluate
  PROVE  LoopInv'
<1>1. /\ phase = "decide" /\ ~IsExit(input) /\ phase' \in {"prompt", "report"}
      /\ evaluated' = IF input = <<>> THEN evaluated ELSE Append(evaluated, input)
      /\ UNCHANGED <<stdin, closed, input, outcome, typed>>
  BY DEF Evaluate, Goto
<1>2. /\ input \in Seq(Pieces) /\ evaluated \in Seq(Seq(Pieces))
      /\ stdin \in Seq(Pieces) /\ outcome = "running"
  BY <1>1 DEF LoopInv, LoopTypeOK
<1>3. LoopTypeOK'
  BY <1>1, <1>2, AppendProperties DEF LoopInv, LoopTypeOK
<1>4. AllAccounted'
  <2>1. InHand = input /\ InHand' = <<>>
    BY <1>1 DEF InHand
  <2>2. FlattenSeq(evaluated) \in Seq(Pieces) /\ FlattenSeq(evaluated) \o input \in Seq(Pieces)
    BY <1>2, FlattenAppend, ConcatProperties
  <2>3. FlattenSeq(evaluated') = FlattenSeq(evaluated) \o input
    <3>1. FlattenSeq(Append(evaluated, input)) = FlattenSeq(evaluated) \o input
      BY <1>2, FlattenAppend
    <3>2. FlattenSeq(evaluated) \o <<>> = FlattenSeq(evaluated)
      BY <2>2, ConcatEmptySeq
    <3> QED
      BY <1>1, <3>1, <3>2
  <2>4. FlattenSeq(evaluated') \o <<>> = FlattenSeq(evaluated) \o input
    BY <2>2, <2>3, ConcatEmptySeq
  <2> QED
    BY <1>1, <2>1, <2>4 DEF LoopInv, AllAccounted
<1>5. ReadsLines'
  BY <1>1, <1>2 DEF LoopInv, ReadsLines
<1>6. CASE input = <<>>
  BY <1>1, <1>3, <1>4, <1>5, <1>6 DEF LoopInv, EvaluatedLines, OnlyTheLastIsCut
<1>7. CASE input # <<>>
  <2>1. /\ Len(evaluated') = Len(evaluated) + 1 /\ evaluated'[Len(evaluated')] = input
        /\ DOMAIN evaluated' = 1 .. Len(evaluated') /\ Len(evaluated) \in Nat
        /\ \A n \in DOMAIN evaluated : evaluated'[n] = evaluated[n]
        /\ DOMAIN evaluated = 1 .. Len(evaluated)
    BY <1>1, <1>2, <1>3, <1>7, AppendProperties DEF LoopTypeOK
  <2>2. ASSUME NEW n \in DOMAIN evaluated'
        PROVE  n \in DOMAIN evaluated \/ n = Len(evaluated')
    BY <2>1
  <2>3. EvaluatedLines'
    <3>1. ~SaysExit(input) /\ IsLine(input)
      BY <1>1, <1>2, ExitIsSaid DEF LoopInv, ReadsLines
    <3> QED
      BY <1>7, <2>1, <2>2, <3>1 DEF LoopInv, EvaluatedLines
  <2>4. \A n \in DOMAIN evaluated : Last(evaluated[n]) = "newline"
    BY <1>1, <1>7 DEF LoopInv, OnlyTheLastIsCut
  <2>5. Last(input) = "newline" \/ (closed /\ stdin = <<>>)
    BY <1>1 DEF LoopInv, ReadsLines, EndOfLine
  <2>6. OnlyTheLastIsCut'
    BY <1>1, <2>1, <2>2, <2>4, <2>5 DEF OnlyTheLastIsCut
  <2> QED
    BY <1>3, <1>4, <1>5, <2>3, <2>6 DEF LoopInv
<1> QED
  BY <1>6, <1>7

\* The other steps move no text, or drop an input whose line is done with.
LEMMA OthersKeep ==
  ASSUME LoopInv,
         Close \/ Prompt \/ FlushFails \/ LineRead \/ ReadFails \/ Exit \/ Report \/ ReportFails
  PROVE  LoopInv'
<1> USE DEF End, Goto
<1>1. CASE Close
  BY <1>1 DEF Close, LoopInv, LoopTypeOK, AllAccounted, InHand, ReadsLines, EvaluatedLines, OnlyTheLastIsCut
<1>2. CASE Prompt
  <2>1. /\ phase = "prompt" /\ input' = <<>> /\ phase' = "read"
        /\ UNCHANGED <<outcome, stdin, closed, typed, evaluated>>
    BY <1>2 DEF Prompt, NewInput
  <2>2. LoopTypeOK' /\ ReadsLines'
    BY <2>1 DEF LoopInv, LoopTypeOK, ReadsLines, IsLine
  <2>3. AllAccounted'
    BY <2>1 DEF LoopInv, AllAccounted, InHand
  <2> QED
    BY <2>1, <2>2, <2>3 DEF LoopInv, EvaluatedLines, OnlyTheLastIsCut
<1>3. CASE LineRead
  BY <1>3 DEF LineRead, LoopInv, LoopTypeOK, AllAccounted, InHand, ReadsLines, EvaluatedLines, OnlyTheLastIsCut
<1>4. CASE Exit
  <2>1. SaysExit(input)
    BY <1>4, ExitIsSaid DEF Exit, LoopInv, LoopTypeOK
  <2> QED
    BY <1>4, <2>1 DEF Exit, LoopInv, LoopTypeOK, AllAccounted, InHand, ReadsLines, EvaluatedLines, OnlyTheLastIsCut
<1>5. CASE Report
  BY <1>5 DEF Report, LoopInv, LoopTypeOK, AllAccounted, InHand, ReadsLines, EvaluatedLines, OnlyTheLastIsCut
<1>6. CASE FlushFails \/ ReadFails \/ ReportFails
  BY <1>6 DEF FlushFails, ReadFails, ReportFails, LoopInv, LoopTypeOK, AllAccounted, ReadsLines,
              EvaluatedLines, OnlyTheLastIsCut
<1> QED
  BY <1>1, <1>2, <1>3, <1>4, <1>5, <1>6

\* The invariant is what EveryLineUntilExit says, and more.
LEMMA LoopInvFollows == LoopInv => EveryLineUntilExit
<1> SUFFICES ASSUME LoopInv
             PROVE  EveryLineUntilExit
  OBVIOUS
<1>1. DOMAIN evaluated = 1 .. Len(evaluated) /\ Len(evaluated) \in Nat
  BY DEF LoopInv, LoopTypeOK
<1>2. \A m \in Nat : \A n \in 1 .. m - 1 : n \in 1 .. m /\ n # m
  OBVIOUS
<1> QED
  BY <1>1, <1>2 DEF LoopInv, AllAccounted, ReadsLines, EvaluatedLines, OnlyTheLastIsCut, EveryLineUntilExit

\* Every line is evaluated once, alone and in order, and the loop ends well only
\* on a line that says exit, however much is written and in whatever pieces
\* (main, read_line, the comparison of the trimmed line).
THEOREM LinesUntilExit == FairSpec => []EveryLineUntilExit
<1>1. LoopInv /\ [LoopNext]_loopVars => LoopInv'
  <2> SUFFICES ASSUME LoopInv, [LoopNext]_loopVars
               PROVE  LoopInv'
    OBVIOUS
  <2>1. CASE UNCHANGED loopVars
    BY <2>1 DEF loopVars, LoopInv, LoopTypeOK, AllAccounted, InHand, ReadsLines, EvaluatedLines, OnlyTheLastIsCut
  <2> QED
    BY <2>1, WriteKeeps, ReadPieceKeeps, EvaluateKeeps, OthersKeep DEF LoopNext, Writer, Program
<1> QED
  BY InitLoopInv, <1>1, LoopInvFollows, PTL DEF FairSpec

-----------------------------------------------------------------------------
(* The token stream: the longest slice.                                    *)

Slices(t, p) == {n \in 1 .. Len(t) - p + 1 : KindOf(SubSeq(t, p, p + n - 1)) # "none"}

\* It is in the text, and no slice that is a token is longer.
LEMMA LongestFacts ==
  ASSUME NEW A, NEW t \in Seq(A), NEW p \in 1 .. Len(t)
  PROVE  /\ LongestFrom(t, p) \in 1 .. Len(t) - p + 1
         /\ LongestFrom(t, p) \in Slices(t, p) \cup {1}
         /\ \A n \in Slices(t, p) : n =< LongestFrom(t, p)
<1> DEFINE S == Slices(t, p) \cup {1}
<1>1. Len(t) \in Nat /\ Len(t) - p + 1 \in Nat \ {0}
  OBVIOUS
<1>2. S \in SUBSET (1 .. Len(t) - p + 1) /\ S # {}
  BY <1>1 DEF Slices
<1>3. LongestFrom(t, p) = Max(S)
  BY DEF LongestFrom, Slices
<1> HIDE DEF S
<1>4. Max(S) \in S /\ \A n \in S : n =< Max(S)
  BY <1>1, <1>2, FiniteBounds
<1>5. LongestFrom(t, p) \in S
  BY <1>3, <1>4
<1>6. \A n \in S : n =< LongestFrom(t, p)
  BY <1>3, <1>4
<1> QED
  BY <1>2, <1>5, <1>6 DEF S

\* The next place: what is before it is skipped, and it is not.
LEMMA SkipFacts ==
  ASSUME NEW A, NEW t \in Seq(A), NEW p \in 1 .. Len(t) + 1
  PROVE  /\ SkipFrom(t, p) \in p .. Len(t) + 1
         /\ \A i \in p .. SkipFrom(t, p) - 1 : t[i] \in Skipped
         /\ SkipFrom(t, p) =< Len(t) => t[SkipFrom(t, p)] \notin Skipped
<1> DEFINE kept == {i \in p .. Len(t) : t[i] \notin Skipped}
           S == kept \cup {Len(t) + 1}
           q == SkipFrom(t, p)
<1>1. Len(t) \in Nat /\ p \in Int
  OBVIOUS
<1>2. S \in SUBSET (1 .. Len(t) + 1) /\ S # {} /\ S \in SUBSET (p .. Len(t) + 1)
  BY <1>1
<1>3. q = Min(S)
  BY DEF SkipFrom
<1> HIDE DEF S
<1>4. Len(t) + 1 \in Nat
  BY <1>1
<1>5. Min(S) \in S /\ \A n \in S : Min(S) =< n
  BY <1>2, <1>4, FiniteBounds
<1> HIDE DEF q
<1>6. q \in p .. Len(t) + 1 /\ q \in S /\ \A n \in S : q =< n
  BY <1>2, <1>3, <1>5
<1>7. ASSUME NEW i \in p .. q - 1
      PROVE  t[i] \in Skipped
  <2>1. i \in p .. Len(t) /\ ~(q =< i)
    BY <1>1, <1>6
  <2>2. i \notin kept
    BY <1>6, <2>1 DEF S
  <2> QED
    BY <2>1, <2>2
<1>8. q =< Len(t) => t[q] \notin Skipped
  <2>1. q =< Len(t) => q # Len(t) + 1
    BY <1>1, <1>6
  <2> QED
    BY <1>6, <2>1 DEF S
<1> QED
  BY <1>6, <1>7, <1>8 DEF q

-----------------------------------------------------------------------------
(* The token stream: bytes.                                                *)

Wide(s) == {i \in 1 .. Len(s) : s[i] \in WideChars}

\* A text has a number of bytes.
LEMMA BytesType ==
  ASSUME NEW A, NEW s \in Seq(A)
  PROVE  /\ IsFiniteSet(Wide(s)) /\ Cardinality(Wide(s)) \in Nat
         /\ Bytes(s) \in Nat /\ Len(s) =< Bytes(s)
<1>1. Len(s) \in Nat /\ IsFiniteSet(1 .. Len(s))
  BY FS_Interval
<1>2. Wide(s) \in SUBSET (1 .. Len(s))
  BY DEF Wide
<1>3. IsFiniteSet(Wide(s)) /\ Cardinality(Wide(s)) \in Nat
  BY <1>1, <1>2, FS_Subset, FS_CardinalityType
<1>4. Bytes(s) = Len(s) + Cardinality(Wide(s))
  BY DEF Bytes, Wide
<1> QED
  BY <1>1, <1>3, <1>4

\* One more character adds a byte, or two if it is wide.
LEMMA BytesAppend ==
  ASSUME NEW A, NEW s \in Seq(A), NEW c \in A
  PROVE  Bytes(Append(s, c)) = Bytes(s) + (IF c \in WideChars THEN 2 ELSE 1)
<1>1. IsFiniteSet(Wide(s)) /\ Cardinality(Wide(s)) \in Nat
  BY BytesType
<1>2. /\ Len(Append(s, c)) = Len(s) + 1 /\ Len(s) \in Nat
      /\ \A i \in 1 .. Len(s) : Append(s, c)[i] = s[i]
      /\ Append(s, c)[Len(s) + 1] = c
  BY AppendProperties
<1> DEFINE u == Append(s, c)
<1> HIDE DEF u
<1>3. Wide(u) = IF c \in WideChars THEN Wide(s) \cup {Len(s) + 1} ELSE Wide(s)
  <2>1. \A i : i \in 1 .. Len(s) + 1 <=> i \in 1 .. Len(s) \/ i = Len(s) + 1
    BY <1>2
  <2> QED
    BY <1>2, <2>1 DEF Wide, u
<1>4. Len(s) + 1 \notin Wide(s)
  BY <1>2 DEF Wide
<1>5. Cardinality(Wide(u)) = Cardinality(Wide(s)) + (IF c \in WideChars THEN 1 ELSE 0)
  <2>1. CASE c \in WideChars
    <3>1. Wide(u) = Wide(s) \cup {Len(s) + 1}
      BY <1>3, <2>1
    <3>2. Cardinality(Wide(u)) = Cardinality(Wide(s)) + 1
      BY <1>1, <1>4, <3>1, FS_AddElement
    <3> QED
      BY <2>1, <3>2
  <2>2. CASE c \notin WideChars
    BY <1>1, <1>3, <2>2
  <2> QED
    BY <2>1, <2>2
<1>6. Bytes(s) = Len(s) + Cardinality(Wide(s)) /\ Bytes(u) = Len(u) + Cardinality(Wide(u))
  BY DEF Bytes, Wide
<1>7. Len(u) = Len(s) + 1
  BY <1>2 DEF u
<1>8. Bytes(u) = Bytes(s) + (IF c \in WideChars THEN 2 ELSE 1)
  BY <1>1, <1>2, <1>5, <1>6, <1>7
<1> QED
  BY <1>1, <1>2, <1>6, <1>8 DEF u

\* The bytes before a place: a byte or two more for each character.
LEMMA OffsetFacts ==
  ASSUME NEW A, NEW t \in Seq(A)
  PROVE  /\ Offset(t, 1) = 0
         /\ \A p \in 1 .. Len(t) + 1 : Offset(t, p) \in Nat
         /\ \A p \in 1 .. Len(t) :
               Offset(t, p + 1) = Offset(t, p) + (IF t[p] \in WideChars THEN 2 ELSE 1)
<1>1. Len(t) \in Nat
  OBVIOUS
<1>2. Offset(t, 1) = 0
  <2>1. SubSeq(t, 1, 1 - 1) = <<>>
    BY SubSeqEmpty
  <2>2. {i \in 1 .. 0 : <<>>[i] \in WideChars} = {}
    OBVIOUS
  <2>3. Bytes(<<>>) = 0
    BY <2>2, EmptySeq, FS_EmptySet DEF Bytes
  <2> QED
    BY <2>1, <2>3 DEF Offset
<1>3. ASSUME NEW p \in 1 .. Len(t) + 1
      PROVE  SubSeq(t, 1, p - 1) \in Seq(A) /\ Offset(t, p) \in Nat
  <2>1. \A i \in 1 .. p - 1 : i \in 1 .. Len(t)
    BY <1>1
  <2>2. \A i \in 1 .. p - 1 : t[i] \in A
    BY <2>1, ElementOfSeq
  <2>3. 1 \in Int /\ p - 1 \in Int
    BY <1>1
  <2>4. SubSeq(t, 1, p - 1) \in Seq(A)
    BY <2>2, <2>3, SubSeqProperties
  <2> QED
    BY <2>4, BytesType DEF Offset
<1>4. ASSUME NEW p \in 1 .. Len(t)
      PROVE  Offset(t, p + 1) = Offset(t, p) + (IF t[p] \in WideChars THEN 2 ELSE 1)
  <2>1. p \in 1 .. Len(t) + 1 /\ 1 \in 1 .. Len(t) /\ p \in 1 .. Len(t) /\ p + 1 - 1 = p
    BY <1>1
  <2>2. SubSeq(t, 1, p) = SubSeq(t, 1, p - 1) \o <<t[p]>>
    BY <2>1, SubSeqRecursiveSecond
  <2>3. SubSeq(t, 1, p - 1) \in Seq(A) /\ Offset(t, p) \in Nat
    BY <1>3, <2>1
  <2>4. t[p] \in A
    BY <2>1, ElementOfSeq
  <2>5. SubSeq(t, 1, p) = Append(SubSeq(t, 1, p - 1), t[p])
    BY <2>2, <2>3, <2>4, AppendIsConcat
  <2>6. Offset(t, p + 1) = Bytes(SubSeq(t, 1, p))
    BY <2>1 DEF Offset
  <2> QED
    BY <2>3, <2>4, <2>5, <2>6, BytesAppend DEF Offset
<1> QED
  BY <1>2, <1>3, <1>4

\* They grow with the place.
LEMMA OffsetsGrow ==
  ASSUME NEW A, NEW t \in Seq(A), NEW p \in 1 .. Len(t) + 1, NEW q \in p .. Len(t) + 1
  PROVE  /\ Offset(t, p) \in Nat /\ Offset(t, q) \in Nat
         /\ Offset(t, p) =< Offset(t, q)
         /\ p < q => Offset(t, p) < Offset(t, q)
<1>1. Len(t) \in Nat /\ p \in Int /\ q \in Int /\ q \in 1 .. Len(t) + 1
  OBVIOUS
<1> DEFINE S == {n \in Nat : p + n =< Len(t) + 1 => Offset(t, p) + n =< Offset(t, p + n)}
<1>2. 0 \in S
  BY <1>1, OffsetFacts
<1>3. ASSUME NEW n \in S
      PROVE  n + 1 \in S
  <2> SUFFICES ASSUME p + (n + 1) =< Len(t) + 1
               PROVE  Offset(t, p) + (n + 1) =< Offset(t, p + (n + 1))
    OBVIOUS
  <2>1. n \in Nat /\ p + n \in 1 .. Len(t) /\ p + n \in 1 .. Len(t) + 1 /\ p + n =< Len(t) + 1
        /\ p + (n + 1) = p + n + 1 /\ p + (n + 1) \in 1 .. Len(t) + 1
    BY <1>1
  <2>2. Offset(t, p) + n =< Offset(t, p + n)
    BY <2>1
  <2> DEFINE m == p + n
  <2>3. m \in 1 .. Len(t) /\ m \in 1 .. Len(t) + 1 /\ p + (n + 1) = m + 1
    BY <2>1
  <2> HIDE DEF m
  <2>4. Offset(t, m + 1) = Offset(t, m) + (IF t[m] \in WideChars THEN 2 ELSE 1)
    BY <2>3, OffsetFacts
  <2>5. Offset(t, m) \in Nat /\ Offset(t, p) \in Nat
    BY <2>3, OffsetFacts
  <2>6. Offset(t, m) + 1 =< Offset(t, m + 1)
    BY <2>4, <2>5
  <2>7. Offset(t, m + 1) \in Nat
    BY <2>4, <2>5
  <2>8. Offset(t, p) + n =< Offset(t, m)
    BY <2>2 DEF m
  <2> QED
    BY <2>1, <2>3, <2>5, <2>6, <2>7, <2>8
<1> HIDE DEF S
<1>4. S = Nat
  <2>1. S \in SUBSET Nat
    BY DEF S
  <2> QED
    BY <1>2, <1>3, <2>1, SetInduction
<1>5. q - p \in Nat /\ p + (q - p) = q
  BY <1>1
<1>6. Offset(t, p) + (q - p) =< Offset(t, q)
  BY <1>1, <1>4, <1>5 DEF S
<1>7. Offset(t, p) \in Nat /\ Offset(t, q) \in Nat
  BY <1>1, OffsetFacts
<1> QED
  BY <1>1, <1>5, <1>6, <1>7

\* The bytes of a slice are those between its ends.
LEMMA SliceBytes ==
  ASSUME NEW A, NEW t \in Seq(A), NEW p \in 1 .. Len(t), NEW q \in p .. Len(t) + 1
  PROVE  Offset(t, q) = Offset(t, p) + Bytes(SubSeq(t, p, q - 1))
<1>1. Len(t) \in Nat /\ p \in Int /\ q \in Int /\ p \in 1 .. Len(t) + 1
  OBVIOUS
<1> DEFINE S == {n \in Nat : p + n =< Len(t) + 1 =>
                    Offset(t, p + n) = Offset(t, p) + Bytes(SubSeq(t, p, p + n - 1))}
<1>2. 0 \in S
  <2>1. SubSeq(t, p, p - 1) = <<>> /\ SubSeq(t, 1, 1 - 1) = <<>>
    BY <1>1, SubSeqEmpty
  <2>2. Bytes(<<>>) = 0
    BY <2>1, OffsetFacts DEF Offset
  <2>3. Offset(t, p) \in Nat
    BY <1>1, OffsetFacts
  <2>4. Offset(t, p) = Offset(t, p) + Bytes(SubSeq(t, p, p - 1))
    <3>1. Bytes(SubSeq(t, p, p - 1)) = 0
      BY <2>1, <2>2, Zenon
    <3> QED
      BY <2>3, <3>1
  <2>5. p + 0 = p /\ p + 0 - 1 = p - 1
    BY <1>1
  <2> QED
    BY <2>4, <2>5, Zenon
<1>3. ASSUME NEW n \in S
      PROVE  n + 1 \in S
  <2> SUFFICES ASSUME p + (n + 1) =< Len(t) + 1
               PROVE  Offset(t, p + (n + 1)) = Offset(t, p) + Bytes(SubSeq(t, p, p + (n + 1) - 1))
    OBVIOUS
  <2> DEFINE m == p + n
             u == SubSeq(t, p, m - 1)
  <2>1. n \in Nat /\ m =< Len(t) + 1 /\ m \in 1 .. Len(t) /\ m \in p .. Len(t)
        /\ p + (n + 1) = m + 1 /\ p + (n + 1) - 1 = m /\ p + n - 1 = m - 1
    BY <1>1
  <2>2. Offset(t, m) = Offset(t, p) + Bytes(u)
    BY <2>1
  <2> HIDE DEF m
  <2>3. Offset(t, m + 1) = Offset(t, m) + (IF t[m] \in WideChars THEN 2 ELSE 1)
    BY <2>1, OffsetFacts
  <2>4. SubSeq(t, p, m) = u \o <<t[m]>>
    BY <2>1, SubSeqRecursiveSecond
  <2>5. u \in Seq(A) /\ t[m] \in A
    <3>1. \A i \in p .. m - 1 : i \in 1 .. Len(t)
      BY <1>1, <2>1
    <3>2. \A i \in p .. m - 1 : t[i] \in A
      BY <3>1, ElementOfSeq
    <3>3. p \in Int /\ m - 1 \in Int
      BY <1>1, <2>1
    <3> QED
      BY <2>1, <3>2, <3>3, SubSeqProperties, ElementOfSeq
  <2>6. SubSeq(t, p, m) = Append(u, t[m])
    BY <2>4, <2>5, AppendIsConcat
  <2> HIDE DEF u
  <2>7. Bytes(SubSeq(t, p, m)) = Bytes(u) + (IF t[m] \in WideChars THEN 2 ELSE 1)
    BY <2>5, <2>6, BytesAppend
  <2>8. Bytes(u) \in Nat /\ Offset(t, p) \in Nat
    BY <1>1, <2>5, BytesType, OffsetFacts
  <2> QED
    BY <2>1, <2>2, <2>3, <2>7, <2>8
<1> HIDE DEF S
<1>4. S = Nat
  <2>1. S \in SUBSET Nat
    BY DEF S
  <2> QED
    BY <1>2, <1>3, <2>1, SetInduction
<1>5. q - p \in S /\ p + (q - p) = q /\ p + (q - p) =< Len(t) + 1 /\ p + (q - p) - 1 = q - 1
  BY <1>1, <1>4
<1> QED
  BY <1>5 DEF S

-----------------------------------------------------------------------------
(* The token stream: no pattern has a blank.                               *)

NonBlank(s) == \A i \in DOMAIN s : s[i] \notin Skipped

\* Of letters, digits and the other characters of the patterns none is blank.
LEMMA WordCharsAreNonBlank ==
  \A c \in WordChars \cup {".", "[", "]", "+", "-"} : c \notin Skipped
<1>1. \A c \in AsciiLetters : c \notin Skipped
  BY DEF AsciiLetters, Skipped
<1>2. \A c \in Digits : c \notin Skipped
  BY DEF Digits, Skipped
<1>3. \A c \in {WideLetter, "_", ".", "[", "]", "+", "-"} : c \notin Skipped
  BY DEF WideLetter, Skipped
<1> QED
  BY <1>1, <1>2, <1>3 DEF WordChars

\* A spelling of one or two characters.
LEMMA FewCharacters ==
  ASSUME NEW a, a \notin Skipped, NEW b, b \notin Skipped
  PROVE  NonBlank(<<a>>) /\ NonBlank(<<a, b>>)
  BY DEF NonBlank

\* The characters operators are spelled in.
Signs == {"(", ")", "=", "!", "/", "<", ">", "~", "+", "-", "*", "%", "&", "^", "|", ",", DegreeSign}
Spellings == Seq(Signs) \ {<<>>}

LEMMA PunctuationSpellings == \A k \in Symbols : Punctuation[k] \subseteq Spellings
<1>1. /\ Punctuation["LeftParen"] = {<<"(">>}
      /\ Punctuation["RightParen"] = {<<")">>}
      /\ Punctuation["Equals"] = {<<"=", "=">>}
      /\ Punctuation["NotEquals"] = {<<"!", "=">>, <<"/", "=">>}
      /\ Punctuation["LessThanEquals"] = {<<"<", "=">>}
      /\ Punctuation["GreaterThanEquals"] = {<<">", "=">>}
      /\ Punctuation["ApproximatelyEquals"] = {<<"~", "=">>}
      /\ Punctuation["LessThan"] = {<<"<">>}
      /\ Punctuation["GreaterThan"] = {<<">">>}
      /\ Punctuation["Plus"] = {<<"+">>}
      /\ Punctuation["Minus"] = {<<"-">>}
      /\ Punctuation["Exponentiation"] = {<<"*", "*">>}
      /\ Punctuation["Multiply"] = {<<"*">>}
  BY DEF Punctuation
<1>2. /\ Punctuation["Divide"] = {<<"/">>}
      /\ Punctuation["Modulo"] = {<<"%">>}
      /\ Punctuation["LogicalAnd"] = {<<"&", "&">>}
      /\ Punctuation["BitshiftLeft"] = {<<"<", "<">>}
      /\ Punctuation["BitshiftRight"] = {<<">", ">">>}
      /\ Punctuation["Degrees"] = {<<DegreeSign>>}
      /\ Punctuation["LogicalNot"] = {<<"!">>}
      /\ Punctuation["BitwiseAnd"] = {<<"&">>}
      /\ Punctuation["BitwiseXor"] = {<<"^">>}
      /\ Punctuation["BitwiseNot"] = {<<"~">>}
  BY DEF Punctuation
<1>3. /\ Punctuation["LogicalOr"] = {<<"|", "|">>}
      /\ Punctuation["BitwiseOr"] = {<<"|">>}
      /\ Punctuation["Comma"] = {<<",">>}
  BY Zenon DEF Punctuation
<1>4. Symbols = {"LeftParen", "RightParen", "Equals", "NotEquals", "LessThanEquals",
               "GreaterThanEquals", "ApproximatelyEquals", "LessThan", "GreaterThan", "Plus",
               "Minus", "Exponentiation", "Multiply", "Divide", "Modulo", "LogicalAnd",
               "LogicalOr", "BitshiftLeft", "BitshiftRight", "Degrees", "LogicalNot",
               "BitwiseAnd", "BitwiseXor", "BitwiseNot", "BitwiseOr", "Comma"}
  BY DEF Symbols, Punctuation
<1>5. \A c \in Signs, d \in Signs : <<c>> \in Spellings /\ <<c, d>> \in Spellings
  BY DEF Spellings
<1>6. /\ "(" \in Signs /\ ")" \in Signs /\ "=" \in Signs /\ "!" \in Signs /\ "/" \in Signs
      /\ "<" \in Signs /\ ">" \in Signs /\ "~" \in Signs /\ "+" \in Signs /\ "-" \in Signs
      /\ "*" \in Signs /\ "%" \in Signs /\ "&" \in Signs /\ "^" \in Signs /\ "|" \in Signs
      /\ "," \in Signs /\ DegreeSign \in Signs
  BY Zenon DEF Signs
<1>7. /\ \A k \in {"LeftParen", "RightParen", "LessThan", "GreaterThan", "Plus", "Minus", "Multiply"} :
            Punctuation[k] \subseteq Spellings
      /\ \A k \in {"Equals", "NotEquals", "LessThanEquals", "GreaterThanEquals",
                   "ApproximatelyEquals", "Exponentiation"} :
            Punctuation[k] \subseteq Spellings
  <2>1. {<<"(">>, <<")">>, <<"<">>, <<">">>, <<"+">>, <<"-">>, <<"*">>} \subseteq Spellings
    BY <1>5, <1>6
  <2>2. {<<"=", "=">>, <<"!", "=">>, <<"/", "=">>, <<"<", "=">>, <<">", "=">>, <<"~", "=">>,
         <<"*", "*">>} \subseteq Spellings
    BY <1>5, <1>6
  <2> QED
    BY <1>1, <2>1, <2>2
<1>8. /\ \A k \in {"Divide", "Modulo", "Degrees", "LogicalNot", "BitwiseAnd", "BitwiseXor",
                   "BitwiseNot"} :
            Punctuation[k] \subseteq Spellings
      /\ \A k \in {"LogicalAnd", "BitshiftLeft", "BitshiftRight"} : Punctuation[k] \subseteq Spellings
  <2>1. {<<"/">>, <<"%">>, <<DegreeSign>>, <<"!">>, <<"&">>, <<"^">>, <<"~">>} \subseteq Spellings
    BY <1>5, <1>6
  <2>2. {<<"&", "&">>, <<"<", "<">>, <<">", ">">>} \subseteq Spellings
    BY <1>5, <1>6
  <2> QED
    BY <1>2, <2>1, <2>2
<1>9. \A k \in {"LogicalOr", "BitwiseOr", "Comma"} : Punctuation[k] \subseteq Spellings
  BY <1>3, <1>5, <1>6
<1> QED
  BY <1>4, <1>7, <1>8, <1>9

\* No punctuation has a blank.
LEMMA PunctuationIsNonBlank == \A k \in Symbols : \A s \in Punctuation[k] : NonBlank(s)
<1>1. \A c \in {"(", ")", "=", "!", "/", "<", ">", "~", "+", "-", "*", "%", "&", "^", "|", ","} :
         c \notin Skipped
  BY DEF Skipped
<1>2. DegreeSign \notin Skipped
  BY Zenon DEF Skipped, DegreeSign
<1>3. \A c \in Signs : c \notin Skipped
  BY <1>1, <1>2, Zenon DEF Signs
<1>4. \A s \in Spellings : NonBlank(s)
  BY <1>3 DEF Spellings, NonBlank
<1> QED
  BY <1>4, PunctuationSpellings

\* No function name has a blank.
LEMMA NamesAreNonBlank == \A k \in Names : \A s \in FunctionNames[k] : NonBlank(s)
<1>1. \A c \in {"a", "b", "c", "d", "e", "f", "g", "h", "i", "l", "m", "n", "o", "p", "r", "s",
                "t", "u", "w", "x"} : c \notin Skipped
  BY DEF Skipped
<1> QED
  BY <1>1 DEF Names, FunctionNames, NonBlank

\* No spelling of a truth value or of NaN has one.
LEMMA SpellingsAreNonBlank == \A s \in BoolSpellings \cup NotANumber : NonBlank(s)
<1>1. \A c \in {"t", "T", "r", "R", "u", "U", "e", "E", "f", "F", "a", "A", "l", "L", "s", "S",
                "N", "n", "3", "2", "6", "4"} : c \notin Skipped
  BY DEF Skipped
<1>2. \A s \in NotANumber : NonBlank(s)
  BY <1>1 DEF NotANumber, NonBlank
<1>3. \A s \in {"t", "T"} \X {"r", "R"} \X {"u", "U"} \X {"e", "E"} : NonBlank(s)
  BY <1>1 DEF NonBlank
<1>4. \A s \in {"f", "F"} \X {"a", "A"} \X {"l", "L"} \X {"s", "S"} \X {"e", "E"} : NonBlank(s)
  BY <1>1 DEF NonBlank
<1> QED
  BY <1>2, <1>3, <1>4 DEF BoolSpellings

\* The characters of a part are those of the whole.
LEMMA PartFacts ==
  ASSUME NEW A, NEW s \in Seq(A), NEW a \in 1 .. Len(s) + 1, NEW b \in 0 .. Len(s)
  PROVE  /\ SubSeq(s, a, b) \in Seq(A)
         /\ \A k \in a .. b : s[k] \in CharsOf(SubSeq(s, a, b)) /\ s[k] \in A
<1>1. Len(s) \in Nat /\ a \in Int /\ b \in Int
  OBVIOUS
<1>2. \A k \in a .. b : s[k] \in A
  <2>1. \A k \in a .. b : k \in 1 .. Len(s)
    BY <1>1
  <2> QED
    BY <2>1, ElementOfSeq
<1>3. /\ SubSeq(s, a, b) \in Seq(A)
      /\ Len(SubSeq(s, a, b)) = IF a =< b THEN b - a + 1 ELSE 0
      /\ \A i \in 1 .. b - a + 1 : SubSeq(s, a, b)[i] = s[a + i - 1]
  BY <1>1, <1>2, SubSeqProperties
<1>4. ASSUME NEW k \in a .. b
      PROVE  s[k] \in CharsOf(SubSeq(s, a, b))
  <2> DEFINE u == SubSeq(s, a, b)
             i == k - a + 1
  <2>1. i \in 1 .. b - a + 1 /\ a + i - 1 = k /\ a =< b
    BY <1>1
  <2>2. DOMAIN u = 1 .. Len(u) /\ Len(u) = b - a + 1
    BY <1>3, <2>1
  <2>3. u[i] = s[k] /\ i \in DOMAIN u
    BY <1>3, <2>1, <2>2
  <2> HIDE DEF u, i
  <2> QED
    BY <2>3 DEF CharsOf, u
<1> QED
  BY <1>2, <1>3, <1>4

\* No decimal number has one: its digits are around a point.
LEMMA DecimalIsNonBlank ==
  ASSUME NEW A, NEW s \in Seq(A), IsDecimal(s)
  PROVE  NonBlank(s)
<1>1. Len(s) \in Nat /\ DOMAIN s = 1 .. Len(s)
  OBVIOUS
<1> DEFINE rest(i) == SubSeq(s, 1, i - 1) \o From(s, i + 1)
<1>2. PICK i \in 1 .. Len(s) : s[i] = "." /\ CharsOf(rest(i)) \subseteq Digits
  BY DEF IsDecimal
<1> DEFINE l == SubSeq(s, 1, i - 1)
           r == SubSeq(s, i + 1, Len(s))
<1>3. l \in Seq(A) /\ \A k \in 1 .. i - 1 : s[k] \in CharsOf(l)
  <2>1. 1 \in 1 .. Len(s) + 1 /\ i - 1 \in 0 .. Len(s)
    BY <1>1
  <2> QED
    BY <2>1, PartFacts
<1>4. r \in Seq(A) /\ \A k \in i + 1 .. Len(s) : s[k] \in CharsOf(r)
  <2>1. i + 1 \in 1 .. Len(s) + 1 /\ Len(s) \in 0 .. Len(s)
    BY <1>1
  <2> QED
    BY <2>1, PartFacts
<1>5. rest(i) = l \o r
  BY DEF From
<1> HIDE DEF l, r, rest
<1>6. CharsOf(l) \subseteq CharsOf(l \o r) /\ CharsOf(r) \subseteq CharsOf(l \o r)
  <2>1. /\ l \o r \in Seq(A) /\ Len(l \o r) = Len(l) + Len(r)
        /\ \A k \in 1 .. Len(l) + Len(r) :
              (l \o r)[k] = IF k =< Len(l) THEN l[k] ELSE r[k - Len(l)]
    BY <1>3, <1>4, ConcatProperties
  <2>2. /\ Len(l) \in Nat /\ Len(r) \in Nat /\ DOMAIN l = 1 .. Len(l) /\ DOMAIN r = 1 .. Len(r)
        /\ DOMAIN (l \o r) = 1 .. Len(l) + Len(r)
    BY <1>3, <1>4, <2>1
  <2>3. ASSUME NEW k \in DOMAIN l
        PROVE  k \in DOMAIN (l \o r) /\ (l \o r)[k] = l[k]
    BY <2>1, <2>2
  <2>4. ASSUME NEW k \in DOMAIN r
        PROVE  k + Len(l) \in DOMAIN (l \o r) /\ (l \o r)[k + Len(l)] = r[k]
    <3>1. k + Len(l) \in 1 .. Len(l) + Len(r) /\ ~(k + Len(l) =< Len(l)) /\ k + Len(l) - Len(l) = k
      BY <2>2
    <3> QED
      BY <2>1, <2>2, <3>1
  <2> QED
    BY <2>3, <2>4 DEF CharsOf
<1>7. \A c \in Digits \cup {"."} : c \notin Skipped
  BY WordCharsAreNonBlank DEF WordChars
<1>8. ASSUME NEW k \in DOMAIN s
      PROVE  s[k] \notin Skipped
  <2>1. k \in 1 .. i - 1 \/ k = i \/ k \in i + 1 .. Len(s)
    BY <1>1
  <2> QED
    BY <1>2, <1>3, <1>4, <1>5, <1>6, <1>7, <2>1
<1> QED
  BY <1>8 DEF NonBlank

\* A text is without blanks if two parts that make it up are.
LEMMA TwoParts ==
  ASSUME NEW A, NEW s \in Seq(A), NEW b \in 0 .. Len(s),
         CharsOf(SubSeq(s, 1, b)) \cap Skipped = {},
         CharsOf(From(s, b + 1)) \cap Skipped = {}
  PROVE  NonBlank(s)
<1>1. Len(s) \in Nat /\ DOMAIN s = 1 .. Len(s)
  OBVIOUS
<1>2. 1 \in 1 .. Len(s) + 1 /\ b + 1 \in 1 .. Len(s) + 1 /\ Len(s) \in 0 .. Len(s)
  BY <1>1
<1>3. \A k \in 1 .. b : s[k] \in CharsOf(SubSeq(s, 1, b))
  BY <1>2, PartFacts
<1>4. \A k \in b + 1 .. Len(s) : s[k] \in CharsOf(From(s, b + 1))
  BY <1>2, PartFacts DEF From
<1>5. \A k \in DOMAIN s : k \in 1 .. b \/ k \in b + 1 .. Len(s)
  BY <1>1
<1> QED
  BY <1>3, <1>4, <1>5 DEF NonBlank

\* Numbers, indices and names have no blank.
LEMMA DigitsAreNonBlank ==
  ASSUME NEW A, NEW s \in Seq(A), AllDigits(s)
  PROVE  NonBlank(s)
<1>1. \A c \in Digits : c \notin Skipped
  BY WordCharsAreNonBlank DEF WordChars
<1> QED
  BY <1>1 DEF AllDigits, CharsOf, NonBlank

\* Nor has a hexadecimal number,
LEMMA HexadecimalIsNonBlank ==
  ASSUME NEW A, NEW s \in Seq(A), IsHexadecimal(s)
  PROVE  NonBlank(s)
<1>1. Len(s) \in Nat /\ 2 \in 0 .. Len(s) /\ 2 + 1 = 3
  BY DEF IsHexadecimal
<1>2. CharsOf(SubSeq(s, 1, 2)) \cap Skipped = {}
  <2>1. "0" \notin Skipped /\ "x" \notin Skipped
    BY DEF Skipped
  <2>2. SubSeq(s, 1, 2) = <<"0", "x">>
    BY DEF IsHexadecimal
  <2>3. NonBlank(<<"0", "x">>)
    BY <2>1, FewCharacters, Zenon
  <2> QED
    BY <2>2, <2>3 DEF CharsOf, NonBlank
<1>3. \A c \in HexDigits : c \notin Skipped
  BY DEF HexDigits, Digits, Skipped
<1>4. CharsOf(From(s, 2 + 1)) \cap Skipped = {}
  BY <1>1, <1>3 DEF IsHexadecimal
<1> QED
  BY <1>1, <1>2, <1>4, TwoParts

\* an exponent,
LEMMA ExponentIsNonBlank ==
  ASSUME NEW A, NEW s \in Seq(A), IsExponent(s)
  PROVE  NonBlank(s)
<1>1. Len(s) \in Nat /\ Len(s) >= 1 /\ DOMAIN s = 1 .. Len(s)
  BY DEF IsExponent
<1>2. s[1] \notin Skipped
  BY DEF IsExponent, Skipped
<1>3. \A c \in Digits : c \notin Skipped
  BY WordCharsAreNonBlank DEF WordChars
<1>4. CASE AllDigits(From(s, 2))
  <2>1. 2 \in 1 .. Len(s) + 1 /\ Len(s) \in 0 .. Len(s)
    BY <1>1
  <2>2. \A k \in 2 .. Len(s) : s[k] \in CharsOf(From(s, 2))
    BY <2>1, PartFacts DEF From
  <2>3. \A k \in DOMAIN s : k = 1 \/ k \in 2 .. Len(s)
    BY <1>1
  <2> QED
    BY <1>2, <1>3, <1>4, <2>2, <2>3 DEF AllDigits, NonBlank
<1>5. CASE Len(s) > 2 /\ s[2] \in {"+", "-"} /\ AllDigits(From(s, 3))
  <2>1. 3 \in 1 .. Len(s) + 1 /\ Len(s) \in 0 .. Len(s)
    BY <1>1, <1>5
  <2>2. \A k \in 3 .. Len(s) : s[k] \in CharsOf(From(s, 3))
    BY <2>1, PartFacts DEF From
  <2>3. \A k \in DOMAIN s : k = 1 \/ k = 2 \/ k \in 3 .. Len(s)
    BY <1>1
  <2>4. s[2] \notin Skipped
    BY <1>5, WordCharsAreNonBlank
  <2> QED
    BY <1>2, <1>3, <1>5, <2>2, <2>3, <2>4 DEF AllDigits, NonBlank
<1> QED
  BY <1>4, <1>5 DEF IsExponent

\* a float,
LEMMA FloatIsNonBlank ==
  ASSUME NEW A, NEW s \in Seq(A), IsFloatNumber(s)
  PROVE  NonBlank(s)
<1>1. CASE IsDecimal(s)
  BY <1>1, DecimalIsNonBlank
<1>2. ASSUME NEW i \in 2 .. Len(s) - 1,
             AllDigits(SubSeq(s, 1, i - 1)) \/ IsDecimal(SubSeq(s, 1, i - 1)),
             IsExponent(From(s, i))
      PROVE  NonBlank(s)
  <2> DEFINE l == SubSeq(s, 1, i - 1)
             r == From(s, i)
  <2>1. /\ Len(s) \in Nat /\ i - 1 \in 0 .. Len(s) /\ i - 1 + 1 = i
        /\ 1 \in 1 .. Len(s) + 1 /\ i \in 1 .. Len(s) + 1 /\ Len(s) \in 0 .. Len(s)
    OBVIOUS
  <2>2. l \in Seq(A) /\ r \in Seq(A)
    BY <2>1, PartFacts DEF From
  <2>3. NonBlank(l)
    BY <1>2, <2>2, DigitsAreNonBlank, DecimalIsNonBlank
  <2>4. NonBlank(r)
    BY <1>2, <2>2, ExponentIsNonBlank
  <2>5. CharsOf(l) \cap Skipped = {} /\ CharsOf(r) \cap Skipped = {}
    BY <2>3, <2>4 DEF CharsOf, NonBlank
  <2> QED
    BY <2>1, <2>5, TwoParts
<1> QED
  BY <1>1, <1>2 DEF IsFloatNumber

\* an index,
LEMMA IndexIsNonBlank ==
  ASSUME NEW A, NEW s \in Seq(A), IsIndex(s)
  PROVE  NonBlank(s)
<1>1. Len(s) \in Nat /\ Len(s) > 2 /\ DOMAIN s = 1 .. Len(s)
  BY DEF IsIndex
<1>2. s[1] \notin Skipped /\ s[Len(s)] \notin Skipped
  BY WordCharsAreNonBlank DEF IsIndex
<1>3. \A c \in Digits : c \notin Skipped
  BY WordCharsAreNonBlank DEF WordChars
<1>4. 2 \in 1 .. Len(s) + 1 /\ Len(s) - 1 \in 0 .. Len(s)
  BY <1>1
<1>5. \A k \in 2 .. Len(s) - 1 : s[k] \in CharsOf(SubSeq(s, 2, Len(s) - 1))
  BY <1>4, PartFacts
<1>6. \A k \in DOMAIN s : k = 1 \/ k = Len(s) \/ k \in 2 .. Len(s) - 1
  BY <1>1
<1> QED
  BY <1>2, <1>3, <1>5, <1>6 DEF IsIndex, AllDigits, NonBlank

\* or a variable's name.
LEMMA VariableIsNonBlank ==
  ASSUME NEW A, NEW s \in Seq(A), IsVariable(s)
  PROVE  NonBlank(s)
<1>1. PICK n \in 1 .. Len(s) : /\ CharsOf(SubSeq(s, 1, n)) \subseteq WordChars \cup {"."}
                               /\ n = Len(s) \/ IsIndex(From(s, n + 1))
  BY DEF IsVariable
<1>2. /\ Len(s) \in Nat /\ n \in 0 .. Len(s) /\ n + 1 \in 1 .. Len(s) + 1 /\ n \in Int
      /\ Len(s) \in 0 .. Len(s) /\ 1 \in 1 .. Len(s) + 1 /\ DOMAIN s = 1 .. Len(s)
  OBVIOUS
<1>3. CharsOf(SubSeq(s, 1, n)) \cap Skipped = {}
  BY <1>1, WordCharsAreNonBlank
<1>4. CASE n = Len(s)
  <2>1. \A k \in 1 .. n : s[k] \in CharsOf(SubSeq(s, 1, n))
    BY <1>2, PartFacts
  <2> QED
    BY <1>2, <1>3, <1>4, <2>1 DEF NonBlank
<1>5. CASE IsIndex(From(s, n + 1))
  <2>1. From(s, n + 1) \in Seq(A)
    BY <1>2, PartFacts DEF From
  <2>2. CharsOf(From(s, n + 1)) \cap Skipped = {}
    BY <1>5, <2>1, IndexIsNonBlank DEF CharsOf, NonBlank
  <2> QED
    BY <1>2, <1>3, <2>2, TwoParts
<1> QED
  BY <1>1, <1>4, <1>5

\* A slice some pattern matches has no blank in it.
LEMMA TokensHaveNoBlanks ==
  ASSUME NEW A, NEW s \in Seq(A), KindOf(s) # "none"
  PROVE  NonBlank(s)
<1>1. \/ \E k \in Symbols : s \in Punctuation[k]
      \/ \E k \in Names : s \in FunctionNames[k]
      \/ s \in NotANumber \/ IsFloatNumber(s)
      \/ s \in BoolSpellings \/ IsVariable(s) \/ AllDigits(s) \/ IsHexadecimal(s)
  BY DEF KindOf
<1>2. s \in BoolSpellings \cup NotANumber => NonBlank(s)
  BY SpellingsAreNonBlank
<1> QED
  BY <1>1, <1>2, PunctuationIsNonBlank, NamesAreNonBlank, FloatIsNonBlank,
     VariableIsNonBlank, DigitsAreNonBlank, HexadecimalIsNonBlank

-----------------------------------------------------------------------------
(* The token stream: the invariant, and what it says of spans and slices.  *)

\* The last character of the slice at p.
EndOf(p) == p + LongestFrom(text, p) - 1

\* Item i is what next returned for the slice at p.
ItsPlace(i, p) ==
    /\ items[i] = ItemAt(text, p)
    /\ text[p] \notin Skipped
    /\ EndOf(p) =< pos

\* Every item has its place in what is consumed, in the order of the text, and
\* whatever is consumed and not skipped is in the slice of an item.
StreamInv ==
    /\ text \in Texts
    /\ pos \in 0 .. Len(text)
    /\ items \in Seq({ItemAt(text, p) : p \in 1 .. Len(text)})
    /\ \A i \in 1 .. Len(items) : \E p \in 1 .. pos : ItsPlace(i, p)
    /\ \A i \in 1 .. Len(items) - 1 : items[i].end =< items[i + 1].start
    /\ \A c \in 1 .. pos : text[c] \notin Skipped =>
          \E i \in 1 .. Len(items) : \E p \in 1 .. pos : ItsPlace(i, p) /\ c \in p .. EndOf(p)

\* At first nothing is consumed.
LEMMA InitStreamInv == Init => StreamInv
<1> SUFFICES ASSUME Init
             PROVE  StreamInv
  OBVIOUS
<1>1. text \in Seq(CharsOf(text))
  BY TextsAssumption DEF Init
<1>2. Len(text) \in Nat
  BY <1>1
<1>3. Len(items) = 0 /\ items \in Seq({ItemAt(text, p) : p \in 1 .. Len(text)})
  BY DEF Init
<1>4. \A i \in 1 .. Len(items) : FALSE
  BY <1>3
<1>5. \A i \in 1 .. Len(items) - 1 : FALSE
  BY <1>3
<1>6. \A c \in 1 .. pos : FALSE
  BY DEF Init
<1>7. text \in Texts /\ pos \in 0 .. Len(text)
  BY <1>2 DEF Init
<1> QED
  BY <1>3, <1>4, <1>5, <1>6, <1>7 DEF StreamInv

\* An item and the byte span of its slice.
LEMMA ItemFacts ==
  ASSUME NEW A, NEW t \in Seq(A), NEW p \in 1 .. Len(t)
  PROVE  /\ p + LongestFrom(t, p) \in p + 1 .. Len(t) + 1
         /\ ItemAt(t, p).start = Offset(t, p)
         /\ ItemAt(t, p).end = Offset(t, p + LongestFrom(t, p))
         /\ ItemAt(t, p).slice = SliceAt(t, p)
         /\ ItemAt(t, p).token = TokenOf(SliceAt(t, p))
<1> DEFINE L == LongestFrom(t, p)
<1>1. Len(t) \in Nat /\ p \in Int /\ L \in 1 .. Len(t) - p + 1
  BY LongestFacts
<1>2. L \in Int /\ p + L \in p .. Len(t) + 1 /\ p + L \in p + 1 .. Len(t) + 1
  BY <1>1
<1> HIDE DEF L
<1>3. Offset(t, p + L) = Offset(t, p) + Bytes(SubSeq(t, p, p + L - 1))
  BY <1>2, SliceBytes
<1> QED
  BY <1>2, <1>3 DEF ItemAt, SliceAt, L

\* NextItem adds the longest slice at the next place; NextNone, what is skipped.
LEMMA NextKeepsStream == StreamInv /\ [Next]_vars => StreamInv'
<1> SUFFICES ASSUME StreamInv, [Next]_vars
             PROVE  StreamInv'
  OBVIOUS
<1>1. text \in Seq(CharsOf(text))
  BY TextsAssumption DEF StreamInv
<1>2. Len(text) \in Nat /\ pos \in 0 .. Len(text) /\ pos + 1 \in 1 .. Len(text) + 1
  BY <1>1 DEF StreamInv
<1> DEFINE Items == {ItemAt(text, p) : p \in 1 .. Len(text)}
<1>0. PICK q, n : q = NextPlace /\ n = Len(items)
  OBVIOUS
<1>3. /\ q \in pos + 1 .. Len(text) + 1
      /\ \A i \in pos + 1 .. q - 1 : text[i] \in Skipped
      /\ q =< Len(text) => text[q] \notin Skipped
  BY <1>0, <1>1, <1>2, SkipFacts DEF NextPlace
<1>4. items \in Seq(Items) /\ Len(items) \in Nat
  BY DEF StreamInv
<1>5. ASSUME NextItem
      PROVE  StreamInv'
  <2> DEFINE e == ItemAt(text, q)
  <2>1. items' = Append(items, e) /\ pos' = EndOf(q) /\ text' = text /\ q =< Len(text)
    BY <1>0, <1>5 DEF NextItem, EndOf
  <2>2. q \in 1 .. Len(text) /\ q \in pos + 1 .. Len(text) /\ text[q] \notin Skipped
    BY <1>2, <1>3, <2>1
  <2>3. q + LongestFrom(text, q) \in q + 1 .. Len(text) + 1
    BY <1>1, <2>2, ItemFacts
  <2>4. EndOf(q) = q + LongestFrom(text, q) - 1 /\ LongestFrom(text, q) \in Int
    BY <1>1, <2>2, LongestFacts DEF EndOf
  <2>5. EndOf(q) \in q .. Len(text) /\ EndOf(q) \in 0 .. Len(text) /\ EndOf(q) + 1 = q + LongestFrom(text, q)
    BY <2>2, <2>3, <2>4
  <2>6. pos' \in 0 .. Len(text') /\ pos < pos' /\ text' \in Texts /\ pos \in Int /\ pos' \in Int
    BY <1>2, <2>1, <2>2, <2>5 DEF StreamInv
  <2>7. e \in Items
    BY <2>2
  <2>8. /\ items' \in Seq(Items) /\ Len(items') = n + 1 /\ items'[n + 1] = e
        /\ \A i \in 1 .. n : items'[i] = items[i]
    BY <1>0, <1>4, <2>1, <2>7, AppendProperties
  <2> HIDE DEF e, Items
  <2>9. n \in Nat /\ n = Len(items)
    BY <1>0, <1>4
  <2>10. \A p : EndOf(p)' = EndOf(p)
    BY <2>1 DEF EndOf
  <2>11. ItsPlace(n + 1, q)' /\ q \in 1 .. pos'
    <3>1. items'[n + 1] = ItemAt(text, q)
      BY <2>8 DEF e
    <3>2. EndOf(q) =< pos' /\ q =< pos'
      BY <2>1, <2>5, <2>6
    <3> QED
      BY <2>1, <2>2, <2>10, <3>1, <3>2 DEF ItsPlace
  <2>12. ASSUME NEW i \in 1 .. n, NEW p \in 1 .. pos, ItsPlace(i, p)
         PROVE  ItsPlace(i, p)' /\ p \in 1 .. pos'
    <3>1. p \in 1 .. Len(text) /\ p \in 1 .. pos' /\ EndOf(p) =< pos
      BY <1>2, <2>6, <2>12 DEF ItsPlace
    <3>2. EndOf(p) \in Int
      <4>1. LongestFrom(text, p) \in 1 .. Len(text) - p + 1
        BY <1>1, <3>1, LongestFacts
      <4> QED
        BY <4>1, <3>1 DEF EndOf
    <3>3. EndOf(p) =< pos'
      BY <2>6, <3>1, <3>2
    <3>4. items'[i] = items[i]
      BY <2>8
    <3> QED
      BY <2>1, <2>10, <2>12, <3>1, <3>3, <3>4 DEF ItsPlace
  <2>13. \A i \in 1 .. n + 1 : i \in 1 .. n \/ i = n + 1
    BY <2>9
  <2>14. (\A i \in 1 .. Len(items) : \E p \in 1 .. pos : ItsPlace(i, p))'
    <3>1. \A i \in 1 .. n : \E p \in 1 .. pos : ItsPlace(i, p)
      BY <2>9 DEF StreamInv
    <3>2. \A i \in 1 .. n + 1 : \E p \in 1 .. pos' : ItsPlace(i, p)'
      BY <2>11, <2>12, <2>13, <3>1
    <3> QED
      BY <2>8, <3>2
  <2>15. (\A i \in 1 .. Len(items) - 1 : items[i].end =< items[i + 1].start)'
    <3> SUFFICES ASSUME NEW i \in 1 .. n
                 PROVE  items'[i].end =< items'[i + 1].start
      BY <2>8, <2>9
    <3>1. CASE i = n
      <4>1. PICK p \in 1 .. pos : ItsPlace(n, p)
        BY <2>9, <3>1 DEF StreamInv
      <4>2. p \in 1 .. Len(text) /\ EndOf(p) =< pos
        BY <1>2, <4>1 DEF ItsPlace
      <4> DEFINE f == p + LongestFrom(text, p)
      <4>3. f \in 1 .. Len(text) + 1 /\ q \in f .. Len(text) + 1 /\ q \in 1 .. Len(text) + 1
        <5>1. LongestFrom(text, p) \in 1 .. Len(text) - p + 1
          BY <1>1, <4>2, LongestFacts
        <5>2. f - 1 =< pos
          BY <4>2, <5>1 DEF EndOf
        <5> QED
          BY <1>2, <2>2, <4>2, <5>1, <5>2
      <4>4. items[n].end = Offset(text, f)
        BY <1>1, <4>1, <4>2, ItemFacts DEF ItsPlace
      <4>5. e.start = Offset(text, q)
        BY <1>1, <2>2, ItemFacts DEF e
      <4> HIDE DEF f
      <4>6. Offset(text, f) =< Offset(text, q)
        BY <1>1, <4>3, OffsetsGrow
      <4> QED
        BY <2>8, <3>1, <4>4, <4>5, <4>6
    <3>2. CASE i # n
      <4>1. i \in 1 .. n - 1 /\ i + 1 \in 1 .. n
        BY <2>9, <3>2
      <4>2. items[i].end =< items[i + 1].start
        BY <2>9, <4>1 DEF StreamInv
      <4> QED
        BY <2>8, <4>1, <4>2
    <3> QED
      BY <3>1, <3>2
  <2>16. (\A c \in 1 .. pos : text[c] \notin Skipped =>
             \E i \in 1 .. Len(items) : \E p \in 1 .. pos : ItsPlace(i, p) /\ c \in p .. EndOf(p))'
    <3> SUFFICES ASSUME NEW c \in 1 .. pos', text[c] \notin Skipped
                 PROVE  \E i \in 1 .. n + 1 : \E p \in 1 .. pos' : ItsPlace(i, p)' /\ c \in p .. EndOf(p)
      BY <2>1, <2>8, <2>10
    <3>1. c \in 1 .. pos \/ c \in pos + 1 .. q - 1 \/ c \in q .. EndOf(q)
      BY <1>2, <2>1, <2>2, <2>5
    <3>2. CASE c \in 1 .. pos
      <4>1. PICK i \in 1 .. n : \E p \in 1 .. pos : ItsPlace(i, p) /\ c \in p .. EndOf(p)
        BY <2>9, <3>2 DEF StreamInv
      <4>2. i \in 1 .. n + 1
        BY <2>9
      <4> QED
        BY <2>12, <4>1, <4>2
    <3>3. CASE c \in pos + 1 .. q - 1
      BY <1>3, <3>3
    <3>4. CASE c \in q .. EndOf(q)
      <4>1. n + 1 \in 1 .. n + 1
        BY <2>9
      <4> QED
        BY <2>11, <3>4, <4>1
    <3> QED
      BY <3>1, <3>2, <3>3, <3>4
  <2>17. (items \in Seq({ItemAt(text, p) : p \in 1 .. Len(text)}))'
    BY <2>1, <2>8 DEF Items
  <2> QED
    BY <2>6, <2>14, <2>15, <2>16, <2>17 DEF StreamInv
<1>6. ASSUME NextNone
      PROVE  StreamInv'
  <2>1. items' = items /\ text' = text /\ pos' = Len(text) /\ pos' \in 0 .. Len(text)
        /\ NextPlace > Len(text)
    BY <1>2, <1>6 DEF NextNone
  <2>2. \A p : EndOf(p)' = EndOf(p)
    BY <2>1 DEF EndOf
  <2>3. ASSUME NEW i \in 1 .. Len(items), NEW p \in 1 .. pos, ItsPlace(i, p)
        PROVE  ItsPlace(i, p)' /\ p \in 1 .. pos'
    <3>1. p \in 1 .. Len(text) /\ p \in 1 .. pos' /\ EndOf(p) =< pos
      BY <1>2, <2>1, <2>3 DEF ItsPlace
    <3>2. LongestFrom(text, p) \in 1 .. Len(text) - p + 1
      BY <1>1, <3>1, LongestFacts
    <3>3. EndOf(p) =< pos'
      BY <2>1, <3>1, <3>2, <1>2 DEF EndOf
    <3> QED
      BY <2>1, <2>2, <2>3, <3>1, <3>3 DEF ItsPlace
  <2>4. ASSUME NEW c \in 1 .. pos', text[c] \notin Skipped
        PROVE  c \in 1 .. pos
    BY <1>0, <1>2, <1>3, <2>1, <2>4
  <2> QED
    BY <2>1, <2>2, <2>3, <2>4 DEF StreamInv
<1>7. ASSUME UNCHANGED vars
      PROVE  StreamInv'
  BY <1>7 DEF vars, StreamInv, ItsPlace, EndOf
<1> QED
  BY <1>5, <1>6, <1>7 DEF Next

\* The characters of a slice are not skipped: no token has a blank, and an
\* error's one character is where skipping stopped.
LEMMA SlicesAreNonBlank ==
  ASSUME NEW A, NEW t \in Seq(A), NEW p \in 1 .. Len(t), t[p] \notin Skipped,
         NEW c \in p .. p + LongestFrom(t, p) - 1
  PROVE  t[c] \notin Skipped
<1> DEFINE L == LongestFrom(t, p)
           b == p + L - 1
<1>1. Len(t) \in Nat /\ p \in Int /\ L \in 1 .. Len(t) - p + 1 /\ L \in Slices(t, p) \cup {1}
  BY LongestFacts
<1>2. p \in 1 .. Len(t) + 1 /\ b \in 0 .. Len(t) /\ c \in p .. b
  BY <1>1
<1>3. CASE L = 1
  <2>1. c = p
    BY <1>1, <1>2, <1>3
  <2> QED
    BY <2>1
<1>4. CASE L \in Slices(t, p)
  <2>1. KindOf(SubSeq(t, p, b)) # "none"
    BY <1>4 DEF Slices
  <2> HIDE DEF b
  <2>2. SubSeq(t, p, b) \in Seq(A) /\ t[c] \in CharsOf(SubSeq(t, p, b))
    BY <1>2, PartFacts
  <2>3. NonBlank(SubSeq(t, p, b))
    BY <2>1, <2>2, TokensHaveNoBlanks
  <2> QED
    BY <2>2, <2>3 DEF CharsOf, NonBlank
<1> QED
  BY <1>1, <1>3, <1>4

\* SpansCoverText: every span has bytes, spans come in order, and together they
\* are the bytes that are not skipped.
LEMMA SpansFollow == StreamInv => SpansCoverText
<1> SUFFICES ASSUME StreamInv
             PROVE  SpansCoverText
  OBVIOUS
<1>1. text \in Seq(CharsOf(text)) /\ Len(text) \in Nat
  BY TextsAssumption DEF StreamInv
<1>2. DOMAIN items = 1 .. Len(items) /\ Len(items) \in Nat /\ pos \in 0 .. Len(text)
  BY DEF StreamInv
<1>3. ASSUME NEW i \in DOMAIN items, NEW p \in 1 .. pos, ItsPlace(i, p)
      PROVE  /\ p \in 1 .. Len(text) /\ p \in 1 .. Len(text) + 1
             /\ p + LongestFrom(text, p) \in p + 1 .. Len(text) + 1
             /\ EndOf(p) = p + LongestFrom(text, p) - 1 /\ LongestFrom(text, p) \in Int
             /\ items[i].start = Offset(text, p)
             /\ items[i].end = Offset(text, p + LongestFrom(text, p))
  <2>1. p \in 1 .. Len(text) /\ p \in 1 .. Len(text) + 1
    BY <1>2
  <2> QED
    BY <1>1, <1>3, <2>1, ItemFacts, LongestFacts DEF ItsPlace, EndOf
<1>4. \A p \in 1 .. Len(text) + 1 : Offset(text, p) \in Nat
  BY <1>1, OffsetFacts
<1>5. \A p, q \in 1 .. Len(text) + 1 :
         /\ p =< q => Offset(text, p) =< Offset(text, q)
         /\ p < q => Offset(text, p) < Offset(text, q)
  <2> SUFFICES ASSUME NEW p \in 1 .. Len(text) + 1, NEW q \in 1 .. Len(text) + 1, p =< q
               PROVE  /\ Offset(text, p) =< Offset(text, q)
                      /\ p < q => Offset(text, p) < Offset(text, q)
    BY <1>1
  <2>1. q \in p .. Len(text) + 1
    BY <1>1
  <2> QED
    BY <1>1, <2>1, OffsetsGrow
<1>6. ASSUME NEW i \in DOMAIN items
      PROVE  items[i].start < items[i].end
  <2>1. PICK p \in 1 .. pos : ItsPlace(i, p)
    BY <1>2 DEF StreamInv
  <2>2. p < p + LongestFrom(text, p) /\ p + LongestFrom(text, p) \in 1 .. Len(text) + 1
        /\ p \in 1 .. Len(text) + 1
    BY <1>1, <1>3, <2>1
  <2> QED
    BY <1>3, <1>5, <2>1, <2>2
<1>7. \A i \in 1 .. Len(items) - 1 : items[i].end =< items[i + 1].start
  BY DEF StreamInv
<1>8. ASSUME NEW c \in 1 .. pos
      PROVE  LET byte == Bytes(SubSeq(text, 1, c)) - 1
             IN  text[c] \in Skipped <=>
                    ~\E i \in DOMAIN items : items[i].start =< byte /\ byte < items[i].end
  <2> DEFINE byte == Bytes(SubSeq(text, 1, c)) - 1
  <2>1. c \in 1 .. Len(text) + 1 /\ c + 1 \in 1 .. Len(text) + 1 /\ c + 1 - 1 = c /\ c \in Int
    BY <1>1, <1>2
  <2>2. Offset(text, c) < Offset(text, c + 1) /\ Offset(text, c) \in Nat /\ Offset(text, c + 1) \in Nat
    BY <1>4, <1>5, <2>1
  <2>3. byte = Offset(text, c + 1) - 1
    BY <2>1 DEF Offset
  <2> HIDE DEF byte
  <2>4. ASSUME text[c] \notin Skipped
        PROVE  \E i \in DOMAIN items : items[i].start =< byte /\ byte < items[i].end
    <3>1. PICK i \in DOMAIN items : \E p \in 1 .. pos : ItsPlace(i, p) /\ c \in p .. EndOf(p)
      BY <1>2, <2>4 DEF StreamInv
    <3>2. PICK p \in 1 .. pos : ItsPlace(i, p) /\ c \in p .. EndOf(p)
      BY <3>1
    <3> DEFINE f == p + LongestFrom(text, p)
    <3>3. /\ p \in 1 .. Len(text) + 1 /\ f \in 1 .. Len(text) + 1 /\ p =< c /\ c + 1 =< f
          /\ items[i].start = Offset(text, p) /\ items[i].end = Offset(text, f)
      <4>0. ItsPlace(i, p)
        BY <3>2
      <4>1. /\ p \in 1 .. Len(text) + 1 /\ f \in p + 1 .. Len(text) + 1 /\ EndOf(p) = f - 1
            /\ items[i].start = Offset(text, p) /\ items[i].end = Offset(text, f)
        BY ONLY <1>3, <3>1, <4>0
      <4> HIDE DEF f
      <4> QED
        BY <1>1, <2>1, <3>2, <4>1
    <3> HIDE DEF f
    <3>4. Offset(text, p) =< Offset(text, c) /\ Offset(text, c + 1) =< Offset(text, f)
          /\ Offset(text, p) \in Nat /\ Offset(text, f) \in Nat
      BY <1>4, <1>5, <2>1, <3>3
    <3> QED
      BY <2>2, <2>3, <3>3, <3>4
  <2>5. ASSUME NEW i \in DOMAIN items, items[i].start =< byte, byte < items[i].end
        PROVE  text[c] \notin Skipped
    <3>1. PICK p \in 1 .. pos : ItsPlace(i, p)
      BY <1>2 DEF StreamInv
    <3> DEFINE f == p + LongestFrom(text, p)
    <3>2. /\ p \in 1 .. Len(text) /\ p \in 1 .. Len(text) + 1 /\ f \in p + 1 .. Len(text) + 1
          /\ items[i].start = Offset(text, p) /\ items[i].end = Offset(text, f)
      BY <1>3, <3>1
    <3>0. LongestFrom(text, p) \in Int
      BY <1>3, <3>1
    <3> HIDE DEF f
    <3>3. f \in 1 .. Len(text) + 1 /\ f \in Int /\ p \in Int
      BY <3>2
    <3>4. Offset(text, p) \in Nat /\ Offset(text, f) \in Nat
      BY <1>4, <3>2, <3>3
    <3>5. p =< c
      <4>1. ~(c + 1 =< p)
        <5> SUFFICES ASSUME c + 1 =< p
                     PROVE  FALSE
          OBVIOUS
        <5>1. Offset(text, c + 1) =< Offset(text, p)
          BY <1>5, <2>1, <3>2
        <5> QED
          BY <2>2, <2>3, <2>5, <3>2, <3>4, <5>1
      <4> QED
        BY <2>1, <3>3, <4>1
    <3>6. c < f
      <4>1. ~(f =< c)
        <5> SUFFICES ASSUME f =< c
                     PROVE  FALSE
          OBVIOUS
        <5>1. Offset(text, f) =< Offset(text, c)
          BY <1>5, <2>1, <3>3
        <5> QED
          BY <2>2, <2>3, <2>5, <3>2, <3>4, <5>1
      <4> QED
        BY <2>1, <3>3, <4>1
    <3>7. c \in p .. p + LongestFrom(text, p) - 1
      BY <2>1, <3>0, <3>3, <3>5, <3>6 DEF f
    <3>8. text[p] \notin Skipped
      BY <3>1 DEF ItsPlace
    <3> QED
      BY <1>1, <3>2, <3>7, <3>8, SlicesAreNonBlank
  <2> QED
    BY <2>4, <2>5 DEF byte
<1> QED
  BY <1>6, <1>7, <1>8 DEF SpansCoverText

-----------------------------------------------------------------------------
(* The token stream: words.                                                *)

WordStarts == AsciiLetters \cup {"_"}
InWords == WordChars \cup {"."}

\* The characters of a piece of a text, one by one.
LEMMA PieceFacts ==
  ASSUME NEW A, NEW t \in Seq(A), NEW a \in 1 .. Len(t) + 1, NEW b \in a - 1 .. Len(t)
  PROVE  /\ SubSeq(t, a, b) \in Seq(A)
         /\ Len(SubSeq(t, a, b)) = b - a + 1
         /\ DOMAIN SubSeq(t, a, b) = 1 .. b - a + 1
         /\ \A i \in 1 .. b - a + 1 : SubSeq(t, a, b)[i] = t[a + i - 1]
<1>1. Len(t) \in Nat /\ a \in Int /\ b \in Int /\ (~(a =< b) => b - a + 1 = 0)
  OBVIOUS
<1>2. \A k \in a .. b : t[k] \in A
  <2>1. \A k \in a .. b : k \in 1 .. Len(t)
    BY <1>1
  <2> QED
    BY <2>1, ElementOfSeq
<1>3. /\ SubSeq(t, a, b) \in Seq(A)
      /\ Len(SubSeq(t, a, b)) = IF a =< b THEN b - a + 1 ELSE 0
      /\ \A i \in 1 .. b - a + 1 : SubSeq(t, a, b)[i] = t[a + i - 1]
  BY <1>1, <1>2, SubSeqProperties
<1> DEFINE u == SubSeq(t, a, b)
<1>4. u \in Seq(A) /\ Len(u) = b - a + 1 /\ DOMAIN u = 1 .. b - a + 1
  BY <1>1, <1>3
<1> QED
  BY <1>3, <1>4 DEF u

LEMMA PieceCharacters ==
  ASSUME NEW A, NEW t \in Seq(A), NEW a \in 1 .. Len(t) + 1, NEW b \in a - 1 .. Len(t)
  PROVE  \A c : c \in CharsOf(SubSeq(t, a, b)) <=> \E k \in a .. b : c = t[k]
<1>1. Len(t) \in Nat /\ a \in Int /\ b \in Int
  OBVIOUS
<1> DEFINE u == SubSeq(t, a, b)
<1>2. DOMAIN u = 1 .. b - a + 1 /\ \A i \in 1 .. b - a + 1 : u[i] = t[a + i - 1]
  BY PieceFacts
<1> HIDE DEF u
<1>3. ASSUME NEW c \in CharsOf(u)
      PROVE  \E k \in a .. b : c = t[k]
  <2>1. PICK i \in 1 .. b - a + 1 : c = u[i]
    BY <1>2 DEF CharsOf
  <2>2. a + i - 1 \in a .. b /\ c = t[a + i - 1]
    BY <1>1, <1>2, <2>1
  <2> QED
    BY <2>2
<1>4. ASSUME NEW k \in a .. b
      PROVE  t[k] \in CharsOf(u)
  <2>1. k - a + 1 \in 1 .. b - a + 1 /\ a + (k - a + 1) - 1 = k
    BY <1>1
  <2>2. k - a + 1 \in DOMAIN u /\ u[k - a + 1] = t[k]
    BY <1>2, <2>1
  <2> QED
    BY <2>2 DEF CharsOf
<1> QED
  BY <1>3, <1>4 DEF u

\* A slice of some kind, by which pattern has it first.
LEMMA KindCases ==
  ASSUME NEW s
  PROVE  KindOf(s) =
           IF \E k \in Symbols : s \in Punctuation[k] THEN CHOOSE k \in Symbols : s \in Punctuation[k]
           ELSE IF \E k \in Names : s \in FunctionNames[k] THEN CHOOSE k \in Names : s \in FunctionNames[k]
           ELSE IF s \in NotANumber \/ IsFloatNumber(s) THEN "Float"
           ELSE IF s \in BoolSpellings THEN "Bool"
           ELSE IF IsVariable(s) THEN "Variable"
           ELSE IF AllDigits(s) THEN "Integer"
           ELSE IF IsHexadecimal(s) THEN "Hexadecimal"
           ELSE "none"
  BY Zenon DEF KindOf

\* A variable's name is some token.
LEMMA VariablesAreTokens ==
  ASSUME NEW s, IsVariable(s)
  PROVE  KindOf(s) # "none"
<1> DEFINE Symbol == CHOOSE k \in Symbols : s \in Punctuation[k]
           Name == CHOOSE k \in Names : s \in FunctionNames[k]
<1>1. (\E k \in Symbols : s \in Punctuation[k]) => Symbol \in Symbols
  OBVIOUS
<1>2. (\E k \in Names : s \in FunctionNames[k]) => Name \in Names
  OBVIOUS
<1>3. "none" \notin Symbols
  BY DEF Symbols, Punctuation
<1>4. "none" \notin Names
  BY DEF Names, FunctionNames
<1>5. KindOf(s) =
        IF \E k \in Symbols : s \in Punctuation[k] THEN Symbol
        ELSE IF \E k \in Names : s \in FunctionNames[k] THEN Name
        ELSE IF s \in NotANumber \/ IsFloatNumber(s) THEN "Float"
        ELSE IF s \in BoolSpellings THEN "Bool"
        ELSE IF IsVariable(s) THEN "Variable"
        ELSE IF AllDigits(s) THEN "Integer"
        ELSE IF IsHexadecimal(s) THEN "Hexadecimal"
        ELSE "none"
  BY KindCases, Zenon
<1> HIDE DEF Symbol, Name
<1> QED
  BY <1>1, <1>2, <1>3, <1>4, <1>5

\* No letter is a digit, a point or in the spelling of an operator.
LEMMA LettersAreNoOther ==
  ASSUME NEW c \in WordStarts
  PROVE  c \notin Digits \cup {".", "[", "]"} /\ c \notin Signs
<1>1. c \notin Digits \cup {"."}
  BY DEF WordStarts, AsciiLetters, Digits
<1>2. c \notin {"(", ")", "=", "!", "/", "<", ">", "~", "+", "-", "*", "%", "&", "^"}
  BY DEF WordStarts, AsciiLetters
<1>3. c \notin {"|", ",", "[", "]"}
  BY DEF WordStarts, AsciiLetters
<1>4. c # DegreeSign
  BY DEF WordStarts, AsciiLetters, DegreeSign
<1> QED
  BY <1>1, <1>2, <1>3, <1>4 DEF Signs

\* So a word is no operator,
LEMMA WordsAreNoPunctuation ==
  ASSUME NEW s, s[1] \in WordStarts, NEW k \in Symbols
  PROVE  s \notin Punctuation[k]
<1>1. s[1] \notin Signs
  BY LettersAreNoOther
<1>2. \A u \in Spellings : u[1] \in Signs
  BY DEF Spellings
<1> QED
  BY <1>1, <1>2, PunctuationSpellings

\* and no number.
LEMMA WordsAreNoNumbers ==
  ASSUME NEW A, NEW s \in Seq(A), s # <<>>, s[1] \in WordStarts
  PROVE  ~IsFloatNumber(s) /\ ~AllDigits(s) /\ ~IsHexadecimal(s)
<1>1. Len(s) \in Nat /\ Len(s) >= 1 /\ DOMAIN s = 1 .. Len(s)
  OBVIOUS
<1>2. s[1] \notin Digits \cup {"."} /\ s[1] # "0"
  BY LettersAreNoOther DEF Digits
<1>3. ASSUME NEW n \in 1 .. Len(s)
      PROVE  s[1] \in CharsOf(SubSeq(s, 1, n)) /\ SubSeq(s, 1, n) \in Seq(A) /\ SubSeq(s, 1, n)[1] = s[1]
  <2>1. 1 \in 1 .. Len(s) + 1 /\ n \in 1 - 1 .. Len(s) /\ 1 \in 1 .. n - 1 + 1 /\ 1 + 1 - 1 = 1 /\ 1 \in 1 .. n
    BY <1>1
  <2> QED
    BY <2>1, PieceFacts, PieceCharacters
<1>4. ~AllDigits(s)
  BY <1>1, <1>2 DEF AllDigits, CharsOf
<1>5. ~IsHexadecimal(s)
  <2> SUFFICES ASSUME IsHexadecimal(s)
               PROVE  FALSE
    OBVIOUS
  <2>1. 2 \in 1 .. Len(s) /\ SubSeq(s, 1, 2) = <<"0", "x">>
    BY <1>1 DEF IsHexadecimal
  <2>2. <<"0", "x">>[1] = "0"
    OBVIOUS
  <2>3. SubSeq(s, 1, 2)[1] = "0"
    BY <2>1, <2>2, Zenon
  <2> QED
    BY <1>2, <1>3, <2>1, <2>3
<1>6. ASSUME NEW u \in Seq(A), u # <<>>, u[1] = s[1]
      PROVE  ~AllDigits(u) /\ ~IsDecimal(u)
  <2>1. Len(u) \in Nat /\ DOMAIN u = 1 .. Len(u) /\ 1 \in 1 .. Len(u)
    BY <1>6
  <2>2. ~AllDigits(u)
    BY <1>2, <1>6, <2>1 DEF AllDigits, CharsOf
  <2>3. ASSUME NEW i \in 1 .. Len(u), u[i] = ".",
               CharsOf(SubSeq(u, 1, i - 1) \o From(u, i + 1)) \subseteq Digits
        PROVE  FALSE
    <3>1. i # 1 /\ i \in Int
      BY <1>2, <1>6, <2>3
    <3> DEFINE l == SubSeq(u, 1, i - 1)
               r == From(u, i + 1)
    <3>2. 1 \in 1 .. Len(u) + 1 /\ i - 1 \in 1 - 1 .. Len(u) /\ i - 1 - 1 + 1 = i - 1 /\ i - 1 >= 1
      BY <2>1, <3>1
    <3>3. l \in Seq(A) /\ Len(l) = i - 1 /\ \A j \in 1 .. i - 1 : l[j] = u[1 + j - 1]
      BY <3>2, PieceFacts
    <3>4. r \in Seq(A)
      <4>1. i + 1 \in 1 .. Len(u) + 1 /\ Len(u) \in i + 1 - 1 .. Len(u)
        BY <2>1, <3>1
      <4> QED
        BY <4>1, PieceFacts DEF From
    <3>5. 1 \in 1 .. i - 1 /\ l[1] = u[1]
      BY <3>1, <3>2, <3>3
    <3> HIDE DEF l, r
    <3>6. /\ DOMAIN (l \o r) = 1 .. Len(l) + Len(r)
          /\ 1 \in 1 .. Len(l) + Len(r) /\ (l \o r)[1] = l[1]
      <4>1. /\ l \o r \in Seq(A) /\ Len(l \o r) = Len(l) + Len(r)
            /\ \A k \in 1 .. Len(l) + Len(r) :
                  (l \o r)[k] = IF k =< Len(l) THEN l[k] ELSE r[k - Len(l)]
        BY <3>3, <3>4, ConcatProperties
      <4>2. Len(l) \in Nat /\ Len(r) \in Nat /\ 1 =< Len(l) /\ 1 \in 1 .. Len(l) + Len(r)
        BY <3>1, <3>3, <3>4, <3>5
      <4>3. DOMAIN (l \o r) = 1 .. Len(l) + Len(r)
        BY <4>1
      <4> QED
        BY <4>1, <4>2, <4>3
    <3>7. u[1] \in CharsOf(l \o r)
      BY <3>5, <3>6 DEF CharsOf
    <3> QED
      BY <1>2, <1>6, <2>3, <3>7 DEF l, r
  <2> QED
    BY <2>2, <2>3 DEF IsDecimal
<1>7. ~IsDecimal(s)
  BY <1>6
<1>8. ASSUME NEW i \in 2 .. Len(s) - 1
      PROVE  ~(AllDigits(SubSeq(s, 1, i - 1)) \/ IsDecimal(SubSeq(s, 1, i - 1)))
  <2>1. i - 1 \in 1 .. Len(s)
    BY <1>1
  <2> DEFINE u == SubSeq(s, 1, i - 1)
  <2>2. u \in Seq(A) /\ u[1] = s[1] /\ s[1] \in CharsOf(u)
    BY <1>3, <2>1
  <2>3. u # <<>>
    BY <2>2 DEF CharsOf
  <2> HIDE DEF u
  <2>4. ~AllDigits(u) /\ ~IsDecimal(u)
    BY <1>6, <2>2, <2>3
  <2> QED
    BY <2>4 DEF u
<1> QED
  BY <1>4, <1>5, <1>7, <1>8 DEF IsFloatNumber

\* A reserved word has letters and digits only,
LEMMA ReservedIsWord ==
  ASSUME NEW s \in Reserved
  PROVE  CharsOf(s) \subseteq InWords
<1>1. {"a", "b", "c", "d", "e", "f", "g", "h", "i", "l", "m", "n", "o", "p", "r", "s",
       "t", "u", "w", "x", "T", "R", "U", "E", "F", "A", "L", "S", "N", "3", "2", "6", "4"}
          \subseteq InWords
  BY DEF InWords, WordChars, AsciiLetters, Digits
<1> DEFINE Cs == {"a", "b", "c", "d", "e", "f", "g", "h", "i", "l", "m", "n", "o", "p", "r", "s",
       "t", "u", "w", "x", "T", "R", "U", "E", "F", "A", "L", "S", "N", "3", "2", "6", "4"}
<1>2. \A k \in Names : \A u \in FunctionNames[k] : CharsOf(u) \subseteq Cs
  BY DEF Names, FunctionNames, CharsOf
<1>3. \A u \in NotANumber : CharsOf(u) \subseteq Cs
  BY DEF NotANumber, CharsOf
<1>4. \A u \in BoolSpellings : CharsOf(u) \subseteq Cs
  BY DEF BoolSpellings, CharsOf
<1> HIDE DEF Cs
<1>5. CharsOf(s) \subseteq Cs
  <2>1. (\E k \in Names : s \in FunctionNames[k]) \/ s \in NotANumber \/ s \in BoolSpellings
    BY Zenon DEF Reserved
  <2> QED
    BY <1>2, <1>3, <1>4, <2>1
<1> QED
  BY <1>1, <1>5 DEF Cs

\* and spells one thing.
LEMMA ReservedOnce ==
  /\ \A k \in Names, l \in Names : FunctionNames[k] \cap FunctionNames[l] # {} => k = l
  /\ \A k \in Names : FunctionNames[k] \cap (BoolSpellings \cup NotANumber) = {}
  /\ BoolSpellings \cap NotANumber = {}
<1>1. \A k \in Names, l \in Names : FunctionNames[k] \cap FunctionNames[l] # {} => k = l
  BY DEF Names, FunctionNames
<1>2. \A k \in Names : FunctionNames[k] \cap (BoolSpellings \cup NotANumber) = {}
  BY DEF Names, FunctionNames, BoolSpellings, NotANumber
<1>3. BoolSpellings \cap NotANumber = {}
  BY DEF BoolSpellings, NotANumber
<1> QED
  BY <1>1, <1>2, <1>3

\* A word is a token, whatever else it is, and has no other characters than a
\* name unless it ends in an index.
LEMMA WordsAreTokens ==
  ASSUME NEW A, NEW s \in Seq(A), s # <<>>, s[1] \in WordStarts, CharsOf(s) \subseteq InWords
  PROVE  KindOf(s) # "none"
<1>1. Len(s) \in 1 .. Len(s) /\ SubSeq(s, 1, Len(s)) = s
  BY SubSeqFull
<1>2. IsVariable(s)
  BY <1>1 DEF IsVariable, WordStarts, InWords
<1> QED
  BY <1>2, VariablesAreTokens

LEMMA WordCharacters ==
  ASSUME NEW A, NEW s \in Seq(A), s # <<>>, s[1] \in WordStarts,
         KindOf(s) # "none", s[Len(s)] # "]"
  PROVE  CharsOf(s) \subseteq InWords
<1>1. s \in Reserved \/ IsVariable(s)
  <2>1. \A k \in Symbols : s \notin Punctuation[k]
    BY WordsAreNoPunctuation
  <2>2. ~IsFloatNumber(s) /\ ~AllDigits(s) /\ ~IsHexadecimal(s)
    BY WordsAreNoNumbers
  <2>3. (\E k \in Names : s \in FunctionNames[k]) \/ s \in NotANumber \/ s \in BoolSpellings
           \/ IsVariable(s)
    BY <2>1, <2>2, KindCases
  <2> QED
    BY <2>3 DEF Reserved
<1>2. CASE s \in Reserved
  BY <1>2, ReservedIsWord
<1>3. CASE IsVariable(s)
  <2>1. PICK n \in 1 .. Len(s) : /\ CharsOf(SubSeq(s, 1, n)) \subseteq InWords
                                 /\ n = Len(s) \/ IsIndex(From(s, n + 1))
    BY <1>3 DEF IsVariable, InWords
  <2>2. ~IsIndex(From(s, n + 1))
    <3> SUFFICES ASSUME IsIndex(From(s, n + 1))
                 PROVE  FALSE
      OBVIOUS
    <3> DEFINE a == n + 1
               u == SubSeq(s, a, Len(s))
    <3>1. /\ a \in 1 .. Len(s) + 1 /\ Len(s) \in a - 1 .. Len(s) /\ a \in Int /\ Len(s) \in Nat
      OBVIOUS
    <3> HIDE DEF a
    <3>2. Len(u) = Len(s) - a + 1 /\ \A i \in 1 .. Len(s) - a + 1 : u[i] = s[a + i - 1]
      BY <3>1, PieceFacts
    <3>3. Len(u) > 2 /\ u[Len(u)] = "]"
      BY DEF IsIndex, From, a
    <3> HIDE DEF u
    <3>4. Len(u) \in 1 .. Len(s) - a + 1 /\ a + Len(u) - 1 = Len(s)
      BY <3>1, <3>2, <3>3
    <3>5. u[Len(u)] = s[Len(s)]
      BY <3>2, <3>4
    <3> QED
      BY <3>3, <3>5
  <2>3. n = Len(s) /\ SubSeq(s, 1, Len(s)) = s
    BY <2>1, <2>2, SubSeqFull
  <2> QED
    BY <2>1, <2>3
<1> QED
  BY <1>1, <1>2, <1>3

\* What the token of a word is.
LEMMA WordsMean ==
  ASSUME NEW A, NEW s \in Seq(A), s # <<>>, s[1] \in WordStarts, KindOf(s) # "none"
  PROVE  MeansWord(s, TokenOf(s))
<1>1. \A k \in Symbols : s \notin Punctuation[k]
  BY WordsAreNoPunctuation
<1>2. ~IsFloatNumber(s) /\ ~AllDigits(s) /\ ~IsHexadecimal(s)
  BY WordsAreNoNumbers
<1> DEFINE Name == CHOOSE k \in Names : s \in FunctionNames[k]
<1>3. KindOf(s) =
        IF \E k \in Names : s \in FunctionNames[k] THEN Name
        ELSE IF s \in NotANumber THEN "Float"
        ELSE IF s \in BoolSpellings THEN "Bool"
        ELSE IF IsVariable(s) THEN "Variable"
        ELSE "none"
  BY <1>1, <1>2, KindCases
<1> HIDE DEF Name
<1>4. ASSUME NEW k \in Names, s \in FunctionNames[k]
      PROVE  MeansWord(s, TokenOf(s))
  <2>1. Name \in Names /\ s \in FunctionNames[Name]
    BY <1>4 DEF Name
  <2>2. \A l \in Names : s \in FunctionNames[l] => l = Name
    BY <2>1, ReservedOnce
  <2>3. Name \notin {"Bool", "Integer", "Hexadecimal", "Float", "Variable", "none"}
    BY <2>1 DEF Names, FunctionNames
  <2>4. TokenOf(s) = Plain(Name)
    BY <1>3, <1>4, <2>3 DEF TokenOf
  <2>5. s \notin BoolSpellings /\ s \notin NotANumber /\ s \in Reserved
    BY <1>4, ReservedOnce DEF Reserved
  <2> QED
    BY <2>2, <2>4, <2>5 DEF MeansWord
<1>5. ASSUME \A k \in Names : s \notin FunctionNames[k], s \in NotANumber
      PROVE  MeansWord(s, TokenOf(s))
  <2>1. TokenOf(s) = Carrying("Float", ParseFloat(s))
    BY <1>3, <1>5 DEF TokenOf
  <2>2. "nan" \notin NumberClasses
    BY DEF NumberClasses
  <2>3. ParseFloat(s) = Err("InvalidFloat")
    BY <1>5, <2>2 DEF ParseFloat, ClassOf
  <2>4. TokenOf(s) = ErrorToken("InvalidFloat")
    BY <2>1, <2>3 DEF Carrying, Err
  <2>5. s \notin BoolSpellings /\ s \in Reserved
    BY <1>5, ReservedOnce DEF Reserved
  <2> QED
    BY <1>5, <2>4, <2>5 DEF MeansWord
<1>6. ASSUME \A k \in Names : s \notin FunctionNames[k], s \notin NotANumber, s \in BoolSpellings
      PROVE  MeansWord(s, TokenOf(s))
  <2>1. TokenOf(s) = Carrying("Bool", ParseBool(s))
    BY <1>3, <1>6 DEF TokenOf
  <2>2. TokenOf(s) \in {Literal("Bool", Bool(TRUE)), Literal("Bool", Bool(FALSE)), ErrorToken("InvalidBool")}
    <3>1. ParseBool(s) \in {Ok(Bool(TRUE)), Ok(Bool(FALSE)), Err("InvalidBool")}
      BY DEF ParseBool
    <3>2. \A v : Carrying("Bool", Ok(v)) = Literal("Bool", v)
      BY DEF Carrying, Ok
    <3>3. Carrying("Bool", Err("InvalidBool")) = ErrorToken("InvalidBool")
      BY DEF Carrying, Err
    <3> QED
      BY <2>1, <3>1, <3>2, <3>3, Zenon
  <2>3. s \in Reserved
    BY <1>6 DEF Reserved
  <2> QED
    BY <1>6, <2>2, <2>3 DEF MeansWord
<1>7. ASSUME \A k \in Names : s \notin FunctionNames[k], s \notin NotANumber, s \notin BoolSpellings
      PROVE  MeansWord(s, TokenOf(s))
  <2>1. TokenOf(s) = Named(s)
    BY <1>3, <1>7 DEF TokenOf
  <2> QED
    BY <1>7, <2>1 DEF MeansWord
<1> QED
  BY <1>4, <1>5, <1>6, <1>7

\* An item that touches the next ends where that starts.
LEMMA TouchingFacts ==
  ASSUME StreamInv, NEW i \in 1 .. Len(items), NEW p \in 1 .. pos, ItsPlace(i, p), Touching(i)
  PROVE  /\ i + 1 \in 1 .. Len(items)
         /\ p + LongestFrom(text, p) \in 1 .. pos
         /\ ItsPlace(i + 1, p + LongestFrom(text, p))
<1>1. text \in Seq(CharsOf(text)) /\ Len(text) \in Nat
  BY TextsAssumption DEF StreamInv
<1>2. Len(items) \in Nat /\ pos \in 0 .. Len(text) /\ i + 1 \in 1 .. Len(items)
  BY DEF StreamInv, Touching
<1>3. PICK r \in 1 .. pos : ItsPlace(i + 1, r)
  BY <1>2 DEF StreamInv
<1>4. p \in 1 .. Len(text) /\ r \in 1 .. Len(text) /\ r \in 1 .. Len(text) + 1 /\ p \in Int /\ r \in Int
  BY <1>2
<1> DEFINE L == LongestFrom(text, p)
<1>5. /\ p + L \in p + 1 .. Len(text) + 1
      /\ items[i].end = Offset(text, p + L)
      /\ items[i + 1].start = Offset(text, r)
  BY <1>1, <1>3, <1>4, ItemFacts DEF ItsPlace
<1>6. Offset(text, p + L) = Offset(text, r)
  BY <1>5 DEF Touching
<1>7. p + L \in 1 .. Len(text) + 1 /\ p + L \in Int
  BY <1>4, <1>5
<1> DEFINE q == p + L
<1> HIDE DEF L
<1>8. q \in 1 .. Len(text) + 1 /\ Offset(text, q) = Offset(text, r)
  BY <1>6, <1>7
<1> HIDE DEF q
<1>9. ~(r < q)
  <2> SUFFICES ASSUME r < q
               PROVE  FALSE
    OBVIOUS
  <2>1. q \in r .. Len(text) + 1
    BY <1>4, <1>8
  <2> QED
    BY <1>1, <1>4, <1>8, <2>1, OffsetsGrow
<1>10. ~(q < r)
  <2> SUFFICES ASSUME q < r
               PROVE  FALSE
    OBVIOUS
  <2>1. r \in q .. Len(text) + 1
    BY <1>4, <1>8
  <2> QED
    BY <1>1, <1>8, <2>1, OffsetsGrow
<1>11. r = q
  BY <1>4, <1>8, <1>9, <1>10
<1> QED
  BY <1>2, <1>3, <1>11 DEF q, L

\* The slice of an item, and its place.
LEMMA SliceFacts ==
  ASSUME NEW A, text \in Seq(A), NEW i, NEW q \in 1 .. Len(text), ItsPlace(i, q)
  PROVE  /\ LongestFrom(text, q) \in 1 .. Len(text) - q + 1
         /\ items[i].slice = SubSeq(text, q, q + LongestFrom(text, q) - 1)
<1>1. LongestFrom(text, q) \in 1 .. Len(text) - q + 1
  BY LongestFacts
<1>2. items[i].slice = SliceAt(text, q)
  BY DEF ItsPlace, ItemAt
<1> QED
  BY <1>1, <1>2 DEF SliceAt

\* It starts where the item does.
LEMMA FirstOfSlice ==
  ASSUME NEW A, text \in Seq(A), NEW i, NEW q \in 1 .. Len(text), ItsPlace(i, q)
  PROVE  items[i].slice[1] = text[q]
<1> DEFINE M == LongestFrom(text, q)
           b == q + M - 1
<1>1. M \in 1 .. Len(text) - q + 1 /\ items[i].slice = SubSeq(text, q, b)
  BY SliceFacts
<1> HIDE DEF M
<1>2. /\ b \in q - 1 .. Len(text) /\ q \in 1 .. Len(text) + 1
      /\ 1 \in 1 .. b - q + 1 /\ q + 1 - 1 = q
  BY <1>1
<1> HIDE DEF b
<1>3. SubSeq(text, q, b)[1] = text[q]
  BY <1>2, PieceFacts
<1> QED
  BY <1>1, <1>3

\* Three items that touch and spell an index are one in the text.
LEMMA IndexPlaces ==
  ASSUME StreamInv, NEW i \in 1 .. Len(items), NEW q \in 1 .. pos, ItsPlace(i, q),
         Touching(i), Touching(i + 1),
         items[i].slice = <<"[">>, AllDigits(items[i + 1].slice), items[i + 1 + 1].slice[1] = "]"
  PROVE  \E b \in q + 2 .. Len(text) :
            /\ text[q] = "[" /\ text[b] = "]"
            /\ \A k \in q + 1 .. b - 1 : text[k] \in Digits
<1>1. text \in Seq(CharsOf(text)) /\ Len(text) \in Nat
  BY TextsAssumption DEF StreamInv
<1>2. Len(items) \in Nat /\ pos \in 0 .. Len(text) /\ q \in 1 .. Len(text) /\ q \in Int
  BY <1>1 DEF StreamInv
<1> DEFINE L == LongestFrom(text, q)
           r == q + L
           M == LongestFrom(text, r)
           b == r + M
<1>3. r \in 1 .. pos /\ ItsPlace(i + 1, r) /\ i + 1 \in 1 .. Len(items)
  BY TouchingFacts
<1>4. b \in 1 .. pos /\ ItsPlace(i + 1 + 1, b)
  <2> HIDE DEF r
  <2> QED
    BY <1>3, TouchingFacts
<1>5. r \in 1 .. Len(text) /\ b \in 1 .. Len(text)
  BY <1>2, <1>3, <1>4
<1>6. L \in 1 .. Len(text) - q + 1 /\ items[i].slice = SubSeq(text, q, q + L - 1)
  BY <1>1, <1>2, SliceFacts
<1>7. M \in 1 .. Len(text) - r + 1 /\ items[i + 1].slice = SubSeq(text, r, b - 1)
  <2> HIDE DEF r
  <2> QED
    BY <1>1, <1>3, <1>5, SliceFacts
<1>8. text[q] = "[" /\ text[b] = "]"
  <2>1. text[q] = items[i].slice[1]
    BY <1>1, <1>2, FirstOfSlice
  <2>2. <<"[">>[1] = "["
    OBVIOUS
  <2>3. text[b] = items[i + 1 + 1].slice[1]
    <3> HIDE DEF b
    <3> QED
      BY <1>1, <1>4, <1>5, FirstOfSlice
  <2> QED
    BY <2>1, <2>2, <2>3, Zenon
<1> HIDE DEF L, M
<1>9. L = 1
  <2> DEFINE z == q + L - 1
  <2>1. q \in 1 .. Len(text) + 1 /\ z \in q - 1 .. Len(text) /\ z - q + 1 = L
    BY <1>1, <1>2, <1>6
  <2> HIDE DEF z
  <2>2. Len(SubSeq(text, q, z)) = z - q + 1
    BY <1>1, <2>1, PieceFacts
  <2>3. Len(<<"[">>) = 1
    OBVIOUS
  <2>4. Len(SubSeq(text, q, z)) = 1
    BY <1>6, <2>3 DEF z
  <2> QED
    BY <2>1, <2>2, <2>4
<1>10. r = q + 1 /\ b \in q + 2 .. Len(text) /\ b \in Int /\ r \in Int
  BY <1>1, <1>2, <1>5, <1>7, <1>9
<1> HIDE DEF r, b
<1>11. \A k \in q + 1 .. b - 1 : text[k] \in Digits
  <2>1. r \in 1 .. Len(text) + 1 /\ b - 1 \in r - 1 .. Len(text)
    BY <1>1, <1>5, <1>10
  <2> DEFINE z == b - 1
  <2>2. z \in r - 1 .. Len(text)
    BY <2>1
  <2> HIDE DEF z
  <2>3. \A c : c \in CharsOf(SubSeq(text, r, z)) <=> \E k \in r .. z : c = text[k]
    BY <1>1, <2>1, <2>2, PieceCharacters
  <2>4. CharsOf(SubSeq(text, r, z)) \subseteq Digits
    BY <1>7 DEF AllDigits, z
  <2> QED
    BY <1>10, <2>3, <2>4 DEF z
<1> QED
  BY <1>8, <1>10, <1>11

\* A word and an index make a variable's name.
LEMMA IndexedName ==
  ASSUME NEW A, NEW t \in Seq(A), NEW p \in 1 .. Len(t), NEW e \in p .. Len(t),
         NEW b \in e + 3 .. Len(t), t[p] \in WordStarts,
         \A k \in p .. e : t[k] \in InWords,
         t[e + 1] = "[", t[b] = "]", \A k \in e + 2 .. b - 1 : t[k] \in Digits
  PROVE  IsVariable(SubSeq(t, p, b))
<1>1. /\ Len(t) \in Nat /\ p \in Int /\ e \in Int /\ b \in Int
      /\ p \in 1 .. Len(t) + 1 /\ b \in p - 1 .. Len(t)
  OBVIOUS
<1> DEFINE u == SubSeq(t, p, b)
           m == b - p + 1
           n == e - p + 1
<1>2. /\ u \in Seq(A) /\ Len(u) = m /\ \A j \in 1 .. m : u[j] = t[p + j - 1]
  BY <1>1, PieceFacts
<1> HIDE DEF u
<1>3. /\ m \in Nat /\ n \in 1 .. m /\ n + 3 =< m /\ 1 \in 1 .. m /\ p + 1 - 1 = p
      /\ n + 1 \in 1 .. m + 1 /\ 1 \in 1 .. m + 1 /\ n \in 1 - 1 .. m /\ m \in n + 1 - 1 .. m
  BY <1>1
<1>4. CharsOf(SubSeq(u, 1, n)) \subseteq InWords
  <2>1. \A c : c \in CharsOf(SubSeq(u, 1, n)) <=> \E j \in 1 .. n : c = u[j]
    <3> HIDE DEF m, n
    <3> QED
      BY <1>2, <1>3, PieceCharacters
  <2>2. \A j \in 1 .. n : j \in 1 .. m /\ p + j - 1 \in p .. e
    BY <1>1
  <2>3. \A j \in 1 .. n : u[j] \in InWords
    BY <1>2, <2>2
  <2> QED
    BY <2>1, <2>3
<1> DEFINE x == SubSeq(u, n + 1, m)
<1>5. /\ x \in Seq(A) /\ Len(x) = m - (n + 1) + 1 /\ DOMAIN x = 1 .. m - (n + 1) + 1
      /\ \A j \in 1 .. m - (n + 1) + 1 : x[j] = u[n + 1 + j - 1]
  <2> HIDE DEF m, n
  <2>1. m = Len(u) /\ n + 1 \in 1 .. Len(u) + 1 /\ m \in n + 1 - 1 .. Len(u)
    BY <1>2, <1>3
  <2> DEFINE a == n + 1
  <2>2. a \in 1 .. Len(u) + 1 /\ m \in a - 1 .. Len(u)
    BY <2>1
  <2> HIDE DEF a
  <2>3. /\ SubSeq(u, a, m) \in Seq(A) /\ Len(SubSeq(u, a, m)) = m - a + 1
        /\ DOMAIN SubSeq(u, a, m) = 1 .. m - a + 1
        /\ \A j \in 1 .. m - a + 1 : SubSeq(u, a, m)[j] = u[a + j - 1]
    BY <1>2, <2>2, PieceFacts
  <2> QED
    BY <2>3 DEF a
<1> HIDE DEF x
<1>6. Len(x) = b - e /\ b - e >= 3
  BY <1>1, <1>5
<1>7. ASSUME NEW j \in 1 .. b - e
      PROVE  x[j] = t[e + j]
  <2>1. /\ j \in 1 .. m - (n + 1) + 1 /\ n + 1 + j - 1 \in 1 .. m
        /\ p + (n + 1 + j - 1) - 1 = e + j
    BY <1>1
  <2> QED
    BY <1>2, <1>5, <2>1
<1>8. x[1] = "[" /\ x[Len(x)] = "]"
  <2>1. 1 \in 1 .. b - e /\ b - e \in 1 .. b - e /\ e + (b - e) = b
    BY <1>1
  <2> QED
    BY <1>6, <1>7, <2>1
<1>9. AllDigits(SubSeq(x, 2, Len(x) - 1))
  <2> DEFINE z == Len(x) - 1
  <2>1. 2 \in 1 .. Len(x) + 1 /\ z \in 2 - 1 .. Len(x) /\ z = b - e - 1
    BY <1>1, <1>6
  <2> HIDE DEF z
  <2>2. /\ \A c : c \in CharsOf(SubSeq(x, 2, z)) <=> \E j \in 2 .. z : c = x[j]
        /\ Len(SubSeq(x, 2, z)) = z - 2 + 1
    <3>1. 2 \in Int /\ 2 \in 1 .. Len(x) + 1 /\ z \in 2 - 1 .. Len(x)
      BY <2>1
    <3>2. \A c : c \in CharsOf(SubSeq(x, 2, z)) <=> \E j \in 2 .. z : c = x[j]
      BY <1>5, <3>1, PieceCharacters
    <3>3. Len(SubSeq(x, 2, z)) = z - 2 + 1
      BY <1>5, <3>1, PieceFacts
    <3> QED
      BY <3>2, <3>3
  <2>3. \A j \in 2 .. z : j \in 1 .. b - e /\ e + j \in e + 2 .. b - 1
    BY <1>1, <2>1
  <2>4. CharsOf(SubSeq(x, 2, z)) \subseteq Digits
    BY <1>7, <2>2, <2>3
  <2>5. SubSeq(x, 2, z) # <<>>
    <3>1. Len(SubSeq(x, 2, z)) # 0
      BY <1>1, <1>6, <2>1, <2>2
    <3>2. Len(<<>>) = 0
      OBVIOUS
    <3> QED
      BY <3>1, <3>2, Zenon
  <2> QED
    BY <2>4, <2>5 DEF AllDigits, z
<1>10. IsIndex(x)
  BY <1>6, <1>8, <1>9 DEF IsIndex
<1>11. u # <<>> /\ u[1] \in WordStarts
  BY <1>2, <1>3
<1> QED
  <2>1. From(u, n + 1) = x
    BY <1>2 DEF From, x
  <2> HIDE DEF n
  <2>2. IsVariable(u)
    BY <1>2, <1>3, <1>4, <1>10, <1>11, <2>1 DEF IsVariable, InWords, WordStarts
  <2> QED
    BY <2>2 DEF u

\* WordsAreWhole: were the text to go on as a name does, a longer slice would
\* be a token.
LEMMA WordsFollow == StreamInv => WordsAreWhole
<1> SUFFICES ASSUME StreamInv
             PROVE  WordsAreWhole
  OBVIOUS
<1>1. text \in Seq(CharsOf(text)) /\ Len(text) \in Nat
  BY TextsAssumption DEF StreamInv
<1>2. Len(items) \in Nat /\ pos \in 0 .. Len(text) /\ DOMAIN items = 1 .. Len(items)
  BY DEF StreamInv
<1>3. ASSUME NEW i \in DOMAIN items, items[i].slice[1] \in WordStarts
      PROVE  /\ MeansWord(items[i].slice, items[i].token)
             /\ items[i].slice[Len(items[i].slice)] # "]" => ~GoesOn(i)
  <2>1. PICK p \in 1 .. pos : ItsPlace(i, p)
    BY <1>2 DEF StreamInv
  <2> DEFINE L == LongestFrom(text, p)
             e == p + L - 1
             s == SubSeq(text, p, e)
  <2>2. p \in 1 .. Len(text) /\ p \in 1 .. Len(text) + 1 /\ p \in Int
    BY <1>2
  <2>3. /\ L \in 1 .. Len(text) - p + 1 /\ L \in Slices(text, p) \cup {1}
        /\ \A n \in Slices(text, p) : n =< L
    BY <1>1, <2>2, LongestFacts
  <2>4. items[i].slice = s /\ items[i].token = TokenOf(s)
    BY <1>1, <2>1, <2>2, ItemFacts DEF ItsPlace, SliceAt
  <2> HIDE DEF L
  <2>5. L \in Int /\ e \in p .. Len(text) /\ e \in p - 1 .. Len(text) /\ e - p + 1 = L
    BY <1>1, <2>2, <2>3
  <2>6. /\ s \in Seq(CharsOf(text)) /\ Len(s) = L /\ DOMAIN s = 1 .. L
        /\ \A j \in 1 .. L : s[j] = text[p + j - 1]
        /\ \A c : c \in CharsOf(s) <=> \E k \in p .. e : c = text[k]
    <3> HIDE DEF e
    <3>1. /\ s \in Seq(CharsOf(text)) /\ Len(s) = e - p + 1 /\ DOMAIN s = 1 .. e - p + 1
          /\ \A j \in 1 .. e - p + 1 : s[j] = text[p + j - 1]
      BY <1>1, <2>2, <2>5, PieceFacts
    <3>2. \A c : c \in CharsOf(s) <=> \E k \in p .. e : c = text[k]
      BY <1>1, <2>2, <2>5, PieceCharacters
    <3> QED
      BY <2>5, <3>1, <3>2
  <2>7. s # <<>> /\ s[1] \in WordStarts /\ s[1] = text[p]
    <3>1. 1 \in 1 .. L /\ p + 1 - 1 = p
      BY <2>2, <2>3
    <3> HIDE DEF e, s
    <3> QED
      BY <1>3, <2>4, <2>6, <3>1
  <2>8. KindOf(s) # "none"
    <3>1. CASE L \in Slices(text, p)
      BY <3>1 DEF Slices
    <3>2. CASE L = 1
      <4>1. \A k \in p .. e : k = p
        BY <2>2, <2>5, <3>2
      <4>2. CharsOf(s) \subseteq InWords
        <5> HIDE DEF s, e
        <5> QED
          BY <2>6, <2>7, <4>1 DEF InWords, WordStarts, WordChars
      <4> HIDE DEF s, e
      <4> QED
        BY <2>6, <2>7, <4>2, WordsAreTokens
    <3> QED
      BY <2>3, <3>1, <3>2
  <2>9. MeansWord(items[i].slice, items[i].token)
    <3> HIDE DEF s, e
    <3> QED
      BY <2>4, <2>6, <2>7, <2>8, WordsMean
  <2>10. ASSUME s[Len(s)] # "]", GoesOn(i)
         PROVE  FALSE
    <3> DEFINE q == p + L
    <3>1. q \in 1 .. pos /\ q = e + 1 /\ q \in Int /\ ItsPlace(i + 1, q) /\ i + 1 \in 1 .. Len(items)
      <4>1. i \in 1 .. Len(items) /\ Touching(i)
        BY <1>2, <2>10 DEF GoesOn
      <4>2. p + LongestFrom(text, p) \in 1 .. pos /\ ItsPlace(i + 1, p + LongestFrom(text, p))
            /\ i + 1 \in 1 .. Len(items)
        BY <2>1, <4>1, TouchingFacts
      <4> QED
        BY <2>2, <2>5, <4>2 DEF L
    <3>2. \A k \in p .. e : text[k] \in InWords
      <4>1. CharsOf(s) \subseteq InWords
        <5> HIDE DEF s, e
        <5> QED
          BY <2>6, <2>7, <2>8, <2>10, WordCharacters
      <4> HIDE DEF s, e
      <4> QED
        BY <2>6, <4>1
    \* No token starts with the word and is longer.
    <3>3. ASSUME NEW b \in q .. Len(text)
          PROVE  KindOf(SubSeq(text, p, b)) = "none"
      <4>1. b - p + 1 \in 1 .. Len(text) - p + 1 /\ ~(b - p + 1 =< L) /\ p + (b - p + 1) - 1 = b
        BY <1>1, <2>2, <2>5, <3>1
      <4>2. b - p + 1 \notin Slices(text, p)
        BY <2>3, <4>1
      <4> QED
        BY <4>1, <4>2 DEF Slices
    <3> HIDE DEF s, e, q
    <3>4. q \in 1 .. Len(text) /\ q \in q .. Len(text)
      BY <1>2, <3>1
    <3>5. items[i + 1].slice[1] = text[q]
      BY <1>1, <3>1, <3>4, FirstOfSlice
    <3>6. CASE items[i + 1].slice[1] \in InWords
      <4>1. \A k \in p .. q : text[k] \in InWords
        <5>1. \A k \in p .. q : k \in p .. e \/ k = q
          BY <2>2, <2>5, <3>1
        <5> QED
          BY <3>2, <3>5, <3>6, <5>1
      <4>2. q \in p - 1 .. Len(text) /\ p \in p .. q /\ 1 \in 1 .. q - p + 1 /\ p + 1 - 1 = p
        BY <2>2, <2>5, <3>1, <3>4
      <4> DEFINE u == SubSeq(text, p, q)
      <4>3. /\ u \in Seq(CharsOf(text)) /\ u[1] = text[p] /\ Len(u) = q - p + 1
            /\ \A c : c \in CharsOf(u) <=> \E k \in p .. q : c = text[k]
        <5>1. u \in Seq(CharsOf(text)) /\ u[1] = text[p] /\ Len(u) = q - p + 1
          BY <1>1, <2>2, <4>2, PieceFacts
        <5>2. \A c : c \in CharsOf(u) <=> \E k \in p .. q : c = text[k]
          BY <1>1, <2>2, <4>2, PieceCharacters
        <5> QED
          BY <5>1, <5>2
      <4>4. u # <<>> /\ CharsOf(u) \subseteq InWords
        BY <4>1, <4>2, <4>3
      <4> HIDE DEF u
      <4>5. KindOf(u) # "none"
        BY <2>7, <4>3, <4>4, WordsAreTokens
      <4> QED
        BY <3>3, <3>4, <4>5 DEF u
    <3>7. CASE /\ Touching(i + 1) /\ Touching(i + 1 + 1)
               /\ items[i + 1].slice = <<"[">>
               /\ AllDigits(items[i + 1 + 1].slice)
               /\ items[i + 1 + 1 + 1].slice[1] = "]"
      <4>1. PICK b \in q + 2 .. Len(text) :
                   /\ text[q] = "[" /\ text[b] = "]"
                   /\ \A k \in q + 1 .. b - 1 : text[k] \in Digits
        BY <3>1, <3>7, IndexPlaces
      <4>2. b \in q .. Len(text) /\ b \in Int /\ b \in p - 1 .. Len(text)
        BY <1>1, <2>2, <2>5, <3>1, <4>1
      <4>3. IsVariable(SubSeq(text, p, b))
        BY <1>1, <2>2, <2>5, <2>7, <3>1, <3>2, <4>1, <4>2, IndexedName
      <4> QED
        BY <3>3, <4>2, <4>3, VariablesAreTokens
    <3> QED
      <4>1. i + 2 = i + 1 + 1 /\ i + 3 = i + 1 + 1 + 1
        BY <1>2
      <4> QED
        BY <2>10, <3>6, <3>7, <4>1 DEF GoesOn, InWords
  <2> QED
    BY <2>4, <2>9, <2>10
<1> QED
  BY <1>3 DEF WordsAreWhole, WordStarts

-----------------------------------------------------------------------------
(* The token stream: literals.                                             *)

\* A decimal digit is worth less than 10, a hexadecimal one less than 16.
LEMMA DigitFacts ==
  /\ \A c \in Digits : DigitOf(c) \in 0 .. 9
  /\ \A c \in HexDigits : DigitOf(c) \in 0 .. 15
<1> DEFINE Spells(c, d) == c \in {LowerHexDigits[d + 1], UpperHexDigits[d + 1]}
<1>1. \A c, d : Spells(c, d) <=> c = LowerHexDigits[d + 1] \/ c = UpperHexDigits[d + 1]
  OBVIOUS
<1>2. ASSUME NEW c \in HexDigits
      PROVE  \E d \in 0 .. 15 : Spells(c, d)
  <2>1. /\ Spells("0", 0) /\ Spells("1", 1) /\ Spells("2", 2) /\ Spells("3", 3)
        /\ Spells("4", 4) /\ Spells("5", 5) /\ Spells("6", 6) /\ Spells("7", 7)
        /\ Spells("8", 8) /\ Spells("9", 9)
    BY DEF LowerHexDigits
  <2>2. /\ Spells("a", 10) /\ Spells("b", 11) /\ Spells("c", 12) /\ Spells("d", 13)
        /\ Spells("e", 14) /\ Spells("f", 15)
    BY DEF LowerHexDigits
  <2>3. /\ Spells("A", 10) /\ Spells("B", 11) /\ Spells("C", 12) /\ Spells("D", 13)
        /\ Spells("E", 14) /\ Spells("F", 15)
    BY DEF UpperHexDigits
  <2> HIDE DEF Spells
  <2>4. \A d \in {0, 1, 2, 3, 4, 5, 6, 7, 8, 9, 10, 11, 12, 13, 14, 15} : d \in 0 .. 15
    OBVIOUS
  <2> QED
    BY <2>1, <2>2, <2>3, <2>4 DEF HexDigits, Digits
<1>3. ASSUME NEW c \in HexDigits
      PROVE  DigitOf(c) \in 0 .. 15 /\ Spells(c, DigitOf(c))
  BY <1>2 DEF DigitOf
<1>4. ASSUME NEW c \in Digits
      PROVE  DigitOf(c) \in 0 .. 9
  <2>1. DigitOf(c) \in 0 .. 15 /\ Spells(c, DigitOf(c))
    BY <1>3 DEF HexDigits
  <2>2. \A d \in {11, 12, 13, 14, 15, 16} : LowerHexDigits[d] \notin Digits /\ UpperHexDigits[d] \notin Digits
    <3>1. /\ LowerHexDigits[11] = "a" /\ LowerHexDigits[12] = "b" /\ LowerHexDigits[13] = "c"
          /\ LowerHexDigits[14] = "d" /\ LowerHexDigits[15] = "e" /\ LowerHexDigits[16] = "f"
      BY DEF LowerHexDigits
    <3>2. /\ UpperHexDigits[11] = "A" /\ UpperHexDigits[12] = "B" /\ UpperHexDigits[13] = "C"
          /\ UpperHexDigits[14] = "D" /\ UpperHexDigits[15] = "E" /\ UpperHexDigits[16] = "F"
      BY DEF UpperHexDigits
    <3>3. \A l \in {"a", "b", "c", "d", "e", "f", "A", "B", "C", "D", "E", "F"} : l \notin Digits
      BY DEF Digits
    <3> QED
      BY <3>1, <3>2, <3>3
  <2>3. \A d \in 10 .. 15 : d + 1 \in {11, 12, 13, 14, 15, 16}
    OBVIOUS
  <2>4. DigitOf(c) \notin 10 .. 15
    BY <1>1, <2>1, <2>2, <2>3
  <2> QED
    BY <2>1, <2>4
<1> QED
  BY <1>3, <1>4

\* Digits spell a number: ten times, or sixteen times, what those before the
\* last spell, and the last.
LEMMA SpelledFacts ==
  ASSUME NEW A, NEW s \in Seq(A), NEW base \in Nat, \A i \in 1 .. Len(s) : DigitOf(s[i]) \in Nat
  PROVE  /\ Spelled(s, base) \in Nat
         /\ s # <<>> => \E v \in Nat : Spelled(s, base) = v * base + DigitOf(s[Len(s)])
<1> DEFINE n == Len(s)
           Def(f) == [k \in 0 .. n |-> IF k = 0 THEN 0 ELSE f[k - 1] * base + DigitOf(s[k])]
           upto == CHOOSE f : f = Def(f)
           step == [k \in Nat |-> [v \in Nat |-> IF k \in 1 .. n THEN v * base + DigitOf(s[k]) ELSE 0]]
<1>1. n \in Nat
  OBVIOUS
<1>2. step \in [Nat -> [Nat -> Nat]]
  <2>1. \A k \in Nat : \A v \in Nat :
           (IF k \in 1 .. n THEN v * base + DigitOf(s[k]) ELSE 0) \in Nat
    OBVIOUS
  <2> QED
    BY <2>1
<1>3. \E f : f = Def(f)
  <2>1. PICK f : Iterates(f, Nat, 0, step, n)
    BY <1>1, <1>2, IteratesExist
  <2>2. f \in [0 .. n -> Nat] /\ f[0] = 0 /\ \A k \in 1 .. n : f[k] = step[k][f[k - 1]]
    BY <2>1 DEF Iterates
  <2>3. \A k \in 1 .. n : f[k] = f[k - 1] * base + DigitOf(s[k])
    <3> SUFFICES ASSUME NEW k \in 1 .. n
                 PROVE  f[k] = f[k - 1] * base + DigitOf(s[k])
      OBVIOUS
    <3>1. k \in Nat /\ k - 1 \in 0 .. n /\ f[k - 1] \in Nat
      BY <1>1, <2>2
    <3> QED
      BY <2>2, <3>1
  <2>4. \A k \in 0 .. n : k # 0 => k \in 1 .. n
    BY <1>1
  <2> QED
    BY <2>2, <2>3, <2>4
<1>4. upto = Def(upto)
  BY <1>3
<1>5. Spelled(s, base) = upto[n]
  BY DEF Spelled
<1> HIDE DEF upto, step
<1>6. upto[0] = 0 /\ \A k \in 1 .. n : upto[k] = upto[k - 1] * base + DigitOf(s[k])
  <2>1. \A k \in 0 .. n : upto[k] = IF k = 0 THEN 0 ELSE upto[k - 1] * base + DigitOf(s[k])
    BY <1>4
  <2>2. 0 \in 0 .. n /\ \A k \in 1 .. n : k \in 0 .. n /\ k # 0
    BY <1>1
  <2> QED
    BY <2>1, <2>2
<1>7. \A k \in 0 .. n : upto[k] \in Nat
  <2> DEFINE S == {k \in Nat : k =< n => upto[k] \in Nat}
  <2>1. 0 \in S
    BY <1>6
  <2>2. ASSUME NEW k \in S
        PROVE  k + 1 \in S
    <3> SUFFICES ASSUME k + 1 =< n
                 PROVE  upto[k + 1] \in Nat
      OBVIOUS
    <3>1. k + 1 \in 1 .. n /\ k + 1 - 1 = k /\ upto[k] \in Nat
      BY <1>1
    <3>2. upto[k + 1] = upto[k] * base + DigitOf(s[k + 1]) /\ DigitOf(s[k + 1]) \in Nat
      BY <1>6, <3>1
    <3> HIDE DEF S
    <3> QED
      BY <3>1, <3>2
  <2> HIDE DEF S
  <2>3. S = Nat
    <3>1. S \in SUBSET Nat
      BY DEF S
    <3> QED
      BY <2>1, <2>2, <3>1, SetInduction
  <2> QED
    BY <1>1, <2>3 DEF S
<1>8. s # <<>> => n \in 1 .. n /\ n - 1 \in 0 .. n
  OBVIOUS
<1>9. Spelled(s, base) \in Nat
  BY <1>1, <1>5, <1>7
<1> QED
  BY <1>5, <1>6, <1>7, <1>8, <1>9

\* The kind of a slice, and what made it one.
LEMMA KindFacts ==
  ASSUME NEW s
  PROVE  /\ KindOf(s) = "Integer" => AllDigits(s)
         /\ KindOf(s) = "Hexadecimal" => IsHexadecimal(s)
<1> DEFINE Symbol == CHOOSE k \in Symbols : s \in Punctuation[k]
           Name == CHOOSE k \in Names : s \in FunctionNames[k]
<1>1. (\E k \in Symbols : s \in Punctuation[k]) => Symbol \in Symbols
  OBVIOUS
<1>2. (\E k \in Names : s \in FunctionNames[k]) => Name \in Names
  OBVIOUS
<1>3. "Integer" \notin Symbols /\ "Hexadecimal" \notin Symbols
  BY DEF Symbols, Punctuation
<1>4. "Integer" \notin Names /\ "Hexadecimal" \notin Names
  BY DEF Names, FunctionNames
<1>5. KindOf(s) =
        IF \E k \in Symbols : s \in Punctuation[k] THEN Symbol
        ELSE IF \E k \in Names : s \in FunctionNames[k] THEN Name
        ELSE IF s \in NotANumber \/ IsFloatNumber(s) THEN "Float"
        ELSE IF s \in BoolSpellings THEN "Bool"
        ELSE IF IsVariable(s) THEN "Variable"
        ELSE IF AllDigits(s) THEN "Integer"
        ELSE IF IsHexadecimal(s) THEN "Hexadecimal"
        ELSE "none"
  BY Zenon DEF KindOf
<1> HIDE DEF Symbol, Name
<1> QED
  BY <1>1, <1>2, <1>3, <1>4, <1>5

\* A token of a literal's kind carries what the callback made of the slice.
LEMMA LiteralFacts ==
  ASSUME NEW s
  PROVE  /\ TokenOf(s).kind = "Integer" =>
               /\ KindOf(s) = "Integer"
               /\ Spelled(s, 10) \in Ints /\ TokenOf(s).value = Int64(Spelled(s, 10))
         /\ TokenOf(s).kind = "Hexadecimal" =>
               /\ KindOf(s) = "Hexadecimal"
               /\ Spelled(From(s, 3), 16) \in Ints
               /\ TokenOf(s).value = Int64(Spelled(From(s, 3), 16))
         /\ TokenOf(s).kind = "Float" =>
               ClassOf(s) \in NumberClasses /\ TokenOf(s).value = Float(ClassOf(s))
<1> DEFINE kind == KindOf(s)
<1>1. CASE kind = "Bool"
  <2>1. TokenOf(s) = Carrying("Bool", ParseBool(s))
    BY <1>1 DEF TokenOf
  <2>2. TokenOf(s).kind \in {"Bool", "Error"}
    BY <2>1 DEF Carrying, Literal, ErrorToken
  <2> QED
    BY <2>2
<1>2. CASE kind = "Integer"
  <2>1. TokenOf(s) = Carrying("Integer", ParseInteger(s))
    BY <1>2 DEF TokenOf
  <2>2. CASE Spelled(s, 10) \in Ints
    <3>1. TokenOf(s) = [kind |-> "Integer", value |-> Int64(Spelled(s, 10))]
      BY <2>1, <2>2 DEF Carrying, ParseInteger, Ok, Literal
    <3> QED
      BY <1>2, <2>2, <3>1
  <2>3. CASE Spelled(s, 10) \notin Ints
    <3>1. TokenOf(s) = [kind |-> "Error", error |-> "InvalidInteger"]
      BY <2>1, <2>3 DEF Carrying, ParseInteger, Err, ErrorToken
    <3> QED
      BY <3>1
  <2> QED
    BY <2>2, <2>3
<1>3. CASE kind = "Hexadecimal"
  <2> DEFINE v == Spelled(From(s, 3), 16)
  <2>1. TokenOf(s) = Carrying("Hexadecimal", ParseHex(s))
    BY <1>3 DEF TokenOf
  <2>2. ParseHex(s) = IF v \in Ints THEN Ok(Int64(v)) ELSE Err(NoneError)
    BY DEF ParseHex
  <2> HIDE DEF v
  <2>3. CASE v \in Ints
    <3>1. TokenOf(s) = [kind |-> "Hexadecimal", value |-> Int64(v)]
      BY <2>1, <2>2, <2>3 DEF Carrying, Ok, Literal
    <3> QED
      BY <1>3, <2>3, <3>1 DEF v
  <2>4. CASE v \notin Ints
    <3>1. TokenOf(s) = [kind |-> "Error", error |-> NoneError]
      BY <2>1, <2>2, <2>4 DEF Carrying, Err, ErrorToken
    <3> QED
      BY <3>1
  <2> QED
    BY <2>3, <2>4
<1>4. CASE kind = "Float"
  <2> DEFINE c == ClassOf(s)
  <2>1. TokenOf(s) = Carrying("Float", ParseFloat(s))
    BY <1>4 DEF TokenOf
  <2>2. ParseFloat(s) = IF c \in NumberClasses THEN Ok(Float(c)) ELSE Err("InvalidFloat")
    BY DEF ParseFloat
  <2> HIDE DEF c
  <2>3. CASE c \in NumberClasses
    <3>1. TokenOf(s) = [kind |-> "Float", value |-> Float(c)]
      BY <2>1, <2>2, <2>3 DEF Carrying, Ok, Literal
    <3> QED
      BY <2>3, <3>1 DEF c
  <2>4. CASE c \notin NumberClasses
    <3>1. TokenOf(s) = [kind |-> "Error", error |-> "InvalidFloat"]
      BY <2>1, <2>2, <2>4 DEF Carrying, Err, ErrorToken
    <3> QED
      BY <3>1
  <2> QED
    BY <2>3, <2>4
<1>5. CASE kind = "Variable"
  <2>1. TokenOf(s) = [kind |-> "Variable", name |-> s]
    BY <1>5 DEF TokenOf, Named
  <2> QED
    BY <2>1
<1>6. CASE kind = "none"
  <2>1. TokenOf(s) = [kind |-> "Error", error |-> "UnknownSymbol"]
    BY <1>6 DEF TokenOf, ErrorToken
  <2> QED
    BY <2>1
<1>7. CASE kind \notin {"Bool", "Integer", "Hexadecimal", "Float", "Variable", "none"}
  <2>1. TokenOf(s) = [kind |-> kind]
    BY <1>7 DEF TokenOf, Plain
  <2> QED
    BY <1>7, <2>1
<1> QED
  BY <1>1, <1>2, <1>3, <1>4, <1>5, <1>6, <1>7

\* LiteralsAreNumbers: no digit is negative and a class is never "neg".
LEMMA LiteralsFollow == StreamInv => LiteralsAreNumbers
<1> SUFFICES ASSUME StreamInv
             PROVE  LiteralsAreNumbers
  OBVIOUS
<1>1. text \in Seq(CharsOf(text)) /\ Len(text) \in Nat
  BY TextsAssumption DEF StreamInv
<1>2. DOMAIN items = 1 .. Len(items) /\ Len(items) \in Nat /\ pos \in 0 .. Len(text)
  BY DEF StreamInv
<1>3. ASSUME NEW i \in DOMAIN items, items[i].token.kind \in {"Integer", "Hexadecimal", "Float"}
      PROVE  LET v == items[i].token.value
                 digits == items[i].slice
             IN  /\ v \in Numbers \cup Integers64
                 /\ v.type = "float" => v.class # "neg"
                 /\ v.type = "integer" => v.int >= 0
                 /\ items[i].token.kind = "Integer" => v.int % 10 = DigitOf(digits[Len(digits)])
  <2>1. PICK p \in 1 .. pos : ItsPlace(i, p)
    BY <1>2 DEF StreamInv
  <2> DEFINE s == SliceAt(text, p)
             k == TokenOf(s).kind
             v == TokenOf(s).value
  <2>2. p \in 1 .. Len(text) /\ p \in 1 .. Len(text) + 1
        /\ p + LongestFrom(text, p) - 1 \in 0 .. Len(text)
    <3>1. p \in 1 .. Len(text) /\ p \in 1 .. Len(text) + 1
      BY <1>2
    <3>2. LongestFrom(text, p) \in 1 .. Len(text) - p + 1
      BY <1>1, <3>1, LongestFacts
    <3> QED
      BY <1>1, <3>1, <3>2
  <2>3. s \in Seq(CharsOf(text))
    BY <1>1, <2>2, PartFacts DEF SliceAt
  <2>4. items[i].token = TokenOf(s) /\ items[i].slice = s
    BY <1>1, <2>1, <2>2, ItemFacts DEF ItsPlace
  <2> HIDE DEF s, k, v
  <2>5. k \in {"Integer", "Hexadecimal", "Float"}
    BY <1>3, <2>4 DEF k
  <2>6. CASE k = "Integer"
    <3>1. /\ KindOf(s) = "Integer" /\ Spelled(s, 10) \in Ints /\ v = Int64(Spelled(s, 10))
      BY <2>6, LiteralFacts DEF k, v
    <3>2. s # <<>> /\ \A j \in 1 .. Len(s) : DigitOf(s[j]) \in 0 .. 9
      <4>1. AllDigits(s) /\ DOMAIN s = 1 .. Len(s)
        BY <2>3, <3>1, KindFacts
      <4> QED
        BY <4>1, DigitFacts DEF AllDigits, CharsOf
    <3>3. \A j \in 1 .. Len(s) : DigitOf(s[j]) \in Nat
      BY <3>2
    <3>4. Spelled(s, 10) \in Nat /\ \E w \in Nat : Spelled(s, 10) = w * 10 + DigitOf(s[Len(s)])
      BY <2>3, <3>2, <3>3, SpelledFacts
    <3>5. Spelled(s, 10) % 10 = DigitOf(s[Len(s)])
      <4>1. PICK w \in Nat : Spelled(s, 10) = w * 10 + DigitOf(s[Len(s)])
        BY <3>4
      <4>2. Len(s) \in 1 .. Len(s)
        BY <2>3, <3>2
      <4>3. DigitOf(s[Len(s)]) \in 0 .. 9
        BY <3>2, <4>2
      <4> QED
        BY <4>1, <4>3
    <3>6. v \in Integers64 /\ v.type = "integer" /\ v.int = Spelled(s, 10)
      BY <3>1 DEF Integers64, Int64
    <3> QED
      BY <2>4, <3>4, <3>5, <3>6 DEF v
  <2>7. CASE k = "Hexadecimal"
    <3> DEFINE r == From(s, 3)
    <3>1. KindOf(s) = "Hexadecimal" /\ Spelled(r, 16) \in Ints /\ v = Int64(Spelled(r, 16))
      BY <2>7, LiteralFacts DEF k, v
    <3>2. IsHexadecimal(s)
      BY <3>1, KindFacts
    <3>3. 3 \in 1 .. Len(s) + 1 /\ Len(s) \in 0 .. Len(s)
      BY <2>3, <3>2 DEF IsHexadecimal
    <3>4. r \in Seq(CharsOf(text)) /\ CharsOf(r) \subseteq HexDigits
      BY <2>3, <3>2, <3>3, PartFacts DEF From, IsHexadecimal
    <3> HIDE DEF r
    <3>5. \A j \in 1 .. Len(r) : DigitOf(r[j]) \in Nat
      <4>1. \A j \in 1 .. Len(r) : r[j] \in HexDigits
        BY <3>4 DEF CharsOf
      <4>2. \A j \in 1 .. Len(r) : DigitOf(r[j]) \in 0 .. 15
        BY <4>1, DigitFacts
      <4> QED
        BY <4>2
    <3>6. Spelled(r, 16) \in Nat
      BY <3>4, <3>5, SpelledFacts
    <3>7. v \in Integers64 /\ v.type = "integer" /\ v.int = Spelled(r, 16)
      BY <3>1 DEF Integers64, Int64
    <3>8. items[i].token.kind # "Integer"
      BY <2>4, <2>7 DEF k
    <3> QED
      BY <2>4, <3>6, <3>7, <3>8 DEF v
  <2>8. CASE k = "Float"
    <3>1. ClassOf(s) \in NumberClasses /\ v = Float(ClassOf(s))
      BY <2>8, LiteralFacts DEF k, v
    <3>2. ClassOf(s) # "neg"
      BY Zenon DEF ClassOf
    <3>3. v \in Numbers /\ v.type = "float" /\ v.class = ClassOf(s)
      BY <3>1 DEF Numbers, Float
    <3>4. items[i].token.kind # "Integer"
      BY <2>4, <2>8 DEF k
    <3> QED
      BY <2>4, <3>2, <3>3, <3>4 DEF v
  <2> QED
    BY <2>5, <2>6, <2>7, <2>8
<1> QED
  BY <1>3 DEF LiteralsAreNumbers

-----------------------------------------------------------------------------
(* The token stream: spaces between the slices.                            *)

\* A text, a slice and a blank.
Block(u, s, blank) == u \o s \o <<blank>>

\* u begins with v.
Begins(u, v) == Len(v) \in 0 .. Len(u) /\ \A i \in 1 .. Len(v) : u[i] = v[i]

\* upto[k] is made of the first k slices, with a blank after each.
Blocks(upto, sl, n, A, blank) ==
    /\ upto \in [0 .. n -> Seq(A)] /\ upto[0] = <<>>
    /\ \A k \in 1 .. n : upto[k] = Block(upto[k - 1], sl[k], blank)

\* One more slice, and a blank.
LEMMA OneBlock ==
  ASSUME NEW A, NEW u \in Seq(A), NEW s \in Seq(A), NEW blank \in A
  PROVE  /\ Len(Block(u, s, blank)) = Len(u) + Len(s) + 1
         /\ \A i \in 1 .. Len(u) : Block(u, s, blank)[i] = u[i]
         /\ \A i \in 1 .. Len(s) : Block(u, s, blank)[Len(u) + i] = s[i]
         /\ Block(u, s, blank)[Len(u) + Len(s) + 1] = blank
<1> DEFINE v == u \o s
<1>1. /\ v \in Seq(A) /\ Len(v) = Len(u) + Len(s)
      /\ \A i \in 1 .. Len(u) + Len(s) : v[i] = IF i =< Len(u) THEN u[i] ELSE s[i - Len(u)]
  BY ConcatProperties
<1>2. Len(u) \in Nat /\ Len(s) \in Nat
  OBVIOUS
<1> HIDE DEF v
<1>3. v \o <<blank>> = Append(v, blank)
  BY <1>1, AppendIsConcat
<1>4. /\ Len(Append(v, blank)) = Len(v) + 1 /\ Append(v, blank)[Len(v) + 1] = blank
      /\ \A i \in 1 .. Len(v) : Append(v, blank)[i] = v[i]
  BY <1>1, AppendProperties
<1>5. \A i \in 1 .. Len(u) : i \in 1 .. Len(v) /\ v[i] = u[i]
  BY <1>1, <1>2
<1>6. \A i \in 1 .. Len(s) : Len(u) + i \in 1 .. Len(v) /\ v[Len(u) + i] = s[i]
  <2> SUFFICES ASSUME NEW i \in 1 .. Len(s)
               PROVE  Len(u) + i \in 1 .. Len(v) /\ v[Len(u) + i] = s[i]
    OBVIOUS
  <2>1. Len(u) + i \in 1 .. Len(u) + Len(s) /\ ~(Len(u) + i =< Len(u)) /\ Len(u) + i - Len(u) = i
    BY <1>2
  <2> QED
    BY <1>1, <2>1
<1>7. Block(u, s, blank) = Append(v, blank)
  BY <1>3 DEF v, Block
<1> QED
  BY <1>1, <1>4, <1>5, <1>6, <1>7

\* Such a text begins with each of those before it.
LEMMA BlocksGrow ==
  ASSUME NEW A, NEW n \in Nat, NEW sl \in [1 .. n -> Seq(A)], NEW blank \in A,
         NEW upto, Blocks(upto, sl, n, A, blank)
  PROVE  \A k \in 0 .. n : Begins(upto[n], upto[k])
<1> DEFINE S == {j \in Nat : \A k \in 0 .. n : k + j = n => Begins(upto[n], upto[k])}
<1>1. \A k \in 0 .. n : upto[k] \in Seq(A) /\ Len(upto[k]) \in Nat
  BY DEF Blocks
<1>2. 0 \in S
  <2>1. \A k \in 0 .. n : k + 0 = n => k = n
    OBVIOUS
  <2>2. Begins(upto[n], upto[n])
    BY <1>1 DEF Begins
  <2> QED
    BY <2>1, <2>2
<1>3. ASSUME NEW j \in Nat, j \in S
      PROVE  j + 1 \in S
  <2>1. ASSUME NEW k \in 0 .. n, k + (j + 1) = n
        PROVE  Begins(upto[n], upto[k])
    <3>1. k + 1 \in 0 .. n /\ k + 1 \in 1 .. n /\ k + 1 + j = n /\ k + 1 - 1 = k
      BY <2>1
    <3>2. Begins(upto[n], upto[k + 1])
      BY <1>3, <3>1
    <3>3. upto[k + 1] = Block(upto[k], sl[k + 1], blank)
      BY <3>1 DEF Blocks
    <3>4. upto[k] \in Seq(A) /\ sl[k + 1] \in Seq(A) /\ Len(upto[k]) \in Nat /\ Len(sl[k + 1]) \in Nat
      BY <1>1, <3>1
    <3> HIDE DEF S
    <3> DEFINE u == upto[k]
               w == sl[k + 1]
               v == upto[k + 1]
    <3>5. v = Block(u, w, blank) /\ u \in Seq(A) /\ w \in Seq(A)
      BY <3>3, <3>4
    <3>6. Len(upto[n]) \in Nat /\ Begins(upto[n], v)
      BY <1>1, <3>2
    <3> HIDE DEF u, w, v
    <3>7. /\ Len(Block(u, w, blank)) = Len(u) + Len(w) + 1
          /\ \A i \in 1 .. Len(u) : Block(u, w, blank)[i] = u[i]
      BY <3>5, OneBlock
    <3>8. Len(u) \in Nat /\ Len(w) \in Nat
      BY <3>5
    <3>9. Begins(upto[n], u)
      BY <3>5, <3>6, <3>7, <3>8 DEF Begins
    <3> QED
      BY <3>9 DEF u
  <2> QED
    BY <2>1
<1> HIDE DEF S
<1>4. S = Nat
  <2>1. S \in SUBSET Nat
    BY DEF S
  <2> QED
    BY <1>2, <1>3, <2>1, SetInduction
<1>5. ASSUME NEW k \in 0 .. n
      PROVE  Begins(upto[n], upto[k])
  <2>1. n - k \in S /\ k + (n - k) = n
    BY <1>4
  <2> QED
    BY <2>1 DEF S
<1> QED
  BY <1>5

\* Where slice k stands in it.
Stands(upto, sl, n, k, blank) ==
    /\ Len(upto[k - 1]) \in Nat /\ Len(sl[k]) \in Nat
    /\ Len(upto[k]) = Len(upto[k - 1]) + Len(sl[k]) + 1
    /\ Len(upto[k]) =< Len(upto[n]) /\ Len(upto[n]) \in Nat
    /\ \A i \in 1 .. Len(sl[k]) : upto[n][Len(upto[k - 1]) + i] = sl[k][i]
    /\ upto[n][Len(upto[k])] = blank

\* What a text of slices with blanks after them is, place by place.
LEMMA BlockFacts ==
  ASSUME NEW A, NEW n \in Nat, NEW sl \in [1 .. n -> Seq(A)], NEW blank \in A,
         NEW upto, Blocks(upto, sl, n, A, blank), NEW k \in 1 .. n
  PROVE  Stands(upto, sl, n, k, blank)
<1>1. k - 1 \in 0 .. n /\ k \in 0 .. n /\ n \in 0 .. n
  OBVIOUS
<1> DEFINE e == Len(upto[k - 1])
           L == Len(sl[k])
           u == upto[k - 1]
           w == sl[k]
<1>2. upto[k] = Block(u, w, blank)
  BY DEF Blocks
<1>3. u \in Seq(A) /\ w \in Seq(A) /\ upto[n] \in Seq(A)
  BY <1>1 DEF Blocks
<1>4. /\ Len(upto[k]) = e + L + 1
      /\ \A i \in 1 .. L : upto[k][e + i] = w[i]
      /\ upto[k][e + L + 1] = blank
  <2>1. e = Len(u) /\ L = Len(w)
    OBVIOUS
  <2> HIDE DEF e, L, u, w
  <2>2. /\ Len(Block(u, w, blank)) = Len(u) + Len(w) + 1
        /\ \A i \in 1 .. Len(w) : Block(u, w, blank)[Len(u) + i] = w[i]
        /\ Block(u, w, blank)[Len(u) + Len(w) + 1] = blank
    BY <1>3, OneBlock
  <2> QED
    BY <1>2, <2>1, <2>2
<1>5. /\ Len(upto[k]) \in 0 .. Len(upto[n])
      /\ \A i \in 1 .. Len(upto[k]) : upto[n][i] = upto[k][i]
  <2>1. Begins(upto[n], upto[k])
    BY <1>1, BlocksGrow
  <2> QED
    BY <2>1 DEF Begins
<1>6. e \in Nat /\ L \in Nat /\ Len(upto[n]) \in Nat
  BY <1>3
<1> HIDE DEF e, L, u, w
<1>7. e + L + 1 \in 1 .. Len(upto[k]) /\ \A i \in 1 .. L : e + i \in 1 .. Len(upto[k])
  BY <1>4, <1>6
<1>8. /\ e \in Nat /\ L \in Nat /\ Len(upto[k]) = e + L + 1
      /\ e + L + 1 =< Len(upto[n]) /\ Len(upto[n]) \in Nat
      /\ \A i \in 1 .. L : upto[n][e + i] = w[i]
      /\ upto[n][e + L + 1] = blank
  BY <1>4, <1>5, <1>6, <1>7
<1> QED
  BY <1>8 DEF e, L, w, Stands

\* A slice with a blank after it is the longest slice there too.
LEMMA SameSlice ==
  ASSUME NEW A, NEW s \in Seq(A), NEW p \in 1 .. Len(s), s[p] \notin Skipped,
         NEW t \in Seq(A), NEW q \in 1 .. Len(t), q + LongestFrom(s, p) =< Len(t),
         \A i \in 1 .. LongestFrom(s, p) : t[q + i - 1] = s[p + i - 1],
         t[q + LongestFrom(s, p)] \in Skipped
  PROVE  LongestFrom(t, q) = LongestFrom(s, p) /\ SliceAt(t, q) = SliceAt(s, p)
<1> DEFINE L == LongestFrom(s, p)
           M == LongestFrom(t, q)
<1>1. /\ L \in 1 .. Len(s) - p + 1 /\ L \in Slices(s, p) \cup {1}
      /\ Len(s) \in Nat /\ p \in Int /\ L \in Int
  BY LongestFacts
<1>2. /\ M \in 1 .. Len(t) - q + 1 /\ \A n \in Slices(t, q) : n =< M
      /\ Len(t) \in Nat /\ q \in Int /\ M \in Int
  BY LongestFacts
<1>3. t[q] \notin Skipped
  <2>1. 1 \in 1 .. L /\ q + 1 - 1 = q /\ p + 1 - 1 = p
    BY <1>1, <1>2
  <2> QED
    BY <2>1
<1> HIDE DEF L, M
<1>4. q + L =< Len(t) /\ t[q + L] \in Skipped /\ \A i \in 1 .. L : t[q + i - 1] = s[p + i - 1]
  BY DEF L
<1>5. M =< L
  <2> SUFFICES ASSUME ~(M =< L)
               PROVE  FALSE
    OBVIOUS
  <2>1. q + L \in q .. q + M - 1
    BY <1>1, <1>2
  <2> QED
    BY <1>3, <1>4, <2>1, SlicesAreNonBlank DEF M
<1>6. SubSeq(t, q, q + L - 1) = SubSeq(s, p, p + L - 1)
  <2> DEFINE b == q + L - 1
             d == p + L - 1
             x == SubSeq(t, q, b)
             y == SubSeq(s, p, d)
  <2>1. \A i \in q .. b : t[i] \in A
    <3>1. \A i \in q .. b : i \in 1 .. Len(t)
      BY <1>1, <1>2, <1>4
    <3> QED
      BY <3>1, ElementOfSeq
  <2>2. \A i \in p .. d : s[i] \in A
    <3>1. \A i \in p .. d : i \in 1 .. Len(s)
      BY <1>1
    <3> QED
      BY <3>1, ElementOfSeq
  <2>3. b \in Int /\ d \in Int /\ b - q + 1 = L /\ d - p + 1 = L /\ q =< b /\ p =< d
    BY <1>1, <1>2
  <2> HIDE DEF b, d
  <2>4. x \in Seq(A) /\ Len(x) = L /\ \A i \in 1 .. L : x[i] = t[q + i - 1]
    BY <1>2, <2>1, <2>3, SubSeqProperties
  <2>5. y \in Seq(A) /\ Len(y) = L /\ \A i \in 1 .. L : y[i] = s[p + i - 1]
    BY <1>1, <2>2, <2>3, SubSeqProperties
  <2> HIDE DEF x, y
  <2>6. \A i \in 1 .. L : x[i] = y[i]
    BY <1>4, <2>4, <2>5
  <2>7. x = y
    BY <2>4, <2>5, <2>6, SeqEqual
  <2> QED
    BY <2>7 DEF x, y, b, d
<1>7. L =< M
  <2>1. L = 1 => L =< M
    BY <1>2
  <2>2. L \in Slices(s, p) => L \in Slices(t, q)
    <3>1. L \in 1 .. Len(t) - q + 1
      BY <1>1, <1>2, <1>4
    <3> QED
      BY <1>6, <3>1 DEF Slices
  <2> QED
    BY <1>1, <1>2, <2>1, <2>2
<1>8. M = L
  BY <1>1, <1>2, <1>5, <1>7
<1> QED
  BY <1>6, <1>8 DEF SliceAt, L, M

\* What the recursion in TokensOf makes of place p.
TokensStep(t, from, p) ==
    LET q == SkipFrom(t, p)
    IN  IF q > Len(t) THEN <<>>
        ELSE <<TokenOf(SliceAt(t, q))>> \o from[q + LongestFrom(t, q)]

\* It goes towards the end of the text, so that there is such a function.
LEMMA TokensOfFacts ==
  ASSUME NEW A, NEW t \in Seq(A)
  PROVE  \E from : /\ TokensOf(t) = from[1]
                   /\ \A p \in 1 .. Len(t) + 1 : from[p] = TokensStep(t, from, p)
<1> DEFINE N == Len(t) + 1
           Def(f) == [p \in 1 .. Len(t) + 1 |->
                        LET q == SkipFrom(t, p)
                        IN  IF q > Len(t) THEN <<>>
                            ELSE <<TokenOf(SliceAt(t, q))>> \o f[q + LongestFrom(t, q)]]
           from == CHOOSE f : f = Def(f)
           Good(f, d) == /\ f = [p \in 1 .. N |-> f[p]]
                         /\ \A p \in 1 .. N : N - d =< p => f[p] = TokensStep(t, f, p)
           S == {d \in Nat : \E f : Good(f, d)}
<1>1. Len(t) \in Nat /\ N \in Nat
  OBVIOUS
<1>2. ASSUME NEW p \in 1 .. N, SkipFrom(t, p) =< Len(t)
      PROVE  SkipFrom(t, p) + LongestFrom(t, SkipFrom(t, p)) \in p + 1 .. N
  <2> DEFINE q == SkipFrom(t, p)
  <2>1. q \in p .. Len(t) + 1 /\ q =< Len(t)
    BY <1>2, SkipFacts
  <2> HIDE DEF q
  <2>2. q \in 1 .. Len(t) /\ q \in Int /\ p \in Int
    BY <1>1, <2>1
  <2>3. LongestFrom(t, q) \in 1 .. Len(t) - q + 1
    BY <2>2, LongestFacts
  <2>4. q + LongestFrom(t, q) \in p + 1 .. N
    BY <1>1, <2>1, <2>2, <2>3
  <2> QED
    BY <2>4 DEF q
<1>3. ASSUME NEW p \in 1 .. N
      PROVE  SkipFrom(t, p) =< Len(t) \/ SkipFrom(t, p) > Len(t)
  <2>1. SkipFrom(t, p) \in p .. Len(t) + 1
    BY SkipFacts
  <2> QED
    BY <1>1, <2>1
<1>4. ASSUME NEW f, NEW g, NEW p \in 1 .. N, \A r \in p + 1 .. N : f[r] = g[r]
      PROVE  TokensStep(t, f, p) = TokensStep(t, g, p)
  <2>1. CASE SkipFrom(t, p) =< Len(t)
    BY <1>2, <1>4, <2>1 DEF TokensStep
  <2>2. CASE SkipFrom(t, p) > Len(t)
    BY <2>2 DEF TokensStep
  <2> QED
    BY <1>3, <2>1, <2>2
<1>5. 0 \in S
  <2> DEFINE f == [p \in 1 .. N |-> <<>>]
  <2>1. SkipFrom(t, N) > Len(t)
    <3>1. SkipFrom(t, N) \in N .. Len(t) + 1
      BY <1>1, SkipFacts
    <3> QED
      BY <1>1, <3>1
  <2>2. TokensStep(t, f, N) = <<>>
    BY <2>1 DEF TokensStep
  <2>3. f[N] = <<>> /\ \A p \in 1 .. N : N - 0 =< p => p = N
    BY <1>1
  <2>4. f = [p \in 1 .. N |-> f[p]]
    OBVIOUS
  <2> HIDE DEF f
  <2>5. Good(f, 0)
    BY <2>2, <2>3, <2>4
  <2> QED
    BY <2>5
<1>6. ASSUME NEW d \in Nat, d \in S
      PROVE  d + 1 \in S
  <2>1. PICK f : Good(f, d)
    BY <1>6
  <2> DEFINE r == N - (d + 1)
             g == [p \in 1 .. N |-> IF p = r THEN TokensStep(t, f, r) ELSE f[p]]
  <2>2. g = [p \in 1 .. N |-> g[p]]
    OBVIOUS
  <2>3. \A p \in 1 .. N : g[p] = IF p = r THEN TokensStep(t, f, r) ELSE f[p]
    OBVIOUS
  <2>4. r \in Int /\ N \in Int /\ N - d = r + 1 /\ N - (d + 1) = r
    BY <1>1
  <2> HIDE DEF r, g, N
  <2>5. ASSUME NEW p \in 1 .. N, r =< p
        PROVE  g[p] = TokensStep(t, g, p)
    <3>1. \A x \in p + 1 .. N : x \in 1 .. N /\ x # r
      BY <2>4, <2>5
    <3>2. \A x \in p + 1 .. N : f[x] = g[x]
      BY <2>3, <3>1
    <3>3. TokensStep(t, f, p) = TokensStep(t, g, p)
      BY <1>4, <3>2
    <3>4. g[p] = TokensStep(t, f, p)
      <4>1. CASE p = r
        BY <2>3, <4>1
      <4>2. CASE p # r
        <5>1. N - d =< p
          BY <2>4, <2>5, <4>2
        <5> QED
          BY <2>1, <2>3, <4>2, <5>1
      <4> QED
        BY <4>1, <4>2
    <3> QED
      BY <3>3, <3>4
  <2>6. Good(g, d + 1)
    BY <2>2, <2>4, <2>5
  <2> HIDE DEF Good
  <2>7. \E h : Good(h, d + 1)
    BY <2>6
  <2> QED
    BY <2>7
<1> HIDE DEF S
<1>7. S = Nat
  <2>1. S \in SUBSET Nat
    BY DEF S
  <2> QED
    BY <1>5, <1>6, <2>1, SetInduction
<1>8. \E f : f = Def(f)
  <2>1. PICK f : Good(f, N)
    BY <1>1, <1>7 DEF S
  <2>2. \A p \in 1 .. N : N - N =< p
    BY <1>1
  <2>3. f = [p \in 1 .. N |-> TokensStep(t, f, p)]
    BY <2>1, <2>2
  <2>4. f = Def(f)
    BY <2>3 DEF TokensStep
  <2> QED
    BY <2>4
<1>9. from = Def(from)
  BY <1>8
<1>10. TokensOf(t) = from[1]
  BY DEF TokensOf
<1> HIDE DEF from
<1>11. \A p \in 1 .. Len(t) + 1 : from[p] = TokensStep(t, from, p)
  BY <1>9 DEF TokensStep
<1> QED
  BY <1>10, <1>11

\* There is such a sequence of texts.
LEMMA BlocksExist ==
  ASSUME NEW A, NEW n \in Nat, NEW sl \in [1 .. n -> Seq(A)], NEW blank \in A
  PROVE  \E upto : Blocks(upto, sl, n, A, blank)
<1> DEFINE step == [k \in Nat |-> [v \in Seq(A) |-> IF k \in 1 .. n THEN Block(v, sl[k], blank) ELSE v]]
<1>1. step \in [Nat -> [Seq(A) -> Seq(A)]]
  <2>1. ASSUME NEW k \in 1 .. n, NEW v \in Seq(A)
        PROVE  Block(v, sl[k], blank) \in Seq(A)
    <3>1. sl[k] \in Seq(A) /\ <<blank>> \in Seq(A)
      OBVIOUS
    <3>2. v \o sl[k] \in Seq(A)
      BY <3>1, ConcatProperties
    <3> QED
      BY <3>1, <3>2, ConcatProperties DEF Block
  <2> QED
    BY <2>1
<1>2. PICK f : Iterates(f, Seq(A), <<>>, step, n)
  <2>1. <<>> \in Seq(A)
    OBVIOUS
  <2> HIDE DEF step
  <2> QED
    BY <1>1, <2>1, IteratesExist
<1>3. f \in [0 .. n -> Seq(A)] /\ f[0] = <<>> /\ \A k \in 1 .. n : f[k] = step[k][f[k - 1]]
  BY <1>2 DEF Iterates
<1>4. ASSUME NEW k \in 1 .. n
      PROVE  f[k] = Block(f[k - 1], sl[k], blank)
  <2>1. k \in Nat /\ k - 1 \in 0 .. n /\ f[k - 1] \in Seq(A)
    BY <1>3
  <2> QED
    BY <1>3, <2>1
<1>5. Blocks(f, sl, n, A, blank)
  BY <1>3, <1>4 DEF Blocks
<1> QED
  BY <1>5

\* What Spaced puts after each slice.
Space == " "

\* Spaced is such a text of the items' slices.
LEMMA SpacedFacts ==
  ASSUME NEW A, Len(items) \in Nat, NEW sl \in [1 .. Len(items) -> Seq(A)],
         \A i \in 1 .. Len(items) : sl[i] = items[i].slice, Space \in A
  PROVE  \E upto : Blocks(upto, sl, Len(items), A, Space) /\ Spaced = upto[Len(items)]
<1> DEFINE n == Len(items)
           Def(f) == [k \in 0 .. Len(items) |->
                        IF k = 0 THEN <<>> ELSE f[k - 1] \o items[k].slice \o <<Space>>]
           upto == CHOOSE f : f = Def(f)
<1>1. PICK f : Blocks(f, sl, n, A, Space)
  BY BlocksExist
<1>2. ASSUME NEW k \in 1 .. n, NEW v
      PROVE  Block(v, sl[k], Space) = v \o items[k].slice \o <<Space>>
  BY DEF Block
<1>3. f \in [0 .. n -> Seq(A)] /\ f[0] = <<>>
      /\ \A k \in 1 .. n : f[k] = f[k - 1] \o items[k].slice \o <<Space>>
  BY <1>1, <1>2 DEF Blocks
<1>4. \A k \in 0 .. n : k # 0 => k \in 1 .. n
  OBVIOUS
<1>5. f = Def(f)
  <2>1. \A k \in 0 .. n : f[k] = IF k = 0 THEN <<>> ELSE f[k - 1] \o items[k].slice \o <<Space>>
    BY <1>3, <1>4
  <2>2. f = [k \in 0 .. n |-> f[k]]
    BY <1>3
  <2> QED
    BY <2>1, <2>2
<1>6. upto = Def(upto)
  BY <1>5
<1> HIDE DEF upto
<1>7. /\ upto = [k \in 0 .. n |-> upto[k]] /\ upto[0] = <<>>
      /\ \A k \in 1 .. n : upto[k] = upto[k - 1] \o items[k].slice \o <<Space>>
  <2>1. upto = [k \in 0 .. n |-> upto[k]]
    BY <1>6
  <2>2. \A k \in 0 .. n : upto[k] = IF k = 0 THEN <<>> ELSE upto[k - 1] \o items[k].slice \o <<Space>>
    BY <1>6
  <2>3. 0 \in 0 .. n /\ \A k \in 1 .. n : k \in 0 .. n /\ k # 0
    OBVIOUS
  <2> QED
    BY <2>1, <2>2, <2>3
<1>8. upto = f
  <2> DEFINE S == {k \in Nat : k =< n => upto[k] = f[k]}
  <2>1. 0 \in S
    BY <1>3, <1>7
  <2>2. ASSUME NEW k \in Nat, k \in S
        PROVE  k + 1 \in S
    <3> SUFFICES ASSUME k + 1 =< n
                 PROVE  upto[k + 1] = f[k + 1]
      OBVIOUS
    <3> DEFINE m == k + 1
    <3>1. m \in 1 .. n /\ m - 1 = k /\ upto[k] = f[k]
      BY <2>2
    <3> HIDE DEF S, m
    <3>2. upto[m] = upto[m - 1] \o items[m].slice \o <<Space>>
      BY <1>7, <3>1
    <3>3. f[m] = f[m - 1] \o items[m].slice \o <<Space>>
      BY <1>3, <3>1
    <3>4. upto[m] = f[m]
      BY <3>1, <3>2, <3>3
    <3> QED
      BY <3>4 DEF m
  <2> HIDE DEF S
  <2>3. S = Nat
    <3>1. S \in SUBSET Nat
      BY DEF S
    <3> QED
      BY <2>1, <2>2, <3>1, SetInduction
  <2>4. \A k \in 0 .. n : upto[k] = f[k]
    BY <2>3 DEF S
  <2>5. f = [k \in 0 .. n |-> f[k]]
    BY <1>3
  <2> QED
    BY <1>7, <2>4, <2>5
<1>9. Spaced = upto[n]
  BY Zenon DEF Spaced, upto, Space
<1> QED
  BY <1>1, <1>8, <1>9

\* SpacesBetweenTokensAreNeutral: with a blank after it each slice is still the
\* longest where it starts, so the tokens are read again one by one.
LEMMA SpacesFollow == StreamInv => SpacesBetweenTokensAreNeutral
<1> SUFFICES ASSUME StreamInv
             PROVE  TokensOf(Spaced) = Tokens
  BY DEF SpacesBetweenTokensAreNeutral
<1>1. text \in Seq(CharsOf(text)) /\ Len(text) \in Nat
  BY TextsAssumption DEF StreamInv
<1>2. DOMAIN items = 1 .. Len(items) /\ Len(items) \in Nat /\ pos \in 0 .. Len(text)
  BY DEF StreamInv
<1> DEFINE n == Len(items)
           A == CharsOf(text) \cup {Space}
           sl == [i \in 1 .. n |-> items[i].slice]
           T == {items[i].token : i \in 1 .. n}
<1>3. text \in Seq(A) /\ Space \in A /\ Space \in Skipped
  <2>1. CharsOf(text) \subseteq A
    OBVIOUS
  <2>2. \A i \in 1 .. Len(text) : text[i] \in A
    BY <1>1, <2>1, ElementOfSeq
  <2>3. text \in Seq(A)
    BY <1>1, <2>2
  <2>4. Space \in Skipped
    BY Zenon DEF Space, Skipped
  <2> QED
    BY <2>3, <2>4
<1>4. \A i \in 1 .. n : sl[i] = items[i].slice
  OBVIOUS
<1>0. n \in Nat
  BY <1>2
<1> HIDE DEF A, sl, n
<1>5. ASSUME NEW i \in 1 .. n
      PROVE  \E p \in 1 .. Len(text) :
                /\ text[p] \notin Skipped /\ sl[i] = SliceAt(text, p) /\ sl[i] \in Seq(A)
                /\ items[i].token = TokenOf(sl[i]) /\ Len(sl[i]) = LongestFrom(text, p)
                /\ \A j \in 1 .. Len(sl[i]) : sl[i][j] = text[p + j - 1]
  <2>1. PICK p \in 1 .. pos : ItsPlace(i, p)
    BY DEF StreamInv, n
  <2>2. p \in 1 .. Len(text) /\ p \in Int
    BY <1>2
  <2> DEFINE L == LongestFrom(text, p)
             b == p + L - 1
  <2>3. L \in 1 .. Len(text) - p + 1
    BY <1>1, <2>2, LongestFacts
  <2>4. /\ text[p] \notin Skipped /\ sl[i] = SliceAt(text, p)
        /\ items[i].token = TokenOf(sl[i])
    BY <1>1, <1>4, <2>1, <2>2, ItemFacts DEF ItsPlace
  <2>5. sl[i] = SubSeq(text, p, b)
    BY <2>4 DEF SliceAt
  <2>6. b \in Int /\ p =< b /\ b - p + 1 = L /\ \A k \in p .. b : k \in 1 .. Len(text)
    BY <1>1, <2>2, <2>3
  <2>7. \A k \in p .. b : text[k] \in A
    BY <1>3, <2>6, ElementOfSeq
  <2> HIDE DEF b
  <2>8. /\ SubSeq(text, p, b) \in Seq(A) /\ Len(SubSeq(text, p, b)) = L
        /\ \A j \in 1 .. L : SubSeq(text, p, b)[j] = text[p + j - 1]
    BY <2>2, <2>6, <2>7, SubSeqProperties
  <2> HIDE DEF L
  <2>9. sl[i] \in Seq(A) /\ Len(sl[i]) = L /\ \A j \in 1 .. Len(sl[i]) : sl[i][j] = text[p + j - 1]
    BY <2>5, <2>8
  <2> QED
    BY <2>2, <2>4, <2>9 DEF L
<1>6. sl \in [1 .. n -> Seq(A)]
  <2>1. \A i \in 1 .. n : sl[i] \in Seq(A)
    BY <1>5
  <2>2. sl = [i \in 1 .. n |-> sl[i]]
    BY DEF sl
  <2> QED
    BY <2>1, <2>2
<1>7. PICK upto : Blocks(upto, sl, n, A, Space) /\ Spaced = upto[n]
  BY <1>2, <1>3, <1>4, <1>6, SpacedFacts DEF n
<1> DEFINE t == upto[n]
           e(k) == Len(upto[k])
<1>8. /\ upto \in [0 .. n -> Seq(A)] /\ upto[0] = <<>> /\ t \in Seq(A) /\ Len(t) \in Nat
      /\ \A k \in 0 .. n : e(k) \in Nat
  BY <1>0, <1>7 DEF Blocks
<1>9. PICK from : /\ TokensOf(t) = from[1]
                  /\ \A p \in 1 .. Len(t) + 1 : from[p] = TokensStep(t, from, p)
  BY <1>8, TokensOfFacts
<1>10. ASSUME NEW k \in 1 .. n
       PROVE  /\ e(k - 1) \in Nat /\ Len(sl[k]) \in Nat /\ Len(sl[k]) >= 1
              /\ e(k) = e(k - 1) + Len(sl[k]) + 1 /\ e(k) =< Len(t)
              /\ t[e(k)] \in Skipped
              /\ t[e(k - 1) + 1] \notin Skipped
              /\ LongestFrom(t, e(k - 1) + 1) = Len(sl[k])
              /\ SliceAt(t, e(k - 1) + 1) = sl[k]
  <2>0. PICK d, L : d = Len(upto[k - 1]) /\ L = Len(sl[k])
    OBVIOUS
  <2>1. /\ d \in Nat /\ L \in Nat /\ e(k) = d + L + 1 /\ d + L + 1 =< Len(t)
        /\ \A i \in 1 .. L : t[d + i] = sl[k][i]
        /\ t[d + L + 1] = Space
    <3>1. Stands(upto, sl, n, k, Space)
      BY <1>0, <1>3, <1>6, <1>7, BlockFacts
    <3> QED
      BY <2>0, <3>1 DEF Stands
  <2>2. PICK p \in 1 .. Len(text) :
          /\ text[p] \notin Skipped /\ sl[k] = SliceAt(text, p)
          /\ Len(sl[k]) = LongestFrom(text, p)
          /\ \A j \in 1 .. Len(sl[k]) : sl[k][j] = text[p + j - 1]
    BY <1>5
  <2>3. L \in 1 .. Len(text) - p + 1 /\ L = LongestFrom(text, p) /\ p \in Int
    BY <1>1, <2>0, <2>2, LongestFacts
  <2>4. \A j \in 1 .. L : sl[k][j] = text[p + j - 1]
    BY <2>0, <2>2
  <2> DEFINE q == d + 1
             x == t
  <2>5. /\ q \in 1 .. Len(x) /\ q \in Int /\ q + L =< Len(x) /\ q + L = d + L + 1 /\ x \in Seq(A)
        /\ \A i \in 1 .. L : q + i - 1 = d + i
    BY <1>8, <2>1, <2>3
  <2>6. x[q + L] \in Skipped /\ \A i \in 1 .. L : x[q + i - 1] = text[p + i - 1]
    BY <1>3, <2>1, <2>4, <2>5
  <2> HIDE DEF q, x
  <2>7. LongestFrom(x, q) = L /\ SliceAt(x, q) = SliceAt(text, p)
    BY <1>3, <2>2, <2>3, <2>5, <2>6, SameSlice
  <2>8. x[q] \notin Skipped
    <3>1. 1 \in 1 .. L /\ q + 1 - 1 = q /\ p + 1 - 1 = p
      BY <1>1, <2>3, <2>5
    <3> QED
      BY <2>2, <2>6, <3>1
  <2>9. L >= 1
    BY <1>1, <2>3
  <2> QED
    BY <1>3, <2>0, <2>1, <2>2, <2>7, <2>8, <2>9 DEF q, x
<1> HIDE DEF t, e
<1> DEFINE start(k) == IF k = 0 THEN 1 ELSE e(k)
<1>11. e(0) = 0 /\ e(n) = Len(t)
  BY <1>8 DEF e, t
<1>12. ASSUME NEW k \in 0 .. n
       PROVE  SkipFrom(t, start(k)) = e(k) + 1 /\ start(k) \in 1 .. Len(t) + 1
  <2>1. k < n => e(k) + 1 =< Len(t) /\ t[e(k) + 1] \notin Skipped
    <3> SUFFICES ASSUME k < n
                 PROVE  e(k) + 1 =< Len(t) /\ t[e(k) + 1] \notin Skipped
      OBVIOUS
    <3>1. k + 1 \in 1 .. n /\ k + 1 - 1 = k
      BY <1>0
    <3> DEFINE m == k + 1
    <3>2. m \in 1 .. n /\ m - 1 = k
      BY <3>1
    <3> HIDE DEF m
    <3>3. /\ e(k) \in Nat /\ Len(sl[m]) \in Nat /\ e(m) = e(k) + Len(sl[m]) + 1 /\ e(m) =< Len(t)
          /\ t[e(k) + 1] \notin Skipped
      BY <1>10, <3>2
    <3> QED
      BY <1>8, <3>3
  <2>2. k = n => e(k) = Len(t)
    BY <1>11
  <2>3. e(k) \in Nat /\ (k < n \/ k = n) /\ e(k) =< Len(t)
    BY <1>0, <1>8, <2>1, <2>2
  <2>4. CASE k = 0
    <3>1. start(k) = 1 /\ e(k) + 1 = 1 /\ 1 \in 1 .. Len(t) + 1
      BY <1>8, <1>11, <2>4
    <3>2. /\ SkipFrom(t, 1) \in 1 .. Len(t) + 1
          /\ \A i \in 1 .. SkipFrom(t, 1) - 1 : t[i] \in Skipped
      BY <1>8, <3>1, SkipFacts
    <3>3. SkipFrom(t, 1) = 1
      <4>1. CASE k < n
        <5>1. t[1] \notin Skipped
          BY <2>1, <3>1, <4>1
        <5>2. ~(1 \in 1 .. SkipFrom(t, 1) - 1)
          BY <3>2, <5>1
        <5> QED
          BY <1>8, <3>2, <5>2
      <4>2. CASE k = n
        <5>1. Len(t) = 0
          BY <1>11, <2>4, <4>2
        <5> QED
          BY <3>2, <5>1
      <4> QED
        BY <2>3, <4>1, <4>2
    <3> QED
      BY <3>1, <3>3
  <2>5. CASE k # 0
    <3>1. k \in 1 .. n /\ start(k) = e(k)
      BY <1>0, <2>5
    <3>2. t[e(k)] \in Skipped /\ e(k) >= 1
      <4>1. /\ e(k - 1) \in Nat /\ Len(sl[k]) \in Nat /\ e(k) = e(k - 1) + Len(sl[k]) + 1
            /\ t[e(k)] \in Skipped
        BY <1>10, <3>1
      <4> QED
        BY <4>1
    <3>3. e(k) \in 1 .. Len(t) + 1 /\ e(k) \in Int
      BY <1>8, <2>3, <3>2
    <3> DEFINE q == SkipFrom(t, e(k))
    <3>4. /\ q \in e(k) .. Len(t) + 1
          /\ \A i \in e(k) .. q - 1 : t[i] \in Skipped
          /\ q =< Len(t) => t[q] \notin Skipped
      BY <1>8, <3>3, SkipFacts
    <3> HIDE DEF q
    <3>5. q # e(k)
      BY <2>3, <3>2, <3>4
    <3>6. ~(q > e(k) + 1)
      <4> SUFFICES ASSUME q > e(k) + 1
                   PROVE  FALSE
        OBVIOUS
      <4>1. e(k) + 1 \in e(k) .. q - 1
        BY <3>3, <3>4
      <4>2. t[e(k) + 1] \in Skipped
        BY <3>4, <4>1
      <4>3. k = n
        BY <2>1, <2>3, <4>2
      <4> QED
        BY <1>8, <2>2, <3>4, <4>3
    <3>7. q = e(k) + 1
      BY <3>3, <3>4, <3>5, <3>6
    <3> QED
      BY <3>1, <3>3, <3>7 DEF q
  <2> QED
    BY <2>4, <2>5
<1>13. Tokens \in Seq(T) /\ Len(Tokens) = n /\ \A i \in 1 .. n : Tokens[i] = items[i].token
  <2>1. Tokens = [i \in 1 .. n |-> items[i].token]
    BY <1>2 DEF Tokens, n
  <2> QED
    BY <1>0, <2>1
<1> DEFINE S == {j \in Nat : \A k \in 0 .. n : k + j = n => from[start(k)] = SubSeq(Tokens, k + 1, n)}
<1>14. 0 \in S
  <2>1. from[start(n)] = SubSeq(Tokens, n + 1, n)
    <3>1. n \in 0 .. n /\ SkipFrom(t, start(n)) = e(n) + 1 /\ start(n) \in 1 .. Len(t) + 1
      BY <1>0, <1>12
    <3>2. SkipFrom(t, start(n)) > Len(t)
      BY <1>8, <1>11, <3>1
    <3>3. from[start(n)] = <<>>
      BY <1>9, <3>1, <3>2 DEF TokensStep
    <3>4. SubSeq(Tokens, n + 1, n) = <<>>
      BY <1>0, SubSeqEmpty
    <3> QED
      BY <3>3, <3>4
  <2>2. \A k \in 0 .. n : k + 0 = n => k = n
    BY <1>0
  <2> QED
    BY <2>1, <2>2
<1>15. ASSUME NEW j \in Nat, j \in S
       PROVE  j + 1 \in S
  <2>1. ASSUME NEW k \in 0 .. n, k + (j + 1) = n
        PROVE  from[start(k)] = SubSeq(Tokens, k + 1, n)
    <3> DEFINE m == k + 1
    <3>1. m \in 1 .. n /\ m \in 0 .. n /\ m # 0 /\ m - 1 = k /\ m + j = n /\ k + 1 = m
      BY <1>0, <2>1
    <3>2. from[start(m)] = SubSeq(Tokens, m + 1, n)
      BY <1>15, <3>1
    <3> HIDE DEF m, S
    <3>3. /\ e(k) \in Nat /\ Len(sl[m]) \in Nat /\ Len(sl[m]) >= 1
          /\ e(m) = e(k) + Len(sl[m]) + 1 /\ e(m) =< Len(t)
          /\ LongestFrom(t, e(k) + 1) = Len(sl[m]) /\ SliceAt(t, e(k) + 1) = sl[m]
      BY <1>10, <3>1
    <3>4. SkipFrom(t, start(k)) = e(k) + 1 /\ start(k) \in 1 .. Len(t) + 1 /\ start(m) = e(m)
      BY <1>12, <3>1
    <3>5. ~(e(k) + 1 > Len(t)) /\ e(k) + 1 + Len(sl[m]) = e(m)
      <4>1. PICK a, b, c, d : a = e(k) /\ b = Len(sl[m]) /\ c = e(m) /\ d = Len(t)
        OBVIOUS
      <4>2. a \in Nat /\ b \in Nat /\ b >= 1 /\ c = a + b + 1 /\ c =< d /\ d \in Nat
        BY <1>8, <3>3, <4>1
      <4>3. ~(a + 1 > d) /\ a + 1 + b = c
        BY <4>2
      <4> QED
        BY <4>1, <4>3
    <3>6. from[start(k)] = <<TokenOf(sl[m])>> \o from[e(m)]
      <4>1. from[start(k)] = TokensStep(t, from, start(k))
        BY <1>9, <3>4
      <4> HIDE DEF start
      <4> QED
        BY <3>3, <3>4, <3>5, <4>1 DEF TokensStep
    <3>7. TokenOf(sl[m]) = Tokens[m]
      BY <1>5, <1>13, <3>1
    <3>8. SubSeq(Tokens, m, n) = <<Tokens[m]>> \o SubSeq(Tokens, m + 1, n)
      <4>1. m \in 1 .. Len(Tokens) /\ n \in m .. Len(Tokens)
        BY <1>0, <1>13, <3>1
      <4> QED
        BY <1>13, <4>1, SubSeqRecursiveFirst
    <3>9. from[e(m)] = SubSeq(Tokens, m + 1, n)
      BY <3>2, <3>4
    <3> QED
      BY <3>1, <3>6, <3>7, <3>8, <3>9
  <2> QED
    BY <2>1
<1> HIDE DEF S
<1>16. S = Nat
  <2>1. S \in SUBSET Nat
    BY DEF S
  <2> QED
    BY <1>14, <1>15, <2>1, SetInduction
<1>17. from[1] = SubSeq(Tokens, 1, n)
  <2>1. n \in S /\ 0 \in 0 .. n /\ 0 + n = n /\ 0 + 1 = 1 /\ start(0) = 1
    BY <1>0, <1>16
  <2> QED
    BY <2>1 DEF S
<1>18. SubSeq(Tokens, 1, n) = Tokens
  BY <1>13, SubSeqFull
<1> QED
  BY <1>7, <1>9, <1>17, <1>18 DEF t

-----------------------------------------------------------------------------
(* The theorems about the token stream.                                    *)

\* The invariant of the stream.
LEMMA StreamInvariance == Spec => []StreamInv
BY InitStreamInv, NextKeepsStream, PTL DEF Spec

\* On every text, spans are in order, none is empty, and together they cover
\* just the bytes that are not skipped, whatever their widths (Lexer::next).
THEOREM SpansCover == Spec => []SpansCoverText
BY StreamInvariance, SpansFollow, PTL

\* On every text, a word is taken whole, with its index, and means what it
\* spells: a reserved word is the function, boolean or refused float of that
\* spelling and never a variable, any other word is a name (the patterns of
\* Token and their priorities).
THEOREM WordsAreKept == Spec => []WordsAreWhole
BY StreamInvariance, WordsFollow, PTL

\* The tokens of a text are those of its slices apart (the patterns of Token:
\* none matches a blank).
THEOREM SpacesAreNeutral == Spec => []SpacesBetweenTokensAreNeutral
BY StreamInvariance, SpacesFollow, PTL

\* A literal's token carries a number evaluation may use, never a negative one,
\* and an integer ends in its last digit (the parse callbacks of Token).
THEOREM NumbersFromLiterals == Spec => []LiteralsAreNumbers
BY StreamInvariance, LiteralsFollow, PTL
=============================================================================
