---------------------------- MODULE Passes_proofs ---------------------------
(***************************************************************************)
(* The two passes agree, for every text, count and replacement, and        *)
(* whatever the searches find, as long as it is in the text and not before *)
(* where they began.                                                       *)
(*                                                                         *)
(* The passes run one after the other, so an invariant of the second must  *)
(* remember the first.  It says that there is a trace: where each round of *)
(* the first pass began, and what it measured.  The second pass is on that *)
(* trace, and has filled in what the trace says up to there.               *)
(***************************************************************************)
EXTENDS Passes, SequenceTheorems, TLAPS

Result == Seq(Nat)

Typed ==
  /\ call \in Calls
  /\ find = [from \in 0 .. Len(t) |-> Search(call, from)]
  /\ pc \in {"measure", "fill", "done", "astray"}
  /\ p \in 0 .. Len(t) /\ matches \in Nat /\ size \in Int
  /\ call.op = "split" => out \in Seq(Result)
  /\ call.op # "split" => out \in Result
  /\ pc = "measure" => out = << >>
  /\ pc = "fill" /\ call.branch = "literal" => call.arg # << >>

-----------------------------------------------------------------------------
(* Calls, matches and what is cut out of a text. *)

LEMMA CallFacts ==
  ASSUME Typed
  PROVE  /\ t \in Result /\ Len(t) \in Nat
         /\ call.repl \in Result /\ Len(call.repl) \in Nat
         /\ call.n \in Nat
         /\ call.branch = "literal" => call.arg \in Result /\ Len(call.arg) \in Nat
         /\ call.op \in {"split", "replace", "look"} /\ call.branch \in {"literal", "posix", "windows"}
BY CallsAssumption, LenProperties DEF Typed, t, Result

LEMMA FindFacts ==
  ASSUME Typed, NEW q \in 0 .. Len(t), find[q] # NoMatch
  PROVE  /\ find[q].so \in q .. Len(t) /\ find[q].eo \in find[q].so .. Len(t)
         /\ find[q].eo \in q .. Len(t)
         /\ call.branch = "literal" => find[q].eo = find[q].so + Len(call.arg)
<1>1. find[q] = Search(call, q) /\ call \in Calls
  BY DEF Typed
<1>2. q \in 0 .. Len(call.text)
  BY DEF t
<1>3. /\ find[q].so \in q .. Len(t) /\ find[q].eo \in find[q].so .. Len(t)
      /\ call.branch = "literal" => find[q].eo = find[q].so + Len(call.arg)
  BY <1>1, <1>2, SearchAssumption DEF t
<1> QED BY <1>3, CallFacts

LEMMA CutoutFacts ==
  ASSUME NEW u \in Result, NEW i \in 0 .. Len(u), NEW j \in i .. Len(u)
  PROVE  Cutout(u, i, j) \in Result /\ Len(Cutout(u, i, j)) = j - i
<1>1. Len(u) \in Nat /\ \A k \in i + 1 .. j : u[k] \in Nat
  BY ElementOfSeq, LenProperties DEF Result
<1>2. i + 1 \in Int /\ j \in Int
  BY <1>1
<1>3. /\ SubSeq(u, i + 1, j) \in Seq(Nat)
      /\ Len(SubSeq(u, i + 1, j)) = IF i + 1 <= j THEN j - (i + 1) + 1 ELSE 0
  BY <1>1, <1>2, SubSeqProperties
<1> QED BY <1>1, <1>3 DEF Cutout, Result

LEMMA ConcatFacts ==
  ASSUME NEW a \in Result, NEW b \in Result
  PROVE  a \o b \in Result /\ Len(a \o b) = Len(a) + Len(b) /\ Len(a) \in Nat /\ Len(b) \in Nat
BY ConcatProperties, LenProperties DEF Result

(* A literal that is looked for and found is not empty. *)
LEMMA LiteralSolid ==
  ASSUME Typed, call.branch = "literal", call.arg # << >>,
         NEW q \in 0 .. Len(t), find[q] # NoMatch
  PROVE  ~Empty(find[q]) /\ q < Len(t) /\ Len(call.arg) \in Nat \ {0}
<1>1. Len(call.arg) \in Nat \ {0}
  BY CallFacts, EmptySeq DEF Result
<1> QED BY <1>1, FindFacts, CallFacts DEF Empty

(* A round of a replacing loop. *)
LEMMA RoundFacts ==
  ASSUME Typed, NEW q \in 0 .. Len(t), NEW k \in Nat
  PROVE  /\ Round(q, k).piece \in Result /\ Len(Round(q, k).piece) \in Nat
         /\ Round(q, k).go => Round(q, k).p \in 0 .. Len(t)
<1> DEFINE m == find[q]
           along == IF Empty(m) /\ m.eo < Len(t) THEN m.eo + 1 ELSE m.eo
           go == /\ m # NoMatch /\ ~Limited(k)
                 /\ call.branch = "windows" => ~Empty(m)
                 /\ call.branch # "windows" => q < Len(t)
<1>1. /\ Round(q, k).go = go /\ Round(q, k).p = along
      /\ Round(q, k).piece =
           IF go THEN Cutout(t, q, m.so) \o call.repl \o Cutout(t, m.eo, along)
           ELSE IF call.branch = "posix"
             THEN (IF Limited(k) THEN << >> ELSE Rest(q))
                    \o (IF k = call.n THEN Rest(q) ELSE << >>)
           ELSE Rest(q)
  BY DEF Round
<1>2. Rest(q) \in Result /\ << >> \in Result
  BY CallFacts, CutoutFacts, EmptySeq DEF Rest, Result
<1>3. CASE go
  <2>1. m.so \in q .. Len(t) /\ m.eo \in q .. Len(t) /\ Len(t) \in Nat
    BY <1>3, FindFacts, CallFacts
  <2>2. along \in m.eo .. Len(t) /\ along \in 0 .. Len(t) /\ m.eo \in 0 .. Len(t)
    BY <2>1
  <2> HIDE DEF along, go, m
  <2>3. Cutout(t, q, m.so) \in Result /\ Cutout(t, m.eo, along) \in Result
    BY <2>1, <2>2, CallFacts, CutoutFacts
  <2>4. Round(q, k).piece \in Result
    BY <1>1, <1>3, <2>3, CallFacts, ConcatProperties DEF Result
  <2> QED BY <1>1, <2>2, <2>4, LenProperties DEF Result
<1>4. CASE ~go
  <2> HIDE DEF along, go, m
  <2>1. Round(q, k).piece \in Result
    BY <1>1, <1>2, <1>4, ConcatProperties DEF Result
  <2> QED BY <1>1, <1>4, <2>1, LenProperties DEF Result
<1> QED BY <1>3, <1>4

(* The rounds of the literal replace. *)
LEMMA LiteralRound ==
  ASSUME Typed, call.branch = "literal", call.arg # << >>,
         NEW q \in 0 .. Len(t), NEW k \in Nat
  PROVE  /\ Round(q, k).go <=> find[q] # NoMatch /\ ~Limited(k)
         /\ Round(q, k).go =>
              /\ Round(q, k).p = find[q].eo
              /\ Len(Round(q, k).piece) = find[q].eo - q + Len(call.repl) - Len(call.arg)
         /\ ~Round(q, k).go => Len(Round(q, k).piece) = Len(t) - q
<1> DEFINE m == find[q]
           go == m # NoMatch /\ ~Limited(k)
<1>1. m # NoMatch => ~Empty(m) /\ q < Len(t)
  BY LiteralSolid
<1>2. /\ Round(q, k).go = go
      /\ go => /\ Round(q, k).p = m.eo
               /\ Round(q, k).piece = Cutout(t, q, m.so) \o call.repl \o Cutout(t, m.eo, m.eo)
      /\ ~go => Round(q, k).piece = Rest(q)
  BY <1>1 DEF Round
<1>3. ASSUME go
      PROVE  Len(Round(q, k).piece) = m.eo - q + Len(call.repl) - Len(call.arg)
  <2>1. /\ m.so \in q .. Len(t) /\ m.eo \in 0 .. Len(t) /\ Len(t) \in Nat
        /\ m.eo \in m.eo .. Len(t) /\ m.eo = m.so + Len(call.arg)
    BY <1>3, FindFacts, CallFacts
  <2> HIDE DEF m
  <2>2. /\ Cutout(t, q, m.so) \in Result /\ Len(Cutout(t, q, m.so)) = m.so - q
        /\ Cutout(t, m.eo, m.eo) \in Result /\ Len(Cutout(t, m.eo, m.eo)) = 0
    <3>1. t \in Result /\ q \in 0 .. Len(t) /\ m.eo - m.eo = 0
      BY <2>1, CallFacts
    <3>2. Cutout(t, q, m.so) \in Result /\ Len(Cutout(t, q, m.so)) = m.so - q
      BY <2>1, <3>1, CutoutFacts
    <3>3. Cutout(t, m.eo, m.eo) \in Result /\ Len(Cutout(t, m.eo, m.eo)) = m.eo - m.eo
      BY <2>1, <3>1, CutoutFacts
    <3> QED BY <3>1, <3>2, <3>3
  <2>3. Len(Round(q, k).piece) = (m.so - q + Len(call.repl)) + 0
    <3> DEFINE a == Cutout(t, q, m.so)
               b == Cutout(t, m.eo, m.eo)
    <3>1. Round(q, k).piece = a \o call.repl \o b
      BY <1>2, <1>3
    <3>2. a \in Result /\ b \in Result /\ call.repl \in Result
      BY <2>2, CallFacts
    <3> HIDE DEF a, b
    <3>3. a \o call.repl \in Result /\ Len(a \o call.repl) = Len(a) + Len(call.repl)
      BY <3>2, ConcatFacts
    <3> DEFINE c == a \o call.repl
    <3>4. c \in Result /\ Round(q, k).piece = c \o b
      BY <3>1, <3>3
    <3> HIDE DEF c
    <3>5. Len(c \o b) = Len(c) + Len(b)
      BY <3>2, <3>4, ConcatFacts
    <3> QED BY <2>2, <3>3, <3>4, <3>5 DEF a, b, c
  <2>4. Len(call.repl) \in Nat /\ Len(call.arg) \in Nat /\ m.so \in Int
        /\ m.eo = m.so + Len(call.arg) /\ q \in Int
    BY <2>1, CallFacts
  <2> DEFINE R == Len(call.repl)
             A == Len(call.arg)
             L == Len(Round(q, k).piece)
             so == m.so
             eo == m.eo
  <2>5. R \in Int /\ A \in Int /\ q \in Int /\ so \in Int /\ eo = so + A /\ L = (so - q + R) + 0
    BY <2>3, <2>4
  <2> HIDE DEF R, A, L, so, eo
  <2>6. L = eo - q + R - A
    BY <2>5
  <2> QED BY <2>6 DEF R, A, L, eo
<1>4. ASSUME ~go
      PROVE  Len(Round(q, k).piece) = Len(t) - q
  <2>1. t \in Result /\ Len(t) \in Nat /\ Len(t) \in q .. Len(t)
    BY CallFacts
  <2>2. Len(Cutout(t, q, Len(t))) = Len(t) - q
    BY <2>1, CutoutFacts
  <2> QED BY <1>2, <1>4, <2>2 DEF Rest
<1> QED BY <1>2, <1>3, <1>4

-----------------------------------------------------------------------------
(* What no step changes, and the types. *)

LEMMA SameCall ==
  ASSUME call' = call, find' = find
  PROVE  /\ t' = t /\ Solid' = Solid
         /\ \A k : Limited(k)' = Limited(k)
         /\ \A q : Rest(q)' = Rest(q)
         /\ \A q, k : Round(q, k)' = Round(q, k)
<1>1. t' = t
  BY DEF t
<1>2. \A k : Limited(k)' = Limited(k)
  BY DEF Limited
<1>3. \A q : Rest(q)' = Rest(q)
  BY <1>1 DEF Rest
<1>4. ASSUME NEW q, NEW k
      PROVE  Round(q, k)' = Round(q, k)
  <2>1. Rest(q)' = Rest(q) /\ Limited(k)' = Limited(k)
    BY <1>2, <1>3
  <2> QED BY <1>1, <2>1, ZenonT(30) DEF Round
<1>5. Solid' = Solid
  BY <1>1 DEF Solid
<1> QED BY <1>1, <1>2, <1>3, <1>4, <1>5

LEMMA StepsKeepCall ==
  ASSUME [Next]_strings
  PROVE  call' = call /\ find' = find
BY DEF Next, strings, NothingToFind, MeasureSplit, FillSplit, SplitDone, MeasureReplace,
       MeasureRegexReplace, FillReplace, StartFill, Counted

LEMMA TypedInit ==
  ASSUME Init
  PROVE  Typed
<1>1. call.text \in Seq(Nat) /\ Len(call.text) \in Nat
  BY CallsAssumption, LenProperties DEF Init
<1>2. p \in 0 .. Len(t) /\ matches \in Nat /\ size \in Int
  BY <1>1 DEF Init, t
<1>3. << >> \in Seq(Result) /\ << >> \in Result
  BY EmptySeq DEF Result
<1> QED BY <1>2, <1>3 DEF Init, Typed, t

LEMMA TypedStep ==
  ASSUME Typed, [Next]_strings
  PROVE  Typed'
<1>1. call' = call /\ find' = find /\ t' = t
  BY StepsKeepCall, SameCall
<1>2. call' \in Calls /\ find' = [from \in 0 .. Len(t') |-> Search(call', from)]
  BY <1>1 DEF Typed
<1>3. /\ t \in Result /\ Len(t) \in Nat /\ << >> \in Seq(Result) /\ << >> \in Result
      /\ p \in 0 .. Len(t)
  BY CallFacts, EmptySeq DEF Result, Typed
<1> DEFINE m == find[p]
<1>4. m # NoMatch => m.so \in p .. Len(t) /\ m.eo \in 0 .. Len(t)
  BY <1>3, FindFacts
<1> USE <1>1, <1>2, <1>3
<1>a. CASE NothingToFind
  <2>1. <<t>> \in Seq(Result) /\ Len(<<t>>) = 1
    OBVIOUS
  <2>2. out' = (IF call.op = "split" THEN <<t>> ELSE t) /\ size' = Len(out') /\ pc' = "done"
        /\ p' = p /\ matches' = matches
    BY <1>a DEF NothingToFind
  <2> QED BY <2>1, <2>2 DEF Typed
<1>b. CASE MeasureSplit
  <2>1. call.op = "split" /\ pc = "measure" /\ call.arg # << >>
    BY <1>b DEF MeasureSplit
  <2>2. CASE StartFill(size)
    BY <2>1, <2>2 DEF StartFill, Typed
  <2>3. CASE m # NoMatch /\ Counted(m)
    BY <2>1, <2>3, <1>4 DEF Counted, Typed
  <2>4. CASE p + 1 < Len(t) /\ p' = p + 1 /\ UNCHANGED <<call, find, pc, matches, size, out>>
    BY <2>1, <2>4 DEF Typed
  <2>5. CASE pc' = "astray" /\ UNCHANGED <<call, find, p, matches, size, out>>
    BY <2>1, <2>5 DEF Typed
  <2> QED BY <1>b, <2>2, <2>3, <2>4, <2>5 DEF MeasureSplit
<1>c. CASE FillSplit
  <2>1. call.op = "split" /\ pc = "fill" /\ pc' = pc /\ size' = size /\ out \in Seq(Result)
    BY <1>c DEF FillSplit, Typed
  <2>2. CASE m # NoMatch /\ out' = Append(out, Cutout(t, p, m.so)) /\ p' = m.eo /\ matches' = matches + 1
    <3>1. Cutout(t, p, m.so) \in Result
      BY <2>2, <1>4, CutoutFacts
    <3>2. out' \in Seq(Result)
      BY <2>1, <2>2, <3>1, AppendProperties
    <3> QED BY <2>1, <2>2, <3>2, <1>4 DEF Typed
  <2>3. CASE out' = Append(out, Rest(p)) /\ UNCHANGED <<p, matches>>
    <3>1. Rest(p) \in Result
      BY CutoutFacts DEF Rest
    <3>2. out' \in Seq(Result)
      BY <2>1, <2>3, <3>1, AppendProperties
    <3> QED BY <2>1, <2>3, <3>2 DEF Typed
  <2> QED BY <1>c, <2>2, <2>3 DEF FillSplit
<1>d. CASE SplitDone
  BY <1>d DEF SplitDone, Typed
<1>e. CASE MeasureReplace
  <2>1. call.op = "replace" /\ pc = "measure" /\ call.branch = "literal" /\ call.arg # << >>
    BY <1>e DEF MeasureReplace
  <2>2. CASE m # NoMatch /\ matches' = matches + 1 /\ p' = m.eo /\ UNCHANGED <<call, find, pc, size, out>>
    BY <2>1, <2>2, <1>4 DEF Typed
  <2>3. CASE StartFill(Len(t) + matches * (Len(call.repl) - Len(call.arg)))
    <3>1. Len(t) + matches * (Len(call.repl) - Len(call.arg)) \in Int
      BY <2>1, CallFacts DEF Typed
    <3> QED BY <2>1, <2>3, <3>1 DEF StartFill, Typed
  <2> QED BY <1>e, <2>2, <2>3 DEF MeasureReplace
<1>f. CASE MeasureRegexReplace
  <2> DEFINE r == Round(p, matches)
  <2>1. call.op = "replace" /\ pc = "measure" /\ call.branch # "literal" /\ matches \in Nat /\ size \in Int
    BY <1>f DEF MeasureRegexReplace, Typed
  <2>2. Len(r.piece) \in Nat /\ (r.go => r.p \in 0 .. Len(t))
    BY <2>1, RoundFacts
  <2>3. CASE r.go /\ size' = size + Len(r.piece) /\ p' = r.p /\ matches' = matches + 1
             /\ UNCHANGED <<call, find, pc, out>>
    <3>1. size + Len(r.piece) \in Int /\ matches + 1 \in Nat /\ p' \in 0 .. Len(t)
      BY <2>1, <2>2, <2>3
    <3> HIDE DEF r
    <3> QED BY <2>1, <2>3, <3>1 DEF Typed
  <2>4. CASE StartFill(size + Len(r.piece))
    <3>1. size + Len(r.piece) \in Int
      BY <2>1, <2>2
    <3> HIDE DEF r
    <3> QED BY <2>1, <2>4, <3>1 DEF StartFill, Typed
  <2> QED BY <1>f, <2>3, <2>4 DEF MeasureRegexReplace
<1>g. CASE FillReplace
  <2> DEFINE r == Round(p, matches)
  <2>1. call.op = "replace" /\ pc = "fill" /\ matches \in Nat /\ size' = size /\ out \in Result
        /\ out' = out \o r.piece
    BY <1>g DEF FillReplace, Typed
  <2>2. r.piece \in Result /\ (r.go => r.p \in 0 .. Len(t))
    BY <2>1, RoundFacts
  <2>3. out' \in Result
    BY <2>1, <2>2, ConcatFacts
  <2>4. \/ r.go /\ p' = r.p /\ matches' = matches + 1 /\ pc' = pc
        \/ pc' = "done" /\ p' = p /\ matches' = matches
    BY <1>g DEF FillReplace
  <2> HIDE DEF r
  <2> QED BY <2>1, <2>2, <2>3, <2>4 DEF Typed
<1>h. CASE UNCHANGED strings
  BY <1>h DEF strings, Typed
<1> QED BY <1>a, <1>b, <1>c, <1>d, <1>e, <1>f, <1>g, <1>h DEF Next

-----------------------------------------------------------------------------
(* Traces of a replacing loop: its first n rounds, where each begins and   *)
(* the bytes that the rounds before it make.                               *)

Extends(a, b) == \E c \in Result : b = a \o c

LEMMA ExtendsProperties ==
  ASSUME NEW a \in Result
  PROVE  /\ Extends(a, a)
         /\ \A b : Extends(a, b) => b \in Result /\ Len(a) <= Len(b)
         /\ \A b, c \in Result : Extends(a, b) => Extends(a, b \o c)
<1>1. Extends(a, a)
  BY ConcatEmptySeq, EmptySeq DEF Extends, Result
<1>2. ASSUME NEW b, Extends(a, b)
      PROVE  b \in Result /\ Len(a) <= Len(b)
  <2>1. PICK c \in Result : b = a \o c
    BY <1>2 DEF Extends
  <2> QED BY <2>1, ConcatFacts
<1>3. ASSUME NEW b, NEW c \in Result, Extends(a, b)
      PROVE  Extends(a, b \o c)
  <2>1. PICK d \in Result : b = a \o d
    BY <1>3 DEF Extends
  <2>2. d \o c \in Result
    BY ConcatFacts
  <2>3. b \o c = a \o (d \o c)
    BY <2>1, ConcatAssociative, SMTT(30) DEF Result
  <2> QED BY <2>2, <2>3 DEF Extends
<1> QED BY <1>1, <1>2, <1>3

Trace(at, txt, n) ==
  /\ at \in [0 .. n -> 0 .. Len(t)] /\ txt \in [0 .. n -> Result]
  /\ at[0] = 0 /\ txt[0] = << >>
  /\ \A k \in 0 .. n - 1 :
       LET r == Round(at[k], k)
       IN r.go /\ at[k + 1] = r.p /\ txt[k + 1] = txt[k] \o r.piece
  /\ \A k \in 0 .. n : \A j \in 0 .. k : Extends(txt[j], txt[k])

LEMMA TraceStarts ==
  ASSUME Typed
  PROVE  \E at, txt : Trace(at, txt, 0) /\ at[0] = 0 /\ txt[0] = << >>
<1> DEFINE at == [k \in 0 .. 0 |-> 0]
           txt == [k \in 0 .. 0 |-> << >>]
<1>1. Len(t) \in Nat /\ << >> \in Result
  BY CallFacts, EmptySeq DEF Result
<1>2. at \in [0 .. 0 -> 0 .. Len(t)] /\ txt \in [0 .. 0 -> Result] /\ at[0] = 0 /\ txt[0] = << >>
  BY <1>1
<1>3. \A k \in 0 .. 0 : \A j \in 0 .. k : k = 0 /\ j = 0
  OBVIOUS
<1> HIDE DEF at, txt
<1>4. Extends(txt[0], txt[0])
  BY <1>1, <1>2, ExtendsProperties
<1>5. \A k \in 0 .. 0 : \A j \in 0 .. k : Extends(txt[j], txt[k])
  BY <1>3, <1>4
<1>6. Trace(at, txt, 0)
  BY <1>2, <1>5 DEF Trace
<1> QED BY <1>2, <1>6

LEMMA TraceGrows ==
  ASSUME Typed, NEW n \in Nat, NEW at, NEW txt, Trace(at, txt, n), Round(at[n], n).go
  PROVE  \E at2, txt2 :
           /\ Trace(at2, txt2, n + 1)
           /\ at2[n + 1] = Round(at[n], n).p
           /\ txt2[n + 1] = txt[n] \o Round(at[n], n).piece
           /\ Len(txt2[n + 1]) = Len(txt[n]) + Len(Round(at[n], n).piece)
<1> DEFINE r == Round(at[n], n)
           at2 == [k \in 0 .. n + 1 |-> IF k = n + 1 THEN r.p ELSE at[k]]
           txt2 == [k \in 0 .. n + 1 |-> IF k = n + 1 THEN txt[n] \o r.piece ELSE txt[k]]
<1>1. /\ at \in [0 .. n -> 0 .. Len(t)] /\ txt \in [0 .. n -> Result]
      /\ at[0] = 0 /\ txt[0] = << >> /\ n \in 0 .. n
  BY DEF Trace
<1>2. /\ r.piece \in Result /\ Len(r.piece) \in Nat /\ r.p \in 0 .. Len(t) /\ r.go
  BY <1>1, RoundFacts
<1>3. /\ txt[n] \in Result /\ txt[n] \o r.piece \in Result
      /\ Len(txt[n] \o r.piece) = Len(txt[n]) + Len(r.piece) /\ Len(txt[n]) \in Nat
  BY <1>1, <1>2, ConcatFacts
<1>4. /\ \A k \in 0 .. n : at2[k] = at[k] /\ txt2[k] = txt[k]
      /\ at2[n + 1] = r.p /\ txt2[n + 1] = txt[n] \o r.piece
  <2> HIDE DEF r
  <2>1. \A k \in 0 .. n : k \in 0 .. n + 1 /\ k # n + 1
    OBVIOUS
  <2>2. n + 1 \in 0 .. n + 1
    OBVIOUS
  <2> QED BY <2>1, <2>2
<1>5. at2 \in [0 .. n + 1 -> 0 .. Len(t)] /\ txt2 \in [0 .. n + 1 -> Result]
  <2>1. \A k \in 0 .. n + 1 : k = n + 1 \/ k \in 0 .. n
    OBVIOUS
  <2> HIDE DEF r
  <2> QED BY <1>1, <1>2, <1>3, <2>1
<1> HIDE DEF at2, txt2
<1>6. \A k \in 0 .. n :
        /\ Round(at2[k], k).go /\ at2[k + 1] = Round(at2[k], k).p
        /\ txt2[k + 1] = txt2[k] \o Round(at2[k], k).piece
  <2> TAKE k \in 0 .. n
  <2>1. at2[k] = at[k] /\ txt2[k] = txt[k]
    BY <1>4
  <2>2. CASE k = n
    BY <2>1, <2>2, <1>2, <1>4
  <2>3. CASE k # n
    <3>1. k \in 0 .. n - 1 /\ k + 1 \in 0 .. n
      BY <2>3
    <3>2. /\ Round(at[k], k).go /\ at[k + 1] = Round(at[k], k).p
          /\ txt[k + 1] = txt[k] \o Round(at[k], k).piece
      BY <3>1 DEF Trace
    <3>3. at2[k + 1] = at[k + 1] /\ txt2[k + 1] = txt[k + 1]
      BY <3>1, <1>4
    <3> QED BY <2>1, <3>2, <3>3
  <2> QED BY <2>2, <2>3
<1>7. \A k \in 0 .. n + 1 : \A j \in 0 .. k : Extends(txt2[j], txt2[k])
  <2> TAKE k \in 0 .. n + 1
  <2> TAKE j \in 0 .. k
  <2>1. CASE k \in 0 .. n
    <3>1. j \in 0 .. n
      BY <2>1
    <3>2. Extends(txt[j], txt[k])
      BY <2>1 DEF Trace
    <3> QED BY <2>1, <3>1, <3>2, <1>4
  <2>2. CASE k = n + 1 /\ j = n + 1
    <3>1. txt2[n + 1] \in Result
      BY <1>3, <1>4
    <3> QED BY <2>2, <3>1, ExtendsProperties
  <2>3. CASE k = n + 1 /\ j # n + 1
    <3>1. j \in 0 .. n /\ txt[j] \in Result
      BY <2>3, <1>1
    <3>2. Extends(txt[j], txt[n])
      BY <3>1, <1>1 DEF Trace
    <3>3. txt2[k] = txt[n] \o r.piece /\ txt2[j] = txt[j]
      BY <2>3, <3>1, <1>4
    <3> HIDE DEF r
    <3> QED BY <3>1, <3>2, <3>3, <1>2, ExtendsProperties
  <2> QED BY <2>1, <2>2, <2>3
<1>8. at2[0] = 0 /\ txt2[0] = << >>
  BY <1>1, <1>4
<1>9. Trace(at2, txt2, n + 1)
  <2>1. (n + 1) - 1 = n
    OBVIOUS
  <2>2. \A k \in 0 .. (n + 1) - 1 :
          LET s == Round(at2[k], k)
          IN s.go /\ at2[k + 1] = s.p /\ txt2[k + 1] = txt2[k] \o s.piece
    BY <2>1, <1>6
  <2> QED BY <1>5, <1>7, <1>8, <2>2 DEF Trace
<1> QED BY <1>3, <1>4, <1>9

(* A trace is one of the call, not of the state. *)
LEMMA TraceKept ==
  ASSUME call' = call, find' = find, NEW at, NEW txt, NEW n
  PROVE  Trace(at, txt, n)' = Trace(at, txt, n)
<1>1. t' = t /\ \A q, k : Round(q, k)' = Round(q, k)
  BY SameCall
<1> QED BY <1>1 DEF Trace

-----------------------------------------------------------------------------
(* Replacing: the first pass is at the end of a trace and has measured     *)
(* what it makes; the second is somewhere on a trace that has come to its  *)
(* end, and has made what the rounds up to there make.                     *)

NothingToReplace == call.branch = "literal" /\ call.arg = << >>

Measured(at, txt) ==
  /\ Trace(at, txt, matches) /\ at[matches] = p
  /\ call.branch = "literal" =>
       size = 0 /\ Len(txt[matches]) = p + matches * (Len(call.repl) - Len(call.arg))
  /\ call.branch # "literal" => size = Len(txt[matches])

Filled(at, txt, n) ==
  /\ Trace(at, txt, n) /\ ~Round(at[n], n).go
  /\ matches \in 0 .. n /\ at[matches] = p /\ out = txt[matches]
  /\ size = Len(txt[n]) + Len(Round(at[n], n).piece)

Replaced(at, txt, n) ==
  /\ Trace(at, txt, n) /\ ~Round(at[n], n).go
  /\ matches = n /\ out = txt[n] \o Round(at[n], n).piece
  /\ Len(out) = size

Replacing ==
  call.op = "replace" =>
    /\ pc = "measure" /\ ~NothingToReplace => \E at, txt : Measured(at, txt)
    /\ pc = "fill" => \E n \in Nat : \E at, txt : Filled(at, txt, n)
    /\ pc = "done" => \/ NothingToReplace /\ out = t /\ Len(out) = size
                      \/ \E n \in Nat : \E at, txt : Replaced(at, txt, n)

LEMMA ReplacingInit ==
  ASSUME Init, Typed
  PROVE  Replacing
<1> SUFFICES ASSUME call.op = "replace"
             PROVE  \E at, txt : Measured(at, txt)
  BY DEF Replacing, Init
<1>1. pc = "measure" /\ p = 0 /\ matches = 0 /\ size = 0
  BY DEF Init
<1>2. PICK at, txt : Trace(at, txt, 0) /\ at[0] = 0 /\ txt[0] = << >>
  BY TraceStarts
<1>3. Len(txt[0]) = 0
  BY <1>2, EmptySeq
<1>4. call.branch = "literal" => 0 + 0 * (Len(call.repl) - Len(call.arg)) = 0
  <2> DEFINE d == Len(call.repl) - Len(call.arg)
  <2>1. ASSUME call.branch = "literal" PROVE d \in Int
    BY <2>1, CallFacts
  <2> HIDE DEF d
  <2>2. ASSUME d \in Int PROVE 0 + 0 * d = 0
    BY <2>2
  <2>3. call.branch = "literal" => 0 + 0 * d = 0
    BY <2>1, <2>2
  <2> QED BY <2>3 DEF d
<1>5. Trace(at, txt, matches) /\ at[matches] = p /\ Len(txt[matches]) = 0
  BY <1>1, <1>2, <1>3
<1>6. Measured(at, txt)
  BY <1>1, <1>4, <1>5 DEF Measured
<1> QED BY <1>6

(* Starting the second pass, at the end of a trace that says its size. *)
LEMMA StartsFilling ==
  ASSUME Typed, pc = "measure", call.op = "replace",
         NEW n \in Nat, NEW at, NEW txt, Trace(at, txt, n), ~Round(at[n], n).go,
         NEW z, StartFill(z), z = Len(txt[n]) + Len(Round(at[n], n).piece)
  PROVE  Replacing'
<1>1. out = << >> /\ 0 \in 0 .. n
  BY DEF Typed
<1>2. /\ call' = call /\ find' = find /\ out' = << >> /\ pc' = "fill" /\ p' = 0
      /\ matches' = 0 /\ size' = z
  BY <1>1 DEF StartFill
<1>3. at[0] = 0 /\ txt[0] = << >>
  BY DEF Trace
<1>4. Trace(at, txt, n)' /\ Round(at[n], n)' = Round(at[n], n)
  BY <1>2, SameCall, TraceKept
<1>5. Filled(at, txt, n)'
  BY <1>1, <1>2, <1>3, <1>4 DEF Filled
<1> QED BY <1>2, <1>5 DEF Replacing

(* One more round of the first pass. *)
LEMMA MeasuresOn ==
  ASSUME Typed, pc = "measure", ~NothingToReplace,
         NEW at, NEW txt, Measured(at, txt), Round(p, matches).go,
         call' = call, find' = find, pc' = pc,
         matches' = matches + 1, p' = Round(p, matches).p,
         size' = IF call.branch = "literal" THEN size
                 ELSE size + Len(Round(p, matches).piece)
  PROVE  Replacing'
<1> DEFINE r == Round(p, matches)
<1>1. /\ matches \in Nat /\ p \in 0 .. Len(t) /\ Len(t) \in Nat
      /\ Trace(at, txt, matches) /\ at[matches] = p
  BY CallFacts DEF Measured, Typed
<1>2. PICK at2, txt2 :
        /\ Trace(at2, txt2, matches + 1) /\ at2[matches + 1] = r.p
        /\ Len(txt2[matches + 1]) = Len(txt[matches]) + Len(r.piece)
  <2>1. Round(at[matches], matches) = r /\ Round(at[matches], matches).go
    BY <1>1
  <2>2. \E at2, txt2 :
          /\ Trace(at2, txt2, matches + 1)
          /\ at2[matches + 1] = Round(at[matches], matches).p
          /\ Len(txt2[matches + 1]) = Len(txt[matches]) + Len(Round(at[matches], matches).piece)
    BY <1>1, <2>1, TraceGrows, ZenonT(30)
  <2> QED BY <2>1, <2>2, Zenon
<1>3. ASSUME NEW n, n = matches + 1
      PROVE  Trace(at2, txt2, n)' /\ at2[n] = r.p
  BY <1>2, <1>3, TraceKept
<1>4. Trace(at2, txt2, matches)' /\ at2[matches'] = p'
  BY <1>3
<1>5. CASE call.branch # "literal"
  <2>1. size = Len(txt[matches])
    BY <1>5 DEF Measured
  <2>2. size' = Len(txt2[matches'])
    BY <2>1, <1>2, <1>5
  <2>3. Measured(at2, txt2)'
    BY <1>4, <1>5, <2>2 DEF Measured
  <2> QED BY <2>3 DEF Replacing, NothingToReplace
<1>6. CASE call.branch = "literal"
  <2> DEFINE d == Len(call.repl) - Len(call.arg)
             e == find[p].eo
             k == matches
  <2>1. call.arg # << >> /\ Len(call.repl) \in Nat /\ Len(call.arg) \in Nat
    BY <1>6, CallFacts DEF NothingToReplace
  <2>2. r.p = e /\ Len(r.piece) = e - p + Len(call.repl) - Len(call.arg) /\ find[p] # NoMatch
    BY <1>1, <1>6, <2>1, LiteralRound
  <2>3. e \in Int /\ d \in Int /\ k \in Int /\ p \in Int
    BY <1>1, <2>1, <2>2, FindFacts
  <2>4. size = 0 /\ Len(txt[matches]) = p + k * d
    BY <1>6 DEF Measured
  <2>5. Len(txt2[matches + 1]) = (p + k * d) + (e - p + d)
    <3>1. Len(r.piece) = e - p + d
      BY <2>2 DEF d
    <3> QED BY <1>2, <2>4, <3>1
  <2> HIDE DEF d, e, k
  <2>6. (k + 1) * d = k * d + d /\ k * d \in Int
    BY <2>3
  <2>7. (p + k * d) + (e - p + d) = e + (k + 1) * d
    BY <2>3, <2>6
  <2>8. Len(txt2[matches']) = p' + matches' * (Len(call'.repl) - Len(call'.arg)) /\ size' = 0
    BY <1>6, <2>2, <2>4, <2>5, <2>7 DEF d, e, k
  <2>9. Measured(at2, txt2)'
    BY <1>4, <1>6, <2>8 DEF Measured
  <2> QED BY <2>9 DEF Replacing
<1> QED BY <1>5, <1>6

LEMMA ReplacingStep ==
  ASSUME Typed, Replacing, [Next]_strings
  PROVE  Replacing'
<1> SUFFICES ASSUME call.op = "replace"
             PROVE  Replacing'
  BY StepsKeepCall DEF Replacing
<1>1. call' = call /\ find' = find /\ t' = t
  BY StepsKeepCall, SameCall
<1>2. /\ matches \in Nat /\ p \in 0 .. Len(t) /\ Len(t) \in Nat /\ t \in Result
      /\ pc = "measure" => out = << >>
      /\ pc = "fill" /\ call.branch = "literal" => call.arg # << >>
      /\ size \in Int
  BY CallFacts DEF Typed
<1> DEFINE m == find[p]
           r == Round(p, matches)
<1>3. Len(r.piece) \in Nat /\ r.piece \in Result
  BY <1>2, RoundFacts
<1>a. CASE NothingToFind
  BY <1>a, <1>1 DEF NothingToFind, Replacing, NothingToReplace
<1>b. CASE MeasureSplit \/ FillSplit \/ SplitDone
  BY <1>b DEF MeasureSplit, FillSplit, SplitDone
<1>c. CASE MeasureReplace
  <2>1. /\ pc = "measure" /\ call.branch = "literal" /\ call.arg # << >> /\ ~NothingToReplace
    BY <1>c DEF MeasureReplace, NothingToReplace
  <2>2. PICK at, txt : Measured(at, txt)
    BY <2>1 DEF Replacing
  <2>3. r.go <=> m # NoMatch /\ ~Limited(matches)
    BY <1>2, <2>1, LiteralRound
  <2>4. CASE r.go
    <3>1. matches' = matches + 1 /\ p' = m.eo /\ pc' = pc /\ size' = size
      BY <1>c, <2>3, <2>4 DEF MeasureReplace
    <3>2. r.p = m.eo
      BY <1>2, <2>1, <2>4, LiteralRound
    <3> QED BY <1>1, <2>1, <2>2, <2>4, <3>1, <3>2, MeasuresOn
  <2>5. CASE ~r.go
    <3> DEFINE d == Len(call.repl) - Len(call.arg)
               k == matches
    <3>1. StartFill(Len(t) + k * d)
      BY <1>c, <2>3, <2>5 DEF MeasureReplace
    <3>2. Len(r.piece) = Len(t) - p /\ d \in Int
      <4>1. Len(r.piece) = Len(t) - p
        BY <1>2, <2>1, <2>5, LiteralRound
      <4>2. Len(call.repl) \in Nat /\ Len(call.arg) \in Nat
        BY <2>1, CallFacts
      <4> QED BY <4>1, <4>2
    <3>3. Trace(at, txt, matches) /\ at[matches] = p /\ Len(txt[matches]) = p + k * d
      BY <2>1, <2>2 DEF Measured
    <3>4. Len(t) + k * d = Len(txt[matches]) + Len(r.piece)
      <4> DEFINE T == Len(t)
                 x == Len(txt[matches])
                 y == Len(r.piece)
      <4>1. x = p + k * d /\ y = T - p /\ T \in Nat /\ p \in Int /\ k \in Nat /\ d \in Int
        BY <1>2, <3>2, <3>3
      <4> HIDE DEF T, x, y, k, d
      <4>2. k * d \in Int
        BY <4>1
      <4>3. T + k * d = x + y
        BY <4>1, <4>2
      <4> QED BY <4>3 DEF T, x, y
    <3> HIDE DEF k, d
    <3> QED BY <1>2, <2>1, <2>5, <3>1, <3>3, <3>4, StartsFilling
  <2> QED BY <2>4, <2>5
<1>d. CASE MeasureRegexReplace
  <2>1. pc = "measure" /\ call.branch # "literal" /\ ~NothingToReplace
    BY <1>d DEF MeasureRegexReplace, NothingToReplace
  <2>2. PICK at, txt : Measured(at, txt)
    BY <2>1 DEF Replacing
  <2>3. CASE r.go
    <3>1. /\ matches' = matches + 1 /\ p' = r.p /\ pc' = pc
          /\ size' = size + Len(r.piece)
      BY <1>d, <2>3 DEF MeasureRegexReplace
    <3> QED BY <1>1, <2>1, <2>2, <2>3, <3>1, MeasuresOn
  <2>4. CASE ~r.go
    <3>1. StartFill(size + Len(r.piece))
      BY <1>d, <2>4 DEF MeasureRegexReplace
    <3>2. Trace(at, txt, matches) /\ at[matches] = p /\ size = Len(txt[matches])
      BY <2>1, <2>2 DEF Measured
    <3>3. /\ ~Round(at[matches], matches).go
          /\ size + Len(r.piece) = Len(txt[matches]) + Len(Round(at[matches], matches).piece)
      BY <2>4, <3>2
    <3> DEFINE z == size + Len(r.piece)
    <3> HIDE DEF z
    <3> QED BY <1>2, <2>1, <3>1, <3>2, <3>3, StartsFilling DEF z
  <2> QED BY <2>3, <2>4
<1>e. CASE FillReplace
  <2>1. pc = "fill" /\ out' = out \o r.piece /\ size' = size
    BY <1>e DEF FillReplace
  <2>2. PICK n \in Nat : \E at, txt : Filled(at, txt, n)
    BY <2>1 DEF Replacing
  <2>3. PICK at, txt : Filled(at, txt, n)
    BY <2>2
  <2>4. /\ Trace(at, txt, n) /\ ~Round(at[n], n).go /\ matches \in 0 .. n
        /\ at[matches] = p /\ out = txt[matches]
        /\ size = Len(txt[n]) + Len(Round(at[n], n).piece)
    BY <2>3 DEF Filled
  <2>5. Trace(at, txt, n)' /\ Round(at[n], n)' = Round(at[n], n)
    BY <1>1, <2>4, SameCall, TraceKept
  <2>6. matches < n <=> r.go
    <3>1. CASE matches < n
      <4>1. matches \in 0 .. n - 1
        BY <1>2, <2>4, <3>1
      <4> QED BY <2>4, <3>1, <4>1 DEF Trace
    <3>2. CASE ~(matches < n)
      BY <1>2, <2>4, <3>2
    <3> QED BY <3>1, <3>2
  <2>7. CASE r.go
    <3>1. p' = r.p /\ matches' = matches + 1 /\ pc' = pc
      BY <1>e, <2>7 DEF FillReplace
    <3>2. matches \in 0 .. n - 1 /\ matches + 1 \in 0 .. n
      BY <1>2, <2>4, <2>6, <2>7
    <3>3. at[matches + 1] = r.p /\ txt[matches + 1] = txt[matches] \o r.piece
      BY <2>4, <3>2 DEF Trace
    <3>4. at[matches'] = p' /\ out' = txt[matches'] /\ matches' \in 0 .. n
      BY <2>1, <2>4, <3>1, <3>2, <3>3
    <3>5. Filled(at, txt, n)'
      BY <2>1, <2>4, <2>5, <3>4 DEF Filled
    <3> QED BY <2>1, <3>1, <3>5 DEF Replacing
  <2>8. CASE ~r.go
    <3>1. pc' = "done" /\ matches = n /\ matches' = n
      BY <1>e, <1>2, <2>4, <2>6, <2>8 DEF FillReplace
    <3>2. txt[n] \in Result /\ Round(at[n], n).piece = r.piece /\ out' = txt[n] \o r.piece
      BY <2>1, <2>4, <3>1 DEF Trace
    <3>3. Len(out') = Len(txt[n]) + Len(r.piece)
      BY <1>3, <3>2, ConcatFacts
    <3>4. Replaced(at, txt, n)'
      BY <2>1, <2>4, <2>5, <3>1, <3>2, <3>3 DEF Replaced
    <3> QED BY <3>1, <3>4 DEF Replacing
  <2> QED BY <2>7, <2>8
<1>f. CASE UNCHANGED strings
  <2>1. \A at, txt, n : Trace(at, txt, n)' = Trace(at, txt, n)
    BY <1>1, TraceKept
  <2>2. \A q, k : Round(q, k)' = Round(q, k)
    BY <1>1, SameCall
  <2>3. pc' = pc /\ p' = p /\ matches' = matches /\ size' = size /\ out' = out
    BY <1>f DEF strings
  <2>4. \A at, txt : Measured(at, txt)' = Measured(at, txt)
    BY <1>1, <2>1, <2>3 DEF Measured
  <2>5. \A at, txt, n : Filled(at, txt, n)' = Filled(at, txt, n)
    BY <2>1, <2>2, <2>3, ZenonT(30) DEF Filled
  <2>6. \A at, txt, n : Replaced(at, txt, n)' = Replaced(at, txt, n)
    BY <2>1, <2>2, <2>3 DEF Replaced
  <2> QED BY <1>1, <2>3, <2>4, <2>5, <2>6 DEF Replacing, NothingToReplace
<1> QED BY <1>a, <1>b, <1>c, <1>d, <1>e, <1>f DEF Next

-----------------------------------------------------------------------------
(* Splitting: the matches one behind the other, as long as they count.     *)

Chain(at, n) ==
  /\ at \in [0 .. n -> 0 .. Len(t)] /\ at[0] = 0
  /\ \A k \in 0 .. n - 1 :
       find[at[k]] # NoMatch /\ ~Limited(k) /\ at[k + 1] = find[at[k]].eo

(* The second pass is on a chain that has come to its end.  It has the     *)
(* parts before the matches it has seen, and at last what is behind them.  *)
Parted(at, n) ==
  /\ Chain(at, n) /\ (find[at[n]] = NoMatch \/ Limited(n)) /\ size = n + 1
  /\ matches \in 0 .. n /\ at[matches] = p
  /\ \/ Len(out) = matches
     \/ Len(out) = n + 1 /\ matches = n /\ out[n + 1] = Rest(at[n])
  /\ \A i \in 1 .. n : i <= Len(out) => out[i] = Cutout(t, at[i - 1], find[at[i - 1]].so)

Splitting ==
  call.op = "split" =>
    /\ pc = "measure" => /\ size = matches + 1
                         /\ Solid => \E at : Chain(at, matches) /\ at[matches] = p
    /\ pc = "fill" => /\ Len(out) <= size
                      /\ Solid => \E n \in Nat : \E at : Parted(at, n)
    /\ pc = "done" => Len(out) = size /\ SplitsRight

LEMMA ChainKept ==
  ASSUME call' = call, find' = find, NEW at, NEW n
  PROVE  Chain(at, n)' = Chain(at, n)
<1>1. t' = t /\ \A k : Limited(k)' = Limited(k)
  BY SameCall
<1> QED BY <1>1 DEF Chain

LEMMA ChainGrows ==
  ASSUME Typed, NEW n \in Nat, NEW at, Chain(at, n), find[at[n]] # NoMatch, ~Limited(n)
  PROVE  \E at2 : Chain(at2, n + 1) /\ at2[n + 1] = find[at[n]].eo
<1> DEFINE e == find[at[n]].eo
           at2 == [k \in 0 .. n + 1 |-> IF k = n + 1 THEN e ELSE at[k]]
<1>1. at \in [0 .. n -> 0 .. Len(t)] /\ at[0] = 0 /\ n \in 0 .. n
  BY DEF Chain
<1>2. e \in 0 .. Len(t)
  <2>1. at[n] \in 0 .. Len(t) /\ Len(t) \in Nat
    BY <1>1, CallFacts
  <2>2. e \in at[n] .. Len(t)
    BY <2>1, FindFacts
  <2> HIDE DEF e
  <2> QED BY <2>1, <2>2
<1>3. at2[n + 1] = e /\ \A k \in 0 .. n : at2[k] = at[k]
  <2> HIDE DEF e
  <2>1. \A k \in 0 .. n : k \in 0 .. n + 1 /\ k # n + 1
    OBVIOUS
  <2>2. n + 1 \in 0 .. n + 1
    OBVIOUS
  <2> QED BY <2>1, <2>2
<1>4. at2 \in [0 .. n + 1 -> 0 .. Len(t)]
  <2>1. \A k \in 0 .. n + 1 : k = n + 1 \/ k \in 0 .. n
    OBVIOUS
  <2> HIDE DEF e
  <2> QED BY <1>1, <1>2, <2>1
<1> HIDE DEF at2
<1>5. \A k \in 0 .. (n + 1) - 1 :
        find[at2[k]] # NoMatch /\ ~Limited(k) /\ at2[k + 1] = find[at2[k]].eo
  <2> TAKE k \in 0 .. (n + 1) - 1
  <2>1. k \in 0 .. n /\ at2[k] = at[k]
    BY <1>3
  <2>2. CASE k = n
    BY <2>1, <2>2, <1>3
  <2>3. CASE k # n
    <3>1. k \in 0 .. n - 1 /\ k + 1 \in 0 .. n
      BY <2>1, <2>3
    <3> QED BY <2>1, <3>1, <1>3 DEF Chain
  <2> QED BY <2>2, <2>3
<1>6. at2[0] = 0
  BY <1>1, <1>3
<1> QED BY <1>3, <1>4, <1>5, <1>6 DEF Chain

LEMMA SplittingInit ==
  ASSUME Init, Typed
  PROVE  Splitting
<1> SUFFICES ASSUME call.op = "split"
             PROVE  size = matches + 1 /\ \E at : Chain(at, matches) /\ at[matches] = p
  BY DEF Splitting, Init
<1>1. p = 0 /\ matches = 0 /\ size = 1 /\ Len(t) \in Nat
  BY CallFacts DEF Init
<1> DEFINE at == [k \in 0 .. 0 |-> 0]
<1>2. at \in [0 .. 0 -> 0 .. Len(t)] /\ at[0] = 0
  BY <1>1
<1> HIDE DEF at
<1>3. Chain(at, 0)
  BY <1>2 DEF Chain
<1> QED BY <1>1, <1>2, <1>3

LEMMA SplittingStep ==
  ASSUME Typed, Splitting, [Next]_strings
  PROVE  Splitting'
<1> SUFFICES ASSUME call.op = "split"
             PROVE  Splitting'
  BY StepsKeepCall DEF Splitting
<1>1. call' = call /\ find' = find /\ t' = t /\ Solid' = Solid
  BY StepsKeepCall, SameCall
<1>2. /\ matches \in Nat /\ p \in 0 .. Len(t) /\ Len(t) \in Nat /\ t \in Result
      /\ pc = "measure" => out = << >>
      /\ out \in Seq(Result) /\ Len(out) \in Nat /\ size \in Int /\ call.n \in Nat
  BY CallFacts, LenProperties DEF Typed
<1> DEFINE m == find[p]
<1>a. CASE NothingToFind
  <2>1. /\ call.branch = "literal" /\ call.arg = << >> /\ pc' = "done" /\ size' = Len(out')
    BY <1>a DEF NothingToFind
  <2>2. ~Solid'
    BY <1>1, <2>1 DEF Solid
  <2> QED BY <2>1, <2>2 DEF Splitting, SplitsRight
<1>b. CASE MeasureSplit
  <2>1. /\ pc = "measure" /\ size = matches + 1 /\ out = << >>
    BY <1>b, <1>2 DEF MeasureSplit, Splitting
  <2>2. CASE StartFill(size) /\ (Solid => m = NoMatch \/ Limited(matches))
    <3>1. /\ pc' = "fill" /\ p' = 0 /\ matches' = 0 /\ size' = matches + 1 /\ out' = << >>
      BY <2>1, <2>2 DEF StartFill
    <3>2. Len(out') = 0 /\ Len(out') <= size'
      BY <3>1, <1>2, EmptySeq
    <3>3. ASSUME Solid
          PROVE  \E n \in Nat : \E at : Parted(at, n)'
      <4>1. PICK at : Chain(at, matches) /\ at[matches] = p
        BY <2>1, <3>3 DEF Splitting
      <4>2. PICK n \in Nat : n = matches
        BY <1>2
      <4>3. Chain(at, n)' /\ (find'[at[n]] = NoMatch \/ Limited(n)') /\ size' = n + 1
        BY <1>1, <2>2, <3>1, <3>3, <4>1, <4>2, ChainKept, SameCall
      <4>4. 0 \in 0 .. n /\ at[0] = 0 /\ \A i \in 1 .. n : ~(i <= 0)
        BY <4>1 DEF Chain
      <4>5. Parted(at, n)'
        BY <3>1, <3>2, <4>3, <4>4 DEF Parted
      <4> QED BY <4>5
    <3> QED BY <1>1, <3>1, <3>2, <3>3 DEF Splitting
  <2>3. CASE m # NoMatch /\ ~Limited(matches) /\ Counted(m)
    <3>1. /\ pc' = "measure" /\ p' = m.eo /\ matches' = matches + 1 /\ size' = matches' + 1
      BY <2>1, <2>3 DEF Counted
    <3>2. ASSUME Solid
          PROVE  (\E at : Chain(at, matches) /\ at[matches] = p)'
      <4>1. PICK at : Chain(at, matches) /\ at[matches] = p
        BY <2>1, <3>2 DEF Splitting
      <4>2. PICK at2 : Chain(at2, matches + 1) /\ at2[matches + 1] = m.eo
        BY <1>2, <2>3, <4>1, ChainGrows
      <4>3. ASSUME NEW n, n = matches + 1
            PROVE  Chain(at2, n)' /\ at2[n] = m.eo
        BY <1>1, <4>2, <4>3, ChainKept
      <4>4. Chain(at2, matches)' /\ at2[matches'] = p'
        BY <3>1, <4>3
      <4> QED BY <4>4
    <3> QED BY <1>1, <3>1, <3>2 DEF Splitting
  <2>4. CASE m # NoMatch /\ Empty(m)
    <3>1. ~Solid'
      BY <1>1, <1>2, <2>4 DEF Solid
    <3>2. CASE StartFill(size)
      <4>1. ~Solid
        BY <3>1, <1>1
      <4> QED BY <2>2, <3>2, <4>1
    <3>3. CASE p' = p + 1 /\ UNCHANGED <<call, find, pc, matches, size, out>>
      BY <2>1, <3>1, <3>3 DEF Splitting
    <3>4. CASE pc' = "astray" /\ UNCHANGED <<call, find, p, matches, size, out>>
      BY <3>4 DEF Splitting
    <3> QED BY <1>b, <2>3, <2>4, <3>2, <3>3, <3>4 DEF MeasureSplit, StartFill
  <2> QED BY <1>b, <2>1, <2>2, <2>3, <2>4 DEF MeasureSplit
<1>c. CASE FillSplit
  <2>1. pc = "fill" /\ pc' = "fill" /\ size' = size /\ Len(out) < size
    BY <1>c DEF FillSplit
  <2>2. \E x \in Result : out' = Append(out, x)
    <3>1. m # NoMatch => Cutout(t, p, m.so) \in Result
      BY <1>2, FindFacts, CutoutFacts
    <3>2. Rest(p) \in Result
      BY <1>2, CutoutFacts DEF Rest
    <3> QED BY <1>c, <3>1, <3>2 DEF FillSplit
  <2>3. /\ Len(out') = Len(out) + 1 /\ Len(out') <= size'
        /\ \A i \in 1 .. Len(out) : out'[i] = out[i]
    BY <1>2, <2>1, <2>2, AppendProperties
  <2>4. \A x : out' = Append(out, x) => out'[Len(out) + 1] = x
    BY <1>2, AppendProperties
  <2>5. ASSUME Solid
        PROVE  \E n \in Nat : \E at : Parted(at, n)'
    <3>1. PICK n \in Nat : \E at : Parted(at, n)
      BY <2>1, <2>5 DEF Splitting
    <3>2. PICK at : Parted(at, n)
      BY <3>1
    <3>3. /\ Chain(at, n) /\ (find[at[n]] = NoMatch \/ Limited(n)) /\ size = n + 1
          /\ matches \in 0 .. n /\ at[matches] = p /\ Len(out) = matches
      BY <1>2, <2>1, <3>2 DEF Parted
    <3>4. Chain(at, n)' /\ (find'[at[n]] = NoMatch \/ Limited(n)') /\ size' = n + 1
      BY <1>1, <2>1, <3>3, ChainKept, SameCall
    <3>5. \A i \in 1 .. n : i <= Len(out) => out'[i] = Cutout(t', at[i - 1], find'[at[i - 1]].so)
      BY <1>1, <1>2, <2>3, <3>2 DEF Parted
    <3>6. matches < n <=> m # NoMatch /\ ~Limited(matches)
      <4>1. CASE matches < n
        <5>1. matches \in 0 .. n - 1
          BY <1>2, <4>1
        <5> QED BY <3>3, <4>1, <5>1 DEF Chain
      <4>2. CASE ~(matches < n)
        <5>1. matches = n
          BY <1>2, <3>3, <4>2
        <5> QED BY <3>3, <4>2, <5>1
      <4> QED BY <4>1, <4>2
    <3>7. CASE matches < n
      <4>1. /\ out' = Append(out, Cutout(t, p, m.so)) /\ p' = m.eo /\ matches' = matches + 1
        BY <1>c, <3>6, <3>7 DEF FillSplit
      <4>2. matches' \in 0 .. n /\ matches \in 0 .. n - 1 /\ matches' - 1 = matches
        BY <1>2, <3>7, <4>1
      <4>3. at[matches'] = p' /\ Len(out') = matches'
        BY <2>3, <3>3, <4>1, <4>2 DEF Chain
      <4>4. out'[matches'] = Cutout(t', at[matches' - 1], find'[at[matches' - 1]].so)
        BY <1>1, <2>4, <3>3, <4>1, <4>2
      <4>5. \A i \in 1 .. n : i <= Len(out') => out'[i] = Cutout(t', at[i - 1], find'[at[i - 1]].so)
        <5> TAKE i \in 1 .. n
        <5>1. i <= Len(out') => i <= Len(out) \/ i = matches'
          BY <1>2, <3>3, <4>1, <4>3
        <5> QED BY <3>5, <4>4, <5>1
      <4>6. Parted(at, n)'
        BY <3>4, <4>2, <4>3, <4>5 DEF Parted
      <4> QED BY <4>6
    <3>8. CASE ~(matches < n)
      <4>1. /\ out' = Append(out, Rest(p)) /\ p' = p /\ matches' = matches /\ matches = n
        BY <1>c, <1>2, <3>3, <3>6, <3>8 DEF FillSplit
      <4>2. Len(out') = n + 1 /\ out'[n + 1] = Rest(at[n])'
        <5>1. \A q : Rest(q)' = Rest(q)
          BY <1>1, SameCall
        <5>2. Len(out') = n + 1 /\ out'[n + 1] = Rest(p)
          BY <2>3, <2>4, <3>3, <4>1
        <5> QED BY <3>3, <4>1, <5>1, <5>2
      <4>3. \A i \in 1 .. n : out'[i] = Cutout(t', at[i - 1], find'[at[i - 1]].so)
        BY <3>3, <3>5, <4>1
      <4>4. Parted(at, n)'
        BY <3>3, <3>4, <4>1, <4>2, <4>3 DEF Parted
      <4> QED BY <4>4
    <3> QED BY <3>7, <3>8
  <2> QED BY <1>1, <2>1, <2>3, <2>5 DEF Splitting
<1>d. CASE SplitDone
  <2>1. pc = "fill" /\ pc' = "done" /\ Len(out) = size /\ out' = out /\ size' = size
    BY <1>d DEF SplitDone
  <2>2. ASSUME Solid
        PROVE  SplitsRight'
    <3>1. PICK n \in Nat : \E at : Parted(at, n)
      BY <2>1, <2>2 DEF Splitting
    <3>2. PICK at : Parted(at, n)
      BY <3>1
    <3>3. /\ at \in [0 .. n -> 0 .. Len(t)] /\ at[0] = 0
          /\ \A k \in 0 .. n - 1 :
               find[at[k]] # NoMatch /\ ~Limited(k) /\ at[k + 1] = find[at[k]].eo
      BY <3>2 DEF Parted, Chain
    <3>4. /\ find[at[n]] = NoMatch \/ Limited(n)
          /\ Len(out) = n + 1 /\ out[n + 1] = Rest(at[n])
          /\ \A i \in 1 .. n : out[i] = Cutout(t, at[i - 1], find[at[i - 1]].so)
      BY <2>1, <1>2, <3>2 DEF Parted
    <3> DEFINE from == [i \in 1 .. n + 1 |-> at[i - 1]]
    <3>5. \A i \in 1 .. n + 1 : i - 1 \in 0 .. n /\ from[i] = at[i - 1]
      OBVIOUS
    <3>6. from \in [1 .. n + 1 -> 0 .. Len(t)]
      BY <3>3, <3>5
    <3> HIDE DEF from
    <3>7. from[1] = 0 /\ from[n + 1] = at[n]
      <4>1. 1 \in 1 .. n + 1 /\ n + 1 \in 1 .. n + 1 /\ 1 - 1 = 0 /\ (n + 1) - 1 = n
        OBVIOUS
      <4> QED BY <3>3, <3>5, <4>1
    <3>8. \A i \in 1 .. n :
            /\ find[from[i]] # NoMatch /\ out[i] = Cutout(t, from[i], find[from[i]].so)
            /\ from[i + 1] = find[from[i]].eo
      <4> TAKE i \in 1 .. n
      <4>1. i - 1 \in 0 .. n - 1 /\ (i - 1) + 1 = i /\ i \in 1 .. n + 1 /\ i + 1 \in 1 .. n + 1
            /\ (i + 1) - 1 = i
        OBVIOUS
      <4>2. from[i] = at[i - 1] /\ from[i + 1] = at[i]
        BY <3>5, <4>1
      <4>3. find[at[i - 1]] # NoMatch /\ at[(i - 1) + 1] = find[at[i - 1]].eo
        BY <3>3, <4>1
      <4> QED BY <3>4, <4>1, <4>2, <4>3
    <3>9. call.n > 0 => n + 1 <= call.n
      <4>1. CASE n = 0
        BY <4>1, <1>2
      <4>2. CASE n > 0
        <5>1. ~Limited(n - 1)
          BY <3>3, <4>2
        <5> QED BY <5>1, <1>2, <4>2 DEF Limited
      <4> QED BY <4>1, <4>2
    <3>10. find[from[n + 1]] = NoMatch \/ n + 1 = call.n
      BY <1>2, <3>4, <3>7, <3>9 DEF Limited
    <3>11. \A q : Rest(q)' = Rest(q)
      BY <1>1, SameCall
    <3>12. /\ Len(out') = n + 1 /\ Len(out') > 0 /\ 1 .. Len(out') = 1 .. n + 1
           /\ 1 .. Len(out') - 1 = 1 .. n
      BY <2>1, <3>4
    <3>13. out'[Len(out')] = Rest(from[Len(out)])'
      BY <2>1, <3>4, <3>7, <3>11, <3>12
    <3>14. \A i \in 1 .. Len(out') - 1 :
             LET f == find'[from[i]]
             IN f # NoMatch /\ out'[i] = Cutout(t', from[i], f.so) /\ from[i + 1] = f.eo
      BY <1>1, <2>1, <3>8, <3>12
    <3>15. /\ from \in [1 .. Len(out') -> 0 .. Len(t')]
           /\ call'.n > 0 => Len(out') <= call'.n
           /\ find'[from[Len(out')]] = NoMatch \/ Len(out') = call'.n
      BY <1>1, <3>6, <3>9, <3>10, <3>12
    <3> QED BY <3>7, <3>12, <3>13, <3>14, <3>15 DEF SplitsRight
  <2>3. ASSUME ~Solid
        PROVE  SplitsRight'
    BY <1>1, <2>3 DEF SplitsRight
  <2> QED BY <1>1, <2>1, <2>2, <2>3 DEF Splitting
<1>e. CASE MeasureReplace \/ MeasureRegexReplace \/ FillReplace
  BY <1>e DEF MeasureReplace, MeasureRegexReplace, FillReplace
<1>f. CASE UNCHANGED strings
  <2>1. /\ pc' = pc /\ p' = p /\ matches' = matches /\ size' = size /\ out' = out
    BY <1>f DEF strings
  <2>2. \A at, n : Chain(at, n)' = Chain(at, n)
    BY <1>1, ChainKept
  <2>3. (\A q : Rest(q)' = Rest(q)) /\ (\A k : Limited(k)' = Limited(k))
    BY <1>1, SameCall
  <2>4. \A at, n : Parted(at, n)' = Parted(at, n)
    BY <1>1, <2>1, <2>2, <2>3 DEF Parted
  <2>5. SplitsRight' = SplitsRight
    BY <1>1, <2>1, <2>3 DEF SplitsRight
  <2>6. (\E at : Chain(at, matches) /\ at[matches] = p)
          => (\E at : Chain(at, matches) /\ at[matches] = p)'
    BY <2>1, <2>2
  <2> QED BY <1>1, <2>1, <2>4, <2>5, <2>6 DEF Splitting
<1> QED BY <1>a, <1>b, <1>c, <1>d, <1>e, <1>f DEF Next

-----------------------------------------------------------------------------
(* What a replace answers. *)

LEMMA MiddleCut ==
  ASSUME NEW a \in Result, NEW b \in Result, NEW c \in Result
  PROVE  Cutout((a \o b) \o c, Len(a), Len(a) + Len(b)) = b
<1> DEFINE ab == a \o b
           abc == ab \o c
           i == Len(a) + 1
           j == Len(a) + Len(b)
           s == SubSeq(abc, i, j)
<1>1. /\ ab \in Seq(Nat) /\ Len(ab) = Len(a) + Len(b)
      /\ Len(a) \in Nat /\ Len(b) \in Nat /\ Len(c) \in Nat
      /\ a \in Seq(Nat) /\ b \in Seq(Nat) /\ c \in Seq(Nat)
      /\ \A k \in 1 .. Len(a) + Len(b) : ab[k] = IF k <= Len(a) THEN a[k] ELSE b[k - Len(a)]
  BY ConcatProperties, LenProperties DEF Result
<1>2. /\ abc \in Seq(Nat) /\ Len(abc) = Len(ab) + Len(c)
      /\ \A k \in 1 .. Len(ab) + Len(c) : abc[k] = IF k <= Len(ab) THEN ab[k] ELSE c[k - Len(ab)]
  <2>1. ab \in Seq(Nat) /\ c \in Seq(Nat)
    BY <1>1
  <2> HIDE DEF ab
  <2>2. /\ ab \o c \in Seq(Nat) /\ Len(ab \o c) = Len(ab) + Len(c)
        /\ \A k \in 1 .. Len(ab) + Len(c) : (ab \o c)[k] = IF k <= Len(ab) THEN ab[k] ELSE c[k - Len(ab)]
    BY <2>1, ConcatProperties
  <2> QED BY <2>2
<1> HIDE DEF ab, abc
<1>3. \A k \in i .. j : abc[k] = b[k - Len(a)] /\ abc[k] \in Nat
  <2> TAKE k \in i .. j
  <2>1. k \in 1 .. Len(a) + Len(b) /\ ~(k <= Len(a)) /\ k - Len(a) \in 1 .. Len(b)
        /\ k \in 1 .. Len(ab) + Len(c) /\ k <= Len(ab)
    BY <1>1
  <2>2. abc[k] = b[k - Len(a)]
    BY <1>1, <1>2, <2>1
  <2> QED BY <1>1, <2>1, <2>2, ElementOfSeq
<1>4. i \in Int /\ j \in Int /\ (IF i <= j THEN j - i + 1 ELSE 0) = Len(b)
      /\ \A k \in 1 .. Len(b) : i + k - 1 \in i .. j /\ (i + k - 1) - Len(a) = k
  BY <1>1
<1> HIDE DEF i, j
<1>5. /\ s \in Seq(Nat) /\ Len(s) = Len(b)
      /\ \A k \in 1 .. Len(b) : s[k] = abc[i + k - 1]
  <2>1. /\ s \in Seq(Nat)
        /\ Len(s) = IF i <= j THEN j - i + 1 ELSE 0
        /\ \A k \in 1 .. j - i + 1 : s[k] = abc[i + k - 1]
    BY <1>3, <1>4, SubSeqProperties
  <2>2. \A k \in 1 .. Len(b) : k \in 1 .. j - i + 1
    BY <1>4
  <2> QED BY <1>4, <2>1, <2>2
<1>6. \A k \in 1 .. Len(b) : s[k] = b[k]
  BY <1>3, <1>4, <1>5
<1> HIDE DEF s
<1>7. s = b
  BY <1>1, <1>5, <1>6, SeqEqual
<1> QED BY <1>7 DEF s, i, j, abc, ab, Cutout

LEMMA EndCut ==
  ASSUME NEW a \in Result, NEW b \in Result
  PROVE  Cutout(a \o b, Len(a), Len(a \o b)) = b
<1>1. a \o b \in Result /\ Len(a \o b) = Len(a) + Len(b)
  BY ConcatFacts
<1>2. << >> \in Result /\ (a \o b) \o << >> = a \o b
  BY <1>1, EmptySeq, ConcatEmptySeq DEF Result
<1>3. Cutout((a \o b) \o << >>, Len(a), Len(a) + Len(b)) = b
  BY <1>2, MiddleCut
<1> QED BY <1>1, <1>2, <1>3

(* When something is looked for and nothing empty is found, a round copies *)
(* the text up to the match and the replacement, and goes on behind it.    *)
LEMMA SolidRound ==
  ASSUME Typed, Solid, NEW q \in 0 .. Len(t), NEW k \in Nat
  PROVE  /\ Round(q, k).go => /\ find[q] # NoMatch /\ ~Limited(k) /\ Round(q, k).p = find[q].eo
                              /\ Round(q, k).piece = Cutout(t, q, find[q].so) \o call.repl
                              /\ Round(q, k).piece \in Result
         /\ ~Round(q, k).go => find[q] = NoMatch \/ Limited(k)
<1> DEFINE m == find[q]
           along == IF Empty(m) /\ m.eo < Len(t) THEN m.eo + 1 ELSE m.eo
           go == /\ m # NoMatch /\ ~Limited(k)
                 /\ call.branch = "windows" => ~Empty(m)
                 /\ call.branch # "windows" => q < Len(t)
<1>1. /\ Round(q, k).go = go /\ Round(q, k).p = along
      /\ go => Round(q, k).piece = Cutout(t, q, m.so) \o call.repl \o Cutout(t, m.eo, along)
  BY DEF Round
<1>2. m = NoMatch \/ ~Empty(m)
  BY DEF Solid
<1>3. m # NoMatch => q < Len(t) /\ m.so \in q .. Len(t) /\ m.eo \in 0 .. Len(t)
  BY <1>2, FindFacts, CallFacts DEF Empty
<1>4. ASSUME go
      PROVE  Round(q, k).piece = Cutout(t, q, m.so) \o call.repl /\ Round(q, k).p = m.eo
  <2>1. /\ Round(q, k).p = m.eo
        /\ Round(q, k).piece = Cutout(t, q, m.so) \o call.repl \o Cutout(t, m.eo, m.eo)
    BY <1>1, <1>2, <1>4
  <2>2. m.so \in q .. Len(t) /\ m.eo \in 0 .. Len(t) /\ m.eo \in m.eo .. Len(t) /\ t \in Result
    BY <1>3, <1>4, CallFacts
  <2> HIDE DEF m
  <2>3. Cutout(t, q, m.so) \in Result
    BY <2>2, CutoutFacts
  <2>4. Cutout(t, m.eo, m.eo) = << >>
    BY <2>2, SubSeqEmpty DEF Cutout
  <2>5. Cutout(t, q, m.so) \o call.repl \in Result
    BY <2>3, CallFacts, ConcatFacts
  <2>6. (Cutout(t, q, m.so) \o call.repl) \o << >> = Cutout(t, q, m.so) \o call.repl
    BY <2>5, ConcatEmptySeq DEF Result
  <2> QED BY <2>1, <2>4, <2>6
<1>5. Round(q, k).piece \in Result
  BY RoundFacts
<1> QED BY <1>1, <1>2, <1>3, <1>4, <1>5

LEMMA ReplacedRight ==
  ASSUME Typed, Solid, NEW n \in Nat, NEW at, NEW txt, Replaced(at, txt, n),
         ~(call.branch = "posix" /\ call.n = 0 /\ find[0] = NoMatch)
  PROVE  ReplacesRight
<1>1. /\ matches = n /\ Trace(at, txt, n) /\ ~Round(at[n], n).go
      /\ out = txt[n] \o Round(at[n], n).piece
  BY DEF Replaced
<1>2. /\ at \in [0 .. n -> 0 .. Len(t)] /\ txt \in [0 .. n -> Result]
      /\ at[0] = 0 /\ txt[0] = << >>
      /\ \A k \in 0 .. n - 1 :
           /\ Round(at[k], k).go /\ at[k + 1] = Round(at[k], k).p
           /\ txt[k + 1] = txt[k] \o Round(at[k], k).piece
      /\ \A k \in 0 .. n : \A j \in 0 .. k : Extends(txt[j], txt[k])
  BY <1>1 DEF Trace
<1>3. /\ at[n] \in 0 .. Len(t) /\ txt[n] \in Result /\ n \in 0 .. n /\ 0 \in 0 .. n
      /\ call.n \in Nat /\ Len(t) \in Nat
  BY <1>2, CallFacts
<1>4. \A k \in 0 .. n - 1 :
        /\ find[at[k]] # NoMatch /\ ~Limited(k) /\ at[k + 1] = find[at[k]].eo
        /\ txt[k + 1] = txt[k] \o (Cutout(t, at[k], find[at[k]].so) \o call.repl)
        /\ Cutout(t, at[k], find[at[k]].so) \o call.repl \in Result
  <2> TAKE k \in 0 .. n - 1
  <2>1. k \in Nat /\ at[k] \in 0 .. Len(t)
    BY <1>2
  <2> QED BY <1>2, <2>1, SolidRound
<1>5. find[at[n]] = NoMatch \/ Limited(n)
  BY <1>1, <1>3, SolidRound
<1>6. CASE call.op # "replace"
  BY <1>6 DEF ReplacesRight
<1>7. CASE call.op = "replace"
  <2>1. call.n > 0 => n <= call.n
    <3>1. CASE n = 0
      BY <3>1, <1>3
    <3>2. CASE n > 0
      <4>1. ~Limited(n - 1)
        <5>1. n - 1 \in 0 .. n - 1
          BY <3>2
        <5> QED BY <1>4, <5>1
      <4> QED BY <1>3, <1>7, <3>2, <4>1 DEF Limited
    <3> QED BY <3>1, <3>2
  <2>2. Limited(n) <=> call.n > 0 /\ n = call.n
    BY <1>3, <1>7, <2>1 DEF Limited
  <2>3. find[at[n]] = NoMatch \/ n = call.n
    BY <1>5, <2>2
  <2>4. Rest(at[n]) \in Result
    <3>1. t \in Result /\ Len(t) \in at[n] .. Len(t)
      BY <1>3, CallFacts
    <3> QED BY <1>3, <3>1, CutoutFacts DEF Rest
  <2>5. Round(at[n], n).piece = Rest(at[n])
    <3>1. /\ call.branch # "posix" => Round(at[n], n).piece = Rest(at[n])
          /\ call.branch = "posix" =>
               Round(at[n], n).piece = (IF Limited(n) THEN << >> ELSE Rest(at[n]))
                                         \o (IF n = call.n THEN Rest(at[n]) ELSE << >>)
      BY <1>1 DEF Round
    <3>2. << >> \o Rest(at[n]) = Rest(at[n]) /\ Rest(at[n]) \o << >> = Rest(at[n])
      BY <2>4, ConcatEmptySeq DEF Result
    <3>3. call.branch = "posix" => (Limited(n) <=> n = call.n)
      <4>1. ASSUME call.branch = "posix", call.n = 0, n = 0
            PROVE  FALSE
        BY <4>1, <1>2, <2>2, <1>5
      <4> QED BY <1>3, <2>2, <4>1
    <3> QED BY <3>1, <3>2, <3>3
  <2> DEFINE upto == [k \in 0 .. n |-> Len(txt[k])]
  <2>6. out = txt[n] \o Rest(at[n]) /\ out \in Result
    BY <1>1, <1>3, <2>4, <2>5, ConcatFacts
  <2>7. ASSUME NEW k \in 0 .. n
        PROVE  /\ txt[k] \in Result /\ upto[k] = Len(txt[k]) /\ Len(txt[k]) \in Nat
               /\ Extends(txt[k], out) /\ Len(out) \in Nat /\ Len(txt[k]) <= Len(out)
    <3>1. txt[k] \in Result /\ Extends(txt[k], txt[n])
      BY <1>2, <1>3
    <3>2. Extends(txt[k], out)
      BY <3>1, <1>3, <2>4, <2>6, ExtendsProperties
    <3>3. Len(txt[k]) <= Len(out)
      BY <3>1, <3>2, ExtendsProperties
    <3> QED BY <3>1, <3>2, <3>3, <2>6, LenProperties DEF Result
  <2>8. upto \in [0 .. n -> 0 .. Len(out)]
    BY <2>7
  <2>9. upto[0] = 0 /\ Cutout(out, upto[n], Len(out)) = Rest(at[n])
    <3>1. upto[0] = Len(<< >>)
      BY <1>2, <1>3
    <3>2. Cutout(out, Len(txt[n]), Len(out)) = Rest(at[n])
      BY <1>3, <2>4, <2>6, EndCut
    <3> QED BY <1>3, <2>7, <3>1, <3>2, EmptySeq
  <2>10. \A k \in 0 .. n - 1 :
           /\ upto[k] <= upto[k + 1]
           /\ Cutout(out, upto[k], upto[k + 1]) = Cutout(t, at[k], find[at[k]].so) \o call.repl
    <3> TAKE k \in 0 .. n - 1
    <3> DEFINE b == Cutout(t, at[k], find[at[k]].so) \o call.repl
    <3>1. k \in 0 .. n /\ k + 1 \in 0 .. n
      OBVIOUS
    <3>2. txt[k + 1] = txt[k] \o b /\ b \in Result /\ txt[k] \in Result
      BY <1>4, <2>7, <3>1
    <3>3. PICK c \in Result : out = txt[k + 1] \o c
      BY <2>7, <3>1 DEF Extends
    <3>4. upto[k] = Len(txt[k]) /\ upto[k + 1] = Len(txt[k + 1])
      BY <2>7, <3>1
    <3> HIDE DEF b, upto
    <3>5. Len(txt[k + 1]) = Len(txt[k]) + Len(b) /\ Len(txt[k]) \in Nat /\ Len(b) \in Nat
      BY <3>2, ConcatFacts
    <3>6. Cutout((txt[k] \o b) \o c, Len(txt[k]), Len(txt[k]) + Len(b)) = b
      BY <3>2, MiddleCut
    <3>7. Cutout(out, upto[k], upto[k + 1]) = b
      BY <3>2, <3>3, <3>4, <3>5, <3>6
    <3>8. upto[k] <= upto[k + 1]
      BY <3>4, <3>5
    <3> QED BY <3>7, <3>8 DEF b
  <2> HIDE DEF upto
  <2> QED BY <1>1, <1>2, <1>4, <2>1, <2>3, <2>8, <2>9, <2>10 DEF ReplacesRight
<1> QED BY <1>6, <1>7
-----------------------------------------------------------------------------
(* A call that only looks makes no pass; only one pass goes astray, and    *)
(* only in one place.                                                      *)
GoesAstray ==
  /\ call.op = "look" => pc = "done"
  /\ pc = "astray" => /\ call.op = "split" /\ call.branch = "posix"
                      /\ find[Len(t)] # NoMatch /\ Empty(find[Len(t)])

PassesInv == Typed /\ Replacing /\ Splitting /\ GoesAstray

LEMMA PassesInvInit ==
  ASSUME Init
  PROVE  PassesInv
<1>1. Typed
  BY TypedInit
<1>2. GoesAstray
  BY DEF Init, GoesAstray
<1> QED BY <1>1, <1>2, ReplacingInit, SplittingInit DEF PassesInv

LEMMA PassesInvStep ==
  ASSUME PassesInv, [Next]_strings
  PROVE  PassesInv'
<1>1. Typed' /\ Replacing' /\ Splitting'
  BY TypedStep, ReplacingStep, SplittingStep DEF PassesInv
<1>2. GoesAstray'
  <2>1. call' = call /\ find' = find /\ t' = t
    BY StepsKeepCall, SameCall
  <2>2. ASSUME pc' = "astray", pc # "astray"
        PROVE  /\ call.op = "split" /\ call.branch = "posix" /\ p = Len(t)
               /\ find[p] # NoMatch /\ Empty(find[p])
    BY <2>2 DEF Next, strings, NothingToFind, MeasureSplit, FillSplit, SplitDone, MeasureReplace,
                MeasureRegexReplace, FillReplace, StartFill, Counted, PassesInv, Typed
  <2>3. ASSUME call.op = "look"
        PROVE  pc' = "done"
    BY <2>3 DEF Next, strings, NothingToFind, MeasureSplit, FillSplit, SplitDone, MeasureReplace,
                MeasureRegexReplace, FillReplace, PassesInv, GoesAstray
  <2> QED BY <2>1, <2>2, <2>3 DEF GoesAstray, PassesInv
<1> QED BY <1>1, <1>2 DEF PassesInv

LEMMA PassesInvAlways == Spec => []PassesInv
<1>1. Init => PassesInv
  BY PassesInvInit
<1>2. PassesInv /\ [Next]_strings => PassesInv'
  BY PassesInvStep
<1> QED BY <1>1, <1>2, PTL DEF Spec

(* The first pass of split and replace, literal, POSIX or Windows, counts  *)
(* exactly what the second fills in, and neither leaves the string but for *)
(* the POSIX split at an empty match at the end.                           *)
THEOREM PassesAgreeAlways == Spec => []PassesAgree
<1>1. ASSUME PassesInv
      PROVE  PassesAgree
  <2>1. Typed /\ Replacing /\ Splitting /\ GoesAstray
    BY <1>1 DEF PassesInv
  <2>2. p \in 0 .. Len(t) /\ (call.op \in {"split", "replace", "look"})
    BY <2>1, CallFacts DEF Typed
  <2>3. ASSUME pc = "fill", call.op = "replace"
        PROVE  Len(out) <= size
    <3>1. PICK n \in Nat : \E at, txt : Filled(at, txt, n)
      BY <2>1, <2>3 DEF Replacing
    <3>2. PICK at, txt : Filled(at, txt, n)
      BY <3>1
    <3>3. /\ Trace(at, txt, n) /\ matches \in 0 .. n /\ out = txt[matches] /\ n \in 0 .. n
          /\ size = Len(txt[n]) + Len(Round(at[n], n).piece)
      BY <3>2 DEF Filled
    <3>4. /\ at[n] \in 0 .. Len(t) /\ txt[n] \in Result /\ out \in Result
          /\ Extends(txt[matches], txt[n])
      BY <3>3 DEF Trace
    <3> DEFINE x == Len(out)
               y == Len(txt[n])
               z == Len(Round(at[n], n).piece)
    <3>5. x <= y /\ x \in Nat /\ y \in Nat /\ z \in Nat /\ size = y + z
      BY <2>1, <3>3, <3>4, ExtendsProperties, RoundFacts, LenProperties DEF Result
    <3> HIDE DEF x, y, z
    <3>6. x <= size
      BY <3>5
    <3> QED BY <3>6 DEF x
  <2>4. ASSUME pc = "done", call.op = "replace"
        PROVE  Len(out) = size
    BY <2>1, <2>4 DEF Replacing, Replaced
  <2>5. /\ pc = "fill" /\ call.op = "split" => Len(out) <= size
        /\ pc = "done" /\ call.op = "split" => Len(out) = size
    BY <2>1 DEF Splitting
  <2>6. ASSUME pc = "fill"
        PROVE  call.op # "look"
    BY <2>1, <2>6 DEF GoesAstray
  <2>7. pc = "fill" => Len(out) <= size
    <3> SUFFICES ASSUME pc = "fill"
                 PROVE  Len(out) <= size
      OBVIOUS
    <3>1. call.op = "replace" \/ call.op = "split"
      BY <2>2, <2>6
    <3>2. CASE call.op = "replace"
      BY <2>3, <3>2
    <3>3. CASE call.op = "split"
      BY <2>5, <3>3
    <3> QED BY <3>1, <3>2, <3>3
  <2>8. pc = "done" /\ call.op # "look" => Len(out) = size
    BY <2>2, <2>4, <2>5
  <2> QED BY <2>1, <2>2, <2>7, <2>8 DEF PassesAgree, GoesAstray
<1>2. PassesInv => PassesAgree
  BY <1>1
<1> QED BY <1>2, PassesInvAlways, PTL

(* What split and replace answer is right. *)
THEOREM ResultsRightAlways == Spec => []ResultsRight
<1>1. ASSUME PassesInv
      PROVE  ResultsRight
  <2>1. Typed /\ Replacing /\ Splitting
    BY <1>1 DEF PassesInv
  <2>2. SplitsRight
    BY <2>1 DEF Splitting, SplitsRight
  <2>3. ReplacesRight
    <3> SUFFICES ASSUME pc = "done", call.op = "replace", Solid,
                        ~(call.branch = "posix" /\ call.n = 0 /\ find[0] = NoMatch)
                 PROVE  ReplacesRight
      BY DEF ReplacesRight
    <3>1. ~NothingToReplace
      BY DEF Solid, NothingToReplace
    <3>2. PICK n \in Nat : \E at, txt : Replaced(at, txt, n)
      BY <2>1, <3>1 DEF Replacing
    <3> QED BY <2>1, <3>2, ReplacedRight
  <2> QED BY <2>2, <2>3 DEF ResultsRight
<1>2. PassesInv => ResultsRight
  BY <1>1
<1> QED BY <1>2, PassesInvAlways, PTL
=============================================================================
