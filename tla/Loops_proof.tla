---------------------------- MODULE Loops_proof ----------------------------
(***************************************************************************)
(* Lemmas about Loops, for bodies, lines and texts of any kind.            *)
(***************************************************************************)
EXTENDS Loops, Integers, WellFoundedInduction, NaturalsInduction, SequenceTheorems, TLAPS

---------------------------------------------------------------------------
(* Induction.  Every nonempty set of numbers has a least element, so a set *)
(* that has 0 and the successor of each of its numbers has all of them,    *)
(* and likewise for sequences, which grow at their end.                    *)

LEMMA Least ==
  ASSUME NEW T, T \subseteq Nat, T # {}
  PROVE  \E n \in T : \A m \in T : n <= m
<1>1. PICK n \in T : \A m \in T : ~(<<m, n>> \in OpToRel(<, Nat))
  BY NatLessThanWellFounded, WFMin, Zenon
<1>2. \A m \in T : ~(m < n)
  BY <1>1 DEF OpToRel
<1> QED BY <1>2

LEMMA Counting ==
  ASSUME NEW P, 0 \in P, \A n \in Nat : n \in P => n + 1 \in P
  PROVE  Nat \subseteq P
<1> SUFFICES ASSUME Nat \ P # {} PROVE FALSE
  OBVIOUS
<1>1. PICK n \in Nat \ P : \A m \in Nat \ P : n <= m
  <2> DEFINE T == Nat \ P
  <2>1. T \subseteq Nat /\ T # {}
    OBVIOUS
  <2> HIDE DEF T
  <2>2. \E n \in T : \A m \in T : n <= m
    BY <2>1, Least
  <2> QED BY <2>2 DEF T
<1>2. n # 0 /\ n - 1 \in Nat /\ n = (n - 1) + 1 /\ ~(n <= n - 1)
  BY <1>1
<1> QED BY <1>1, <1>2

LEMMA Growing ==
  ASSUME NEW B, NEW P, <<>> \in P,
         \A s \in Seq(B) : \A b \in B : s \in P => Append(s, b) \in P
  PROVE  Seq(B) \subseteq P
<1> DEFINE N == {n \in Nat : \A s \in Seq(B) : Len(s) = n => s \in P}
<1>1. 0 \in N
  BY EmptySeq
<1>2. ASSUME NEW n \in Nat, n \in N PROVE n + 1 \in N
  <2> SUFFICES ASSUME NEW s \in Seq(B), Len(s) = n + 1 PROVE s \in P
    OBVIOUS
  <2> DEFINE t == SubSeq(s, 1, n)
  <2>1. s[n + 1] \in B
    OBVIOUS
  <2>2. t \in Seq(B) /\ Len(t) = n
    OBVIOUS
  <2>3. s = Append(t, s[n + 1])
    OBVIOUS
  <2>4. t \in P
    BY <1>2, <2>2
  <2> HIDE DEF t
  <2> QED BY <2>1, <2>2, <2>3, <2>4
<1>3. Nat \subseteq N
  <2> HIDE DEF N
  <2> QED BY <1>1, <1>2, Counting
<1> QED BY <1>3

---------------------------------------------------------------------------
(* Loops.  The function a loop is defined by exists and there is but one;  *)
(* so a loop starts at its start, and one line more is one more turn.      *)

Bodies(A, B) == [B -> [A -> A]]
Turn(body, v, line) == body[line][v]

IsAfter(f, body, start, lines) ==
  f = [i \in 0..Len(lines) |-> IF i = 0 THEN start ELSE Turn(body, f[i - 1], lines[i])]

Turns(f, body, start, lines, n) ==
  f[0] = start /\ \A i \in 1..n : f[i] = Turn(body, f[i - 1], lines[i])

Runs(f, A, body, start, lines) ==
  /\ f \in [0..Len(lines) -> A]
  /\ Turns(f, body, start, lines, Len(lines))
  /\ Loop(body, start, lines) = f[Len(lines)]

LEMMA LoopIs ==
  ASSUME NEW body, NEW start, NEW lines
  PROVE  Loop(body, start, lines)
           = (CHOOSE f : IsAfter(f, body, start, lines))[Len(lines)]
BY Zenon DEF Loop, IsAfter, Turn

LEMMA AfterTurns ==
  ASSUME NEW B, NEW lines \in Seq(B), NEW body, NEW start, NEW f, IsAfter(f, body, start, lines)
  PROVE  Turns(f, body, start, lines, Len(lines))
<1> DEFINE g == [i \in 0..Len(lines) |-> IF i = 0 THEN start ELSE Turn(body, f[i - 1], lines[i])]
<1>1. f = g
  BY Zenon DEF IsAfter
<1>2. g[0] = start
  OBVIOUS
<1>3. \A i \in 1..Len(lines) : g[i] = Turn(body, f[i - 1], lines[i])
  OBVIOUS
<1> HIDE DEF g
<1> QED BY <1>1, <1>2, <1>3 DEF Turns

LEMMA TurnsAfter ==
  ASSUME NEW B, NEW lines \in Seq(B), NEW A, NEW body, NEW start,
         NEW f \in [0..Len(lines) -> A], Turns(f, body, start, lines, Len(lines))
  PROVE  IsAfter(f, body, start, lines)
<1>1. ASSUME NEW i \in 0..Len(lines)
      PROVE  f[i] = IF i = 0 THEN start ELSE Turn(body, f[i - 1], lines[i])
  <2>1. CASE i = 0
    BY <2>1 DEF Turns
  <2>2. CASE i # 0
    <3>1. i \in 1..Len(lines)
      BY <2>2
    <3> QED BY <3>1, <2>2 DEF Turns
  <2> QED BY <2>1, <2>2
<1> QED BY <1>1, Zenon DEF IsAfter

LEMMA TurnsSame ==
  ASSUME NEW body, NEW start, NEW lines, NEW n \in Nat, NEW f, NEW g,
         Turns(f, body, start, lines, n), Turns(g, body, start, lines, n)
  PROVE  \A i \in 0..n : f[i] = g[i]
<1> DEFINE P == {k \in Nat : k <= n => f[k] = g[k]}
<1>1. 0 \in P
  BY DEF Turns
<1>2. ASSUME NEW k \in Nat, k \in P PROVE k + 1 \in P
  <2> SUFFICES ASSUME k + 1 <= n PROVE f[k + 1] = g[k + 1]
    OBVIOUS
  <2>1. f[k] = g[k] /\ k + 1 \in 1..n /\ (k + 1) - 1 = k
    BY <1>2
  <2>2. f[k + 1] = Turn(body, f[k], lines[k + 1]) /\ g[k + 1] = Turn(body, g[k], lines[k + 1])
    BY <2>1 DEF Turns
  <2> QED BY <2>1, <2>2
<1>3. Nat \subseteq P
  <2> HIDE DEF P
  <2> QED BY <1>1, <1>2, Counting
<1> QED BY <1>3

\* What an induction over the lines shows of a loop's variables.
LEMMA TurnsExist ==
  ASSUME NEW A, NEW B, NEW body \in Bodies(A, B), NEW start \in A, NEW lines \in Seq(B)
  PROVE  \E f \in [0..Len(lines) -> A] : Turns(f, body, start, lines, Len(lines))
<1> DEFINE P == {k \in Nat : k <= Len(lines) => \E f \in [0..k -> A] : Turns(f, body, start, lines, k)}
<1>1. 0 \in P
  <2>1. [i \in 0..0 |-> start] \in [0..0 -> A] /\ Turns([i \in 0..0 |-> start], body, start, lines, 0)
    BY DEF Turns
  <2> QED BY <2>1
<1>2. ASSUME NEW k \in Nat, k \in P PROVE k + 1 \in P
  <2> SUFFICES ASSUME k + 1 <= Len(lines)
               PROVE  \E f \in [0..k + 1 -> A] : Turns(f, body, start, lines, k + 1)
    OBVIOUS
  <2>1. PICK f \in [0..k -> A] : Turns(f, body, start, lines, k)
    BY <1>2
  <2> DEFINE g == [i \in 0..k + 1 |-> IF i <= k THEN f[i] ELSE Turn(body, f[k], lines[k + 1])]
  <2>2. f[k] \in A /\ lines[k + 1] \in B
    OBVIOUS
  <2>3. Turn(body, f[k], lines[k + 1]) \in A
    BY <2>2 DEF Turn, Bodies
  <2>4. g \in [0..k + 1 -> A]
    BY <2>3
  <2>5. g[k + 1] = Turn(body, f[k], lines[k + 1]) /\ \A i \in 0..k : g[i] = f[i]
    OBVIOUS
  <2> HIDE DEF g
  <2>6. g[0] = start
    BY <2>1, <2>5 DEF Turns
  <2>7. ASSUME NEW i \in 1..k + 1 PROVE g[i] = Turn(body, g[i - 1], lines[i])
    <3>1. CASE i = k + 1
      <4>1. k \in 0..k /\ i - 1 = k
        BY <3>1
      <4> QED BY <3>1, <4>1, <2>5
    <3>2. CASE i # k + 1
      <4>1. i \in 1..k /\ i - 1 \in 0..k /\ i \in 0..k
        BY <3>2
      <4>2. f[i] = Turn(body, f[i - 1], lines[i])
        BY <2>1, <4>1 DEF Turns
      <4> QED BY <4>1, <4>2, <2>5
    <3> QED BY <3>1, <3>2
  <2> QED BY <2>4, <2>6, <2>7 DEF Turns
<1>3. Nat \subseteq P
  <2> HIDE DEF P
  <2> QED BY <1>1, <1>2, Counting
<1> QED BY <1>3

LEMMA LoopTurns ==
  ASSUME NEW A, NEW B, NEW body \in Bodies(A, B), NEW start \in A, NEW lines \in Seq(B)
  PROVE  \E f : Runs(f, A, body, start, lines)
<1>1. PICK f \in [0..Len(lines) -> A] : Turns(f, body, start, lines, Len(lines))
  BY TurnsExist
<1>2. IsAfter(f, body, start, lines)
  BY <1>1, TurnsAfter
<1> DEFINE g == CHOOSE h : IsAfter(h, body, start, lines)
<1>3. IsAfter(g, body, start, lines)
  BY <1>2
<1>4. Loop(body, start, lines) = g[Len(lines)]
  BY LoopIs, Zenon
<1> HIDE DEF g
<1>5. Turns(g, body, start, lines, Len(lines))
  BY <1>3, AfterTurns
<1>6. Len(lines) \in Nat
  OBVIOUS
<1>7. g[Len(lines)] = f[Len(lines)]
  BY <1>1, <1>5, <1>6, TurnsSame
<1> QED BY <1>1, <1>4, <1>7 DEF Runs

LEMMA LoopStart ==
  ASSUME NEW A, NEW B, NEW body \in Bodies(A, B), NEW start \in A
  PROVE  Loop(body, start, <<>>) = start
<1>1. <<>> \in Seq(B) /\ Len(<<>>) = 0
  BY EmptySeq
<1>2. PICK f : Runs(f, A, body, start, <<>>)
  BY <1>1, LoopTurns
<1> QED BY <1>1, <1>2 DEF Runs, Turns

LEMMA LoopIn ==
  ASSUME NEW A, NEW B, NEW body \in Bodies(A, B), NEW start \in A, NEW lines \in Seq(B)
  PROVE  Loop(body, start, lines) \in A
<1>1. PICK f : Runs(f, A, body, start, lines)
  BY LoopTurns
<1>2. Len(lines) \in 0..Len(lines)
  OBVIOUS
<1> QED BY <1>1, <1>2 DEF Runs

OneMore(body, start, lines, b) ==
  Loop(body, start, Append(lines, b)) = body[b][Loop(body, start, lines)]

LEMMA LoopTurn ==
  ASSUME NEW A, NEW B, NEW body \in Bodies(A, B), NEW start \in A, NEW lines \in Seq(B), NEW b \in B
  PROVE  OneMore(body, start, lines, b)
<1> DEFINE n == Len(lines)
           more == Append(lines, b)
<1>1. /\ more \in Seq(B) /\ Len(more) = n + 1 /\ n \in Nat
      /\ more[n + 1] = b /\ \A i \in 1..n : more[i] = lines[i]
  OBVIOUS
<1>2. PICK f : Runs(f, A, body, start, lines)
  BY LoopTurns
<1> HIDE DEF more
<1>3. PICK g : Runs(g, A, body, start, more)
  BY <1>1, LoopTurns
<1>4. Turns(f, body, start, lines, n) /\ Loop(body, start, lines) = f[n]
  BY <1>2 DEF Runs
<1> HIDE DEF n
<1>5. Turns(g, body, start, more, n + 1) /\ Loop(body, start, more) = g[n + 1]
  BY <1>1, <1>3 DEF Runs
<1>6. Turns(g, body, start, lines, n)
  <2>1. g[0] = start
    BY <1>5 DEF Turns
  <2>2. ASSUME NEW i \in 1..n PROVE g[i] = Turn(body, g[i - 1], lines[i])
    <3>1. i \in 1..n + 1 /\ more[i] = lines[i]
      BY <1>1
    <3> QED BY <1>5, <3>1 DEF Turns
  <2> QED BY <2>1, <2>2 DEF Turns
<1>7. g[n] = f[n]
  <2>1. n \in Nat
    BY <1>1
  <2>2. n \in 0..n
    BY <2>1
  <2> QED BY <1>4, <1>6, <2>1, <2>2, TurnsSame
<1>8. g[n + 1] = Turn(body, g[n], b)
  <2>1. n \in Nat
    BY <1>1
  <2>2. n + 1 \in 1..n + 1 /\ (n + 1) - 1 = n
    BY <2>1
  <2>3. g[n + 1] = Turn(body, g[(n + 1) - 1], more[n + 1])
    BY <1>5, <2>2 DEF Turns
  <2> QED BY <1>1, <2>2, <2>3
<1> QED BY <1>4, <1>5, <1>7, <1>8 DEF OneMore, more, Turn

---------------------------------------------------------------------------
(* Repeat: the number of turns instead of lines.                           *)

SameTurns(turn) == [i \in Nat |-> turn]
Numbers(n) == [i \in 1..n |-> i]

LEMMA RepeatIs ==
  ASSUME NEW turn, NEW start, NEW n
  PROVE  Repeat(turn, start, n) = Loop(SameTurns(turn), start, Numbers(n))
BY DEF Repeat, SameTurns, Numbers

LEMMA SameTurnsIn ==
  ASSUME NEW A, NEW turn \in [A -> A]
  PROVE  SameTurns(turn) \in Bodies(A, Nat) /\ \A n \in Nat : SameTurns(turn)[n] = turn
BY DEF Bodies, SameTurns

LEMMA NumbersGrow ==
  ASSUME NEW n \in Nat
  PROVE  Numbers(n) \in Seq(Nat) /\ Numbers(n + 1) = Append(Numbers(n), n + 1)
<1> DEFINE s == Numbers(n)
           t == Numbers(n + 1)
           u == Append(s, n + 1)
<1>1. /\ s \in Seq(Nat) /\ Len(s) = n /\ \A i \in 1..n : s[i] = i
      /\ t \in Seq(Nat) /\ Len(t) = n + 1 /\ \A i \in 1..(n + 1) : t[i] = i
  BY DEF Numbers
<1> HIDE DEF s, t
<1>2. u \in Seq(Nat) /\ Len(u) = n + 1 /\ \A i \in 1..(n + 1) : u[i] = t[i]
  BY <1>1
<1> HIDE DEF u
<1>3. u = t
  BY <1>1, <1>2, SeqEqual
<1> QED BY <1>1, <1>3 DEF s, t, u

LEMMA RepeatStart ==
  ASSUME NEW A, NEW turn \in [A -> A], NEW start \in A
  PROVE  Repeat(turn, start, 0) = start
<1> DEFINE body == SameTurns(turn)
<1>1. Numbers(0) = <<>>
  BY DEF Numbers
<1>2. Repeat(turn, start, 0) = Loop(body, start, <<>>)
  BY <1>1, RepeatIs
<1>3. body \in Bodies(A, Nat)
  BY SameTurnsIn
<1> HIDE DEF body
<1>4. Loop(body, start, <<>>) = start
  BY <1>3, LoopStart
<1> QED BY <1>2, <1>4

LEMMA RepeatIn ==
  ASSUME NEW A, NEW turn \in [A -> A], NEW start \in A, NEW n \in Nat
  PROVE  Repeat(turn, start, n) \in A
<1> DEFINE body == SameTurns(turn)
           s == Numbers(n)
<1>1. Repeat(turn, start, n) = Loop(body, start, s)
  BY RepeatIs
<1>2. body \in Bodies(A, Nat) /\ s \in Seq(Nat)
  BY SameTurnsIn, NumbersGrow
<1> HIDE DEF body, s
<1>3. Loop(body, start, s) \in A
  BY <1>2, LoopIn
<1> QED BY <1>1, <1>3

LEMMA RepeatTurn ==
  ASSUME NEW A, NEW turn \in [A -> A], NEW start \in A, NEW n \in Nat
  PROVE  Repeat(turn, start, n + 1) = turn[Repeat(turn, start, n)]
<1> DEFINE body == SameTurns(turn)
           s == Numbers(n)
<1>1. body \in Bodies(A, Nat) /\ body[n + 1] = turn
  BY SameTurnsIn
<1>2. s \in Seq(Nat) /\ Numbers(n + 1) = Append(s, n + 1)
  BY NumbersGrow
<1>3. Repeat(turn, start, n) = Loop(body, start, s) /\ Repeat(turn, start, n + 1) = Loop(body, start, Append(s, n + 1))
  BY <1>2, RepeatIs
<1> HIDE DEF body, s
<1>4. OneMore(body, start, s, n + 1)
  BY <1>1, <1>2, LoopTurn
<1> QED BY <1>1, <1>3, <1>4 DEF OneMore

---------------------------------------------------------------------------
(* Only: what it selects, line by line and of texts put together.          *)

OnlyBody(A, kept) ==
  [line \in A |-> [found \in Seq(A) |->
     IF line \in kept THEN Append(found, line) ELSE found]]

LEMMA OnlyBodyIn ==
  ASSUME NEW A, NEW kept
  PROVE  OnlyBody(A, kept) \in Bodies(Seq(A), A)
BY DEF OnlyBody, Bodies

LEMMA OnlyStart ==
  ASSUME NEW A, NEW kept
  PROVE  Only(A, <<>>, kept) = <<>>
<1>1. <<>> \in Seq(A)
  BY EmptySeq
<1>2. Loop(OnlyBody(A, kept), <<>>, <<>>) = <<>>
  BY <1>1, OnlyBodyIn, LoopStart
<1> QED BY <1>2 DEF Only, OnlyBody

LEMMA OnlyLines ==
  ASSUME NEW A, NEW kept, NEW text \in Seq(A)
  PROVE  Only(A, text, kept) \in Seq(A)
<1>1. <<>> \in Seq(A)
  BY EmptySeq
<1>2. Loop(OnlyBody(A, kept), <<>>, text) \in Seq(A)
  BY <1>1, OnlyBodyIn, LoopIn
<1> QED BY <1>2 DEF Only, OnlyBody

LEMMA OnlyTurn ==
  ASSUME NEW A, NEW kept, NEW text \in Seq(A), NEW line \in A
  PROVE  Only(A, Append(text, line), kept)
           = IF line \in kept THEN Append(Only(A, text, kept), line) ELSE Only(A, text, kept)
<1>1. <<>> \in Seq(A)
  BY EmptySeq
<1>2. Loop(OnlyBody(A, kept), <<>>, Append(text, line)) = OnlyBody(A, kept)[line][Loop(OnlyBody(A, kept), <<>>, text)]
  <2>1. OneMore(OnlyBody(A, kept), <<>>, text, line)
    BY <1>1, OnlyBodyIn, LoopTurn
  <2> QED BY <2>1 DEF OneMore
<1>3. Only(A, Append(text, line), kept) = OnlyBody(A, kept)[line][Only(A, text, kept)]
  <2>1. \A t : Only(A, t, kept) = Loop(OnlyBody(A, kept), <<>>, t)
    BY DEF Only, OnlyBody
  <2> QED BY <1>2, <2>1
<1>4. Only(A, text, kept) \in Seq(A)
  BY OnlyLines
<1> QED BY <1>3, <1>4 DEF OnlyBody

LEMMA OnlyIn ==
  ASSUME NEW A, NEW kept, NEW text \in Seq(A)
  PROVE  Only(A, text, kept) \in Seq(A \cap kept)
<1> DEFINE P == {t \in Seq(A) : Only(A, t, kept) \in Seq(A \cap kept)}
<1>1. <<>> \in P
  BY EmptySeq, OnlyStart
<1>2. ASSUME NEW t \in Seq(A), NEW line \in A, t \in P PROVE Append(t, line) \in P
  <2>1. Append(t, line) \in Seq(A)
    BY AppendProperties
  <2>2. CASE line \in kept
    <3>1. Append(Only(A, t, kept), line) \in Seq(A \cap kept)
      BY <1>2, <2>2, AppendProperties
    <3>2. Only(A, Append(t, line), kept) = Append(Only(A, t, kept), line)
      BY <2>2, OnlyTurn
    <3> QED BY <2>1, <3>1, <3>2
  <2>3. CASE line \notin kept
    BY <1>2, <2>1, <2>3, OnlyTurn
  <2> QED BY <2>2, <2>3
<1>3. Seq(A) \subseteq P
  <2> HIDE DEF P
  <2> QED BY <1>1, <1>2, Growing
<1> QED BY <1>3

LEMMA AppendConcat ==
  ASSUME NEW B, NEW s \in Seq(B), NEW t \in Seq(B), NEW b \in B
  PROVE  s \o Append(t, b) = Append(s \o t, b)
OBVIOUS

LEMMA OnlyConcat ==
  ASSUME NEW A, NEW kept, NEW s \in Seq(A), NEW text \in Seq(A)
  PROVE  Only(A, s \o text, kept) = Only(A, s, kept) \o Only(A, text, kept)
<1> DEFINE P == {t \in Seq(A) : Only(A, s \o t, kept) = Only(A, s, kept) \o Only(A, t, kept)}
<1>1. <<>> \in P
  <2>1. s \o <<>> = s /\ <<>> \in Seq(A)
    BY EmptySeq, ConcatEmptySeq
  <2>2. Only(A, s, kept) \o <<>> = Only(A, s, kept)
    BY OnlyLines, ConcatEmptySeq
  <2> QED BY <2>1, <2>2, OnlyStart
<1>2. ASSUME NEW t \in Seq(A), NEW line \in A, t \in P PROVE Append(t, line) \in P
  <2>1. Append(t, line) \in Seq(A) /\ s \o t \in Seq(A) /\ Only(A, s, kept) \in Seq(A)
        /\ Only(A, t, kept) \in Seq(A)
    BY AppendProperties, ConcatProperties, OnlyLines
  <2>2. s \o Append(t, line) = Append(s \o t, line)
    BY AppendConcat
  <2> DEFINE a == Only(A, s, kept)
             b == Only(A, t, kept)
             more == Append(t, line)
             all == s \o t
  <2>3. Only(A, all, kept) = a \o b
    BY <1>2
  <2>4. a \o Append(b, line) = Append(a \o b, line)
    <3>1. a \in Seq(A) /\ b \in Seq(A)
      BY <2>1
    <3> HIDE DEF a, b
    <3> QED BY <3>1, AppendConcat
  <2>5. Only(A, more, kept) = IF line \in kept THEN Append(b, line) ELSE b
    BY OnlyTurn
  <2>6. Only(A, Append(all, line), kept) = IF line \in kept THEN Append(Only(A, all, kept), line) ELSE Only(A, all, kept)
    <3>1. all \in Seq(A)
      BY <2>1
    <3> HIDE DEF all
    <3> QED BY <3>1, OnlyTurn
  <2>7. Only(A, s \o more, kept) = a \o Only(A, more, kept)
    <3> HIDE DEF a, b, all, more
    <3>1. CASE line \in kept
      BY <2>2, <2>3, <2>4, <2>5, <2>6, <3>1 DEF all, more
    <3>2. CASE line \notin kept
      BY <2>2, <2>3, <2>5, <2>6, <3>2 DEF all, more
    <3> QED BY <3>1, <3>2
  <2> QED BY <2>1, <2>7
<1>3. Seq(A) \subseteq P
  <2> HIDE DEF P
  <2> QED BY <1>1, <1>2, Growing
<1> QED BY <1>3

LEMMA OnlyAlike ==
  ASSUME NEW A, NEW a, NEW b, NEW T \in SUBSET A, T \cap a = T \cap b, NEW text \in Seq(T)
  PROVE  Only(A, text, a) = Only(A, text, b)
<1> DEFINE P == {t \in Seq(T) : Only(A, t, a) = Only(A, t, b)}
<1>1. <<>> \in P
  BY EmptySeq, OnlyStart
<1>2. ASSUME NEW t \in Seq(T), NEW line \in T, t \in P PROVE Append(t, line) \in P
  <2>1. Append(t, line) \in Seq(T) /\ t \in Seq(A) /\ line \in A
    BY AppendProperties, SeqMonotonic
  <2>2. line \in a <=> line \in b
    OBVIOUS
  <2>3. Only(A, t, a) = Only(A, t, b)
    BY <1>2
  <2>4. Only(A, Append(t, line), a) = Only(A, Append(t, line), b)
    <3>1. \A kept : Only(A, Append(t, line), kept) = IF line \in kept THEN Append(Only(A, t, kept), line) ELSE Only(A, t, kept)
      BY <2>1, OnlyTurn
    <3>2. CASE line \in a
      BY <2>2, <2>3, <3>1, <3>2
    <3>3. CASE line \notin a
      BY <2>2, <2>3, <3>1, <3>3
    <3> QED BY <3>2, <3>3
  <2> QED BY <2>1, <2>4
<1>3. Seq(T) \subseteq P
  <2> HIDE DEF P
  <2> QED BY <1>1, <1>2, Growing
<1> QED BY <1>3

LEMMA OnlyAll ==
  ASSUME NEW A, NEW kept, NEW text \in Seq(A \cap kept)
  PROVE  Only(A, text, kept) = text
<1> DEFINE T == A \cap kept
           P == {t \in Seq(T) : Only(A, t, kept) = t}
<1>1. <<>> \in P
  BY EmptySeq, OnlyStart
<1>2. ASSUME NEW t \in Seq(T), NEW line \in T, t \in P PROVE Append(t, line) \in P
  <2>1. Append(t, line) \in Seq(T) /\ t \in Seq(A)
    BY AppendProperties, SeqMonotonic
  <2> QED BY <1>2, <2>1, OnlyTurn
<1>3. Seq(T) \subseteq P
  <2> HIDE DEF P, T
  <2> QED BY <1>1, <1>2, Growing
<1> QED BY <1>3

LEMMA OnlyNone ==
  ASSUME NEW A, NEW kept, NEW text \in Seq(A \ kept)
  PROVE  Only(A, text, kept) = <<>>
<1> DEFINE T == A \ kept
           P == {t \in Seq(T) : Only(A, t, kept) = <<>>}
<1>1. <<>> \in P
  BY EmptySeq, OnlyStart
<1>2. ASSUME NEW t \in Seq(T), NEW line \in T, t \in P PROVE Append(t, line) \in P
  <2>1. Append(t, line) \in Seq(T) /\ t \in Seq(A)
    BY AppendProperties, SeqMonotonic
  <2> QED BY <1>2, <2>1, OnlyTurn
<1>3. Seq(T) \subseteq P
  <2> HIDE DEF P, T
  <2> QED BY <1>1, <1>2, Growing
<1> QED BY <1>3

LEMMA OnlyTwice ==
  ASSUME NEW A, NEW a, NEW b, NEW text \in Seq(A)
  PROVE  Only(A, Only(A, text, a), b) = Only(A, text, a \cap b)
<1> DEFINE P == {t \in Seq(A) : Only(A, Only(A, t, a), b) = Only(A, t, a \cap b)}
<1>1. <<>> \in P
  BY EmptySeq, OnlyStart
<1>2. ASSUME NEW t \in Seq(A), NEW line \in A, t \in P PROVE Append(t, line) \in P
  <2>1. Append(t, line) \in Seq(A) /\ Only(A, t, a) \in Seq(A)
    BY AppendProperties, OnlyLines
  <2>2. CASE line \in a
    <3>1. Only(A, Append(t, line), a) = Append(Only(A, t, a), line)
      BY <2>2, OnlyTurn
    <3>2. Only(A, Append(Only(A, t, a), line), b)
            = IF line \in b THEN Append(Only(A, Only(A, t, a), b), line) ELSE Only(A, Only(A, t, a), b)
      BY <2>1, OnlyTurn
    <3>3. Only(A, Append(t, line), a \cap b)
            = IF line \in b THEN Append(Only(A, t, a \cap b), line) ELSE Only(A, t, a \cap b)
      BY <2>2, OnlyTurn
    <3>4. Only(A, Only(A, Append(t, line), a), b) = Only(A, Append(t, line), a \cap b)
      BY <1>2, <3>1, <3>2, <3>3, Zenon
    <3> QED BY <2>1, <3>4
  <2>3. CASE line \notin a
    BY <1>2, <2>1, <2>3, OnlyTurn
  <2> QED BY <2>2, <2>3
<1>3. Seq(A) \subseteq P
  <2> HIDE DEF P
  <2> QED BY <1>1, <1>2, Growing
<1> QED BY <1>3

LEMMA OnlyEnd ==
  ASSUME NEW A, NEW kept, NEW line \in A, line \notin kept, NEW text \in Seq(A)
  PROVE  Only(A, text \o <<line>>, kept) = Only(A, text, kept)
<1>1. text \o <<line>> = Append(text, line)
  BY AppendIsConcat
<1>2. Only(A, Append(text, line), kept) = Only(A, text, kept)
  BY OnlyTurn
<1> QED BY <1>1, <1>2

LEMMA RangeAppend ==
  ASSUME NEW A, NEW s \in Seq(A), NEW a \in A
  PROVE  Range(Append(s, a)) = Range(s) \cup {a}
<1> DEFINE more == Append(s, a)
           n == Len(s)
<1>1. /\ more \in Seq(A) /\ Len(more) = n + 1 /\ n \in Nat
      /\ more[n + 1] = a /\ \A i \in 1..n : more[i] = s[i]
  OBVIOUS
<1>2. Range(s) = {s[i] : i \in 1..n}
  BY RangeEquality
<1> HIDE DEF more
<1>3. Range(more) = {more[i] : i \in 1..n + 1}
  BY <1>1, RangeEquality
<1> HIDE DEF n
<1>4. 1..n + 1 = (1..n) \cup {n + 1}
  BY <1>1
<1> QED BY <1>1, <1>2, <1>3, <1>4 DEF more

LEMMA RangeEmpty ==
  /\ Range(<<>>) = {}
  /\ \A A : \A s \in Seq(A) : s # <<>> => Range(s) # {}
<1>1. Range(<<>>) = {}
  BY DEF Range
<1>2. ASSUME NEW A, NEW s \in Seq(A), s # <<>> PROVE Range(s) # {}
  <2>1. Len(s) \in Nat /\ Len(s) # 0
    BY <1>2, EmptySeq
  <2>2. 1 \in 1..Len(s)
    BY <2>1
  <2> QED BY <2>2, RangeEquality
<1> QED BY <1>1, <1>2

LEMMA OnlyRange ==
  ASSUME NEW A, NEW kept, NEW text \in Seq(A)
  PROVE  Range(Only(A, text, kept)) = Range(text) \cap kept
<1> DEFINE P == {t \in Seq(A) : Range(Only(A, t, kept)) = Range(t) \cap kept}
<1>1. <<>> \in P
  BY EmptySeq, OnlyStart, RangeEmpty
<1>2. ASSUME NEW t \in Seq(A), NEW line \in A, t \in P PROVE Append(t, line) \in P
  <2> DEFINE found == Only(A, t, kept)
             more == Append(t, line)
  <2>1. more \in Seq(A) /\ found \in Seq(A) /\ Range(found) = Range(t) \cap kept
    BY <1>2, AppendProperties, OnlyLines
  <2>2. Only(A, more, kept) = IF line \in kept THEN Append(found, line) ELSE found
    BY OnlyTurn
  <2>3. Range(more) = Range(t) \cup {line}
    BY RangeAppend
  <2> HIDE DEF found
  <2>4. Range(Append(found, line)) = Range(found) \cup {line}
    BY <2>1, RangeAppend
  <2> HIDE DEF more
  <2>5. Range(Only(A, more, kept)) = Range(more) \cap kept
    <3>1. CASE line \in kept
      BY <2>1, <2>2, <2>3, <2>4, <3>1
    <3>2. CASE line \notin kept
      BY <2>1, <2>2, <2>3, <3>2
    <3> QED BY <3>1, <3>2
  <2> QED BY <2>1, <2>5 DEF more
<1>3. Seq(A) \subseteq P
  <2> HIDE DEF P
  <2> QED BY <1>1, <1>2, Growing
<1> QED BY <1>3

LEMMA CountIn ==
  ASSUME NEW A, NEW e, NEW text \in Seq(A)
  PROVE  Count(A, text, e) \in Nat
BY OnlyLines, LenProperties DEF Count

LEMMA CountTurn ==
  ASSUME NEW A, NEW e, NEW text \in Seq(A), NEW line \in A
  PROVE  Count(A, Append(text, line), e) = IF line = e THEN Count(A, text, e) + 1 ELSE Count(A, text, e)
<1>1. Only(A, text, {e}) \in Seq(A)
  BY OnlyLines
<1>2. CASE line = e
  <2>1. Only(A, Append(text, line), {e}) = Append(Only(A, text, {e}), line)
    BY <1>2, OnlyTurn
  <2>2. Len(Append(Only(A, text, {e}), line)) = Len(Only(A, text, {e})) + 1
    BY <1>1, AppendProperties
  <2> QED BY <1>2, <2>1, <2>2 DEF Count
<1>3. CASE line # e
  <2>1. Only(A, Append(text, line), {e}) = Only(A, text, {e})
    BY <1>3, OnlyTurn
  <2> QED BY <1>3, <2>1 DEF Count
<1> QED BY <1>2, <1>3

LEMMA CountConcat ==
  ASSUME NEW A, NEW e, NEW s \in Seq(A), NEW text \in Seq(A)
  PROVE  Count(A, s \o text, e) = Count(A, s, e) + Count(A, text, e)
<1> DEFINE a == Only(A, s, {e})
           b == Only(A, text, {e})
<1>1. a \in Seq(A) /\ b \in Seq(A) /\ Only(A, s \o text, {e}) = a \o b
  BY OnlyLines, OnlyConcat
<1> HIDE DEF a, b
<1>2. Len(a \o b) = Len(a) + Len(b)
  BY <1>1, ConcatProperties
<1> QED BY <1>1, <1>2 DEF Count, a, b

LEMMA CountNone ==
  ASSUME NEW A, NEW e, NEW text \in Seq(A)
  PROVE  Count(A, text, e) = 0 <=> e \notin Range(text)
<1> DEFINE found == Only(A, text, {e})
<1>1. found \in Seq(A) /\ Range(found) = Range(text) \cap {e}
  BY OnlyLines, OnlyRange
<1> HIDE DEF found
<1>2. Len(found) = 0 <=> found = <<>>
  BY <1>1, EmptySeq
<1>3. found = <<>> <=> Range(found) = {}
  BY <1>1, RangeEmpty
<1> QED BY <1>1, <1>2, <1>3 DEF Count, found

---------------------------------------------------------------------------
(* Stripped: the text without the blank lines at its end.                  *)

LEMMA Greatest ==
  ASSUME NEW n \in Nat, NEW T, T \subseteq 1..n, T # {}
  PROVE  \E i \in T : \A j \in T : j <= i
<1> DEFINE U == {k \in Nat : n - k \in T}
<1>1. U \subseteq Nat /\ U # {}
  <2>1. PICK i \in T : TRUE
    OBVIOUS
  <2>2. n - i \in Nat /\ n - (n - i) = i
    BY <2>1
  <2> QED BY <2>1, <2>2
<1> HIDE DEF U
<1>2. PICK k \in U : \A m \in U : k <= m
  BY <1>1, Least
<1> USE DEF U
<1>3. k \in Nat /\ n - k \in T
  OBVIOUS
<1>4. ASSUME NEW j \in T PROVE j <= n - k
  <2>1. j \in 1..n /\ n - j \in Nat /\ n - (n - j) = j
    OBVIOUS
  <2>2. n - j \in U
    BY <2>1
  <2>3. k <= n - j
    BY <1>2, <2>2
  <2> QED BY <1>3, <2>1, <2>3
<1> QED BY <1>3, <1>4

\* What the text is cut at.
CutAt(end, text, blank) ==
  /\ end \in 0..Len(text)
  /\ end # 0 => text[end] # blank
  /\ \A j \in 1..Len(text) : j > end => text[j] = blank

LEMMA StrippedAt ==
  ASSUME NEW A, NEW blank, NEW text \in Seq(A)
  PROVE  \E end : CutAt(end, text, blank) /\ Stripped(text, blank) = SubSeq(text, 1, end)
<1> DEFINE used == {i \in DOMAIN text : text[i] # blank}
           end == IF used = {} THEN 0 ELSE CHOOSE i \in used : \A j \in used : j <= i
           n == Len(text)
<1>1. n \in Nat /\ DOMAIN text = 1..n
  BY LenProperties
<1>2. Stripped(text, blank) = SubSeq(text, 1, end)
  BY Zenon DEF Stripped
<1> HIDE DEF n
<1>3. used \subseteq 1..n /\ \A i \in 1..n : i \notin used => text[i] = blank
  BY <1>1
<1>4. CASE used = {}
  <2>1. end = 0
    BY <1>4
  <2> HIDE DEF end, used
  <2>2. end \in 0..n /\ \A j \in 1..n : text[j] = blank
    BY <1>1, <1>3, <1>4, <2>1
  <2> QED BY <1>2, <2>1, <2>2 DEF CutAt, n
<1>5. CASE used # {}
  <2>1. \A i \in used : text[i] # blank
    OBVIOUS
  <2> HIDE DEF used
  <2>2. \E i \in used : \A j \in used : j <= i
    BY <1>1, <1>3, <1>5, Greatest
  <2>3. end \in used /\ \A j \in used : j <= end
    BY <1>5, <2>2
  <2> HIDE DEF end
  <2>4. end \in 0..n /\ text[end] # blank
    BY <1>1, <1>3, <2>1, <2>3
  <2>5. ASSUME NEW j \in 1..n, j > end PROVE text[j] = blank
    <3>1. ~(j <= end)
      BY <1>1, <2>4, <2>5
    <3> QED BY <1>3, <2>3, <3>1
  <2> QED BY <1>2, <2>4, <2>5 DEF CutAt, n
<1> QED BY <1>4, <1>5

\* text is x and some blank lines, and x does not end with one.
IsStripped(x, rest, text, blank) ==
  /\ rest \in Seq({blank}) /\ text = x \o rest
  /\ x # <<>> => x[Len(x)] # blank

LEMMA StrippedIs ==
  ASSUME NEW A, NEW blank \in A, NEW text \in Seq(A)
  PROVE  /\ Stripped(text, blank) \in Seq(A)
         /\ \E rest : IsStripped(Stripped(text, blank), rest, text, blank)
<1> DEFINE n == Len(text)
<1>1. n \in Nat /\ \A i \in 1..n : text[i] \in A
  BY LenProperties, ElementOfSeq
<1>2. PICK end : CutAt(end, text, blank) /\ Stripped(text, blank) = SubSeq(text, 1, end)
  BY StrippedAt
<1> DEFINE rest == SubSeq(text, end + 1, n)
<1>3. end \in 0..n /\ (end # 0 => text[end] # blank) /\ \A j \in 1..n : j > end => text[j] = blank
  BY <1>2 DEF CutAt
<1> HIDE DEF n
<1>4. /\ end \in 1 - 1..n /\ 1 \in Int /\ end \in Int /\ n \in Int /\ 1 \in 1..n + 1 /\ n \in end..n
      /\ end + 1 \in Int /\ \A i \in end + 1..n : i \in 1..n /\ i > end
  BY <1>1, <1>3
<1>5. text = SubSeq(text, 1, end) \o rest
  <2>1. SubSeq(text, 1, end) \o SubSeq(text, end + 1, n) = SubSeq(text, 1, n)
    BY <1>4, ConcatAdjacentSubSeq DEF n
  <2>2. SubSeq(text, 1, n) = text
    BY SubSeqFull DEF n
  <2> QED BY <2>1, <2>2
<1>6. /\ SubSeq(text, 1, end) \in Seq(A)
      /\ SubSeq(text, 1, end) # <<>> => SubSeq(text, 1, end)[Len(SubSeq(text, 1, end))] # blank
  <2>1. \A i \in 1..end : text[i] \in A
    BY <1>1, <1>3
  <2>2. CASE end = 0
    <3>1. SubSeq(text, 1, end) = <<>>
      BY <2>2
    <3> QED BY <3>1, EmptySeq
  <2>3. CASE end # 0
    <3>1. 1 <= end /\ end - 1 + 1 = end /\ end \in 1..end /\ 1 + end - 1 = end
      BY <1>3, <2>3
    <3>2. SubSeq(text, 1, end) \in Seq(A) /\ Len(SubSeq(text, 1, end)) = end
      BY <1>4, <2>1, <3>1, SubSeqProperties
    <3>3. SubSeq(text, 1, end)[end] = text[end]
      BY <1>4, <2>1, <3>1, SubSeqProperties
    <3> QED BY <1>3, <2>3, <3>2, <3>3
  <2> QED BY <2>2, <2>3
<1>7. rest \in Seq({blank})
  <2>1. \A i \in end + 1..n : text[i] \in {blank}
    BY <1>3, <1>4
  <2> QED BY <1>4, <2>1, SubSeqProperties
<1> HIDE DEF rest
<1> QED BY <1>2, <1>5, <1>6, <1>7 DEF IsStripped

LEMMA OnlyStripped ==
  ASSUME NEW A, NEW blank \in A, NEW text \in Seq(A), NEW kept, blank \notin kept
  PROVE  Only(A, Stripped(text, blank), kept) = Only(A, text, kept)
<1> DEFINE x == Stripped(text, blank)
<1>1. PICK rest : x \in Seq(A) /\ IsStripped(x, rest, text, blank)
  BY StrippedIs
<1> HIDE DEF x
<1>2. rest \in Seq(A) /\ rest \in Seq(A \ kept)
  BY <1>1, SeqMonotonic DEF IsStripped
<1>3. Only(A, rest, kept) = <<>>
  BY <1>2, OnlyNone
<1>4. Only(A, x \o rest, kept) = Only(A, x, kept) \o Only(A, rest, kept)
  BY <1>1, <1>2, OnlyConcat
<1>5. Only(A, x, kept) \o <<>> = Only(A, x, kept)
  BY <1>1, OnlyLines, ConcatEmptySeq
<1>6. text = x \o rest
  BY <1>1 DEF IsStripped
<1> QED BY <1>3, <1>4, <1>5, <1>6, Zenon DEF x

\* A text that does not end with a blank line is left as it is.
LEMMA StrippedFixed ==
  ASSUME NEW A, NEW blank, NEW text \in Seq(A), text # <<>> => text[Len(text)] # blank
  PROVE  Stripped(text, blank) = text
<1> DEFINE n == Len(text)
<1>1. n \in Nat /\ (text # <<>> => n \in 1..n) /\ (n = 0 => text = <<>>)
  BY LenProperties, EmptySeq
<1>2. PICK end : CutAt(end, text, blank) /\ Stripped(text, blank) = SubSeq(text, 1, end)
  BY StrippedAt
<1>3. end \in 0..n /\ \A j \in 1..n : j > end => text[j] = blank
  BY <1>2 DEF CutAt
<1>4. end = n
  <2> HIDE DEF n
  <2> SUFFICES ASSUME end # n PROVE FALSE
    OBVIOUS
  <2>1. n \in 1..n /\ n > end
    BY <1>1, <1>3
  <2>2. text # <<>>
    <3>1. n # 0
      BY <2>1
    <3> QED BY <3>1, EmptySeq DEF n
  <2> QED BY <1>3, <2>1, <2>2 DEF n
<1> QED BY <1>2, <1>4, SubSeqFull
=============================================================================
