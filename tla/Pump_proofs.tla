----------------------------- MODULE Pump_proofs -----------------------------
(***************************************************************************)
(* Proofs about the pump and the wire, over any commands, requests,        *)
(* buffers, widths and splits of the bytes, any number of restarts of the  *)
(* pump and any interrupts.                                                *)
(*                                                                         *)
(* What the wire's recursions compute is proved by induction: over a set   *)
(* of indices (UpTo), as the least one outside of it is reached by a step. *)
(***************************************************************************)
EXTENDS Pump, SequenceTheorems, FiniteSetTheorems, WellFoundedInduction, TLAPS

-----------------------------------------------------------------------------
(* Induction and recursion.                                                *)

LEMMA LeastNumber ==
    ASSUME NEW T \in SUBSET Nat, T # {}
    PROVE  \E m \in T : \A k \in T : m <= k
<1> DEFINE R == OpToRel(<, Nat)
<1>1. \A x, y \in Nat : x < y => <<x, y>> \in R
  BY DEF OpToRel
<1>2. IsWellFoundedOn(R, Nat)
  BY NatLessThanWellFounded
<1> HIDE DEF R
<1>3. PICK m \in T : \A y \in T : ~ (<<y, m>> \in R)
  BY <1>2, WFMin
<1>4. \A k \in T : ~(k < m)
  BY <1>1, <1>3
<1> QED
  BY <1>3, <1>4

\* Induction up to n, over a set.
LEMMA UpTo ==
    ASSUME NEW n \in Nat, NEW T, 0 \in T, \A i \in 1 .. n : i - 1 \in T => i \in T
    PROVE  0 .. n \subseteq T
<1> DEFINE U == (0 .. n) \ T
<1>1. CASE U = {}
  BY <1>1
<1>2. CASE U # {}
  <2>1. U \subseteq Nat
    OBVIOUS
  <2>2. PICK m \in U : \A k \in U : m <= k
    BY <1>2, <2>1, LeastNumber
  <2>3. m \in 1 .. n /\ m - 1 \in 0 .. n /\ m - 1 \notin U
    BY <2>2
  <2> QED
    BY <2>2, <2>3
<1> QED
  BY <1>1, <1>2

\* A recursion over 1 .. n has a result, if its steps stay in S.
Recursive(n, S, base, G) ==
    \E f \in [0 .. n -> S] : f[0] = base /\ \A i \in 1 .. n : f[i] = G[<<i, f[i - 1]>>]

LEMMA Recursion ==
    ASSUME NEW n \in Nat, NEW S, NEW base \in S, NEW G \in [(1 .. n) \X S -> S]
    PROVE  Recursive(n, S, base, G)
<1> DEFINE Upto(k, f) == /\ f \in [0 .. n -> S] /\ f[0] = base
                         /\ \A i \in 1 .. k : f[i] = G[<<i, f[i - 1]>>]
           T == {k \in 0 .. n : \E f : Upto(k, f)}
<1>1. 0 \in T
  <2>1. Upto(0, [i \in 0 .. n |-> base])
    OBVIOUS
  <2>2. \E f : Upto(0, f)
    <3> HIDE DEF Upto
    <3> QED
      BY <2>1
  <2> QED
    BY <2>2
<1>2. ASSUME NEW k \in 1 .. n, k - 1 \in T PROVE k \in T
  <2>1. PICK f : Upto(k - 1, f)
    BY <1>2
  <2>2. PICK x : x = G[<<k, f[k - 1]>>]
    OBVIOUS
  <2>3. x \in S
    BY <2>1, <2>2
  <2>4. PICK g : g = [f EXCEPT ![k] = x]
    OBVIOUS
  <2>5. /\ g \in [0 .. n -> S] /\ g[0] = base /\ g[k] = x /\ g[k - 1] = f[k - 1]
        /\ \A i \in 0 .. k - 1 : g[i] = f[i]
    BY <2>1, <2>3, <2>4
  <2>6. ASSUME NEW i \in 1 .. k PROVE g[i] = G[<<i, g[i - 1]>>]
    <3>1. CASE i = k
      BY <2>2, <2>5, <3>1
    <3>2. CASE i # k
      <4>1. i \in 1 .. k - 1 /\ i - 1 \in 0 .. k - 1 /\ i \in 0 .. k - 1
        BY <3>2
      <4> QED
        BY <2>1, <2>5, <4>1
    <3> QED
      BY <3>1, <3>2
  <2>7. Upto(k, g)
    BY <2>5, <2>6
  <2> QED
    BY <2>7
<1> HIDE DEF T
<1>3. n \in T
  BY <1>1, <1>2, UpTo
<1> QED
  BY <1>3 DEF T, Recursive

\* Two recursions that start alike and step alike agree.
Alike(n, f, g) == \A i \in 0 .. n : f[i] = g[i]

InStep(n, f, g) == f[0] = g[0] /\ \A i \in 1 .. n : f[i - 1] = g[i - 1] => f[i] = g[i]

LEMMA Agree ==
    ASSUME NEW n \in Nat, NEW f, NEW g, InStep(n, f, g)
    PROVE  Alike(n, f, g)
<1> DEFINE T == {i \in 0 .. n : f[i] = g[i]}
<1>1. 0 \in T /\ \A i \in 1 .. n : i - 1 \in T => i \in T
  BY DEF InStep
<1>2. 0 .. n \subseteq T
  <2> HIDE DEF T
  <2> QED
    BY <1>1, UpTo
<1> QED
  BY <1>2 DEF Alike

LEMMA MoreSeq == ASSUME NEW T, NEW S, T \subseteq S, NEW s \in Seq(T)
                 PROVE  s \in Seq(S)
OBVIOUS

\* A sequence is made by appending its elements.
LEMMA Appends ==
    ASSUME NEW S, NEW s \in Seq(S), NEW c \in S
    PROVE  /\ Append(s, c) \in Seq(S) /\ Len(Append(s, c)) = Len(s) + 1 /\ Len(s) \in Nat
           /\ \A i \in 1 .. Len(s) : Append(s, c)[i] = s[i] /\ s[i] \in S
           /\ Append(s, c)[Len(s) + 1] = c
OBVIOUS

LEMMA Beginnings ==
    ASSUME NEW S, NEW s \in Seq(S)
    PROVE  /\ Len(s) \in Nat /\ SubSeq(s, 1, 0) = <<>> /\ SubSeq(s, 1, Len(s)) = s
           /\ \A i \in 0 .. Len(s) : SubSeq(s, 1, i) \in Seq(S) /\ Len(SubSeq(s, 1, i)) = i
           /\ \A i \in 1 .. Len(s) : s[i] \in S /\ SubSeq(s, 1, i) = Append(SubSeq(s, 1, i - 1), s[i])
<1> PICK n \in Nat : n = Len(s)
  OBVIOUS
<1>1. SubSeq(s, 1, n) = s
  BY SubSeqFull
<1>2. SubSeq(s, 1, 0) = <<>>
  BY SubSeqEmpty
<1>3. \A i \in 0 .. n : SubSeq(s, 1, i) \in Seq(S) /\ Len(SubSeq(s, 1, i)) = i
  OBVIOUS
<1>4. ASSUME NEW i \in 1 .. n PROVE s[i] \in S /\ SubSeq(s, 1, i) = Append(SubSeq(s, 1, i - 1), s[i])
  OBVIOUS
<1> QED
  BY <1>1, <1>2, <1>3, <1>4

-----------------------------------------------------------------------------
(* Characters: the strings, among them those that the wire writes itself.  *)

Char == STRING \cup {" ", "-", "\n", Quote, Backslash, "true", "false"} \cup {Digits[i] : i \in 1 .. 16}

-----------------------------------------------------------------------------
(* Line assembly.                                                          *)

Assembled == [buf : Seq(Char), overflow : BOOLEAN]

LEMMA FeedOneType ==
    ASSUME NEW l \in Assembled, NEW c \in Char
    PROVE  FeedOne(l, c) \in Assembled
<1>1. l.buf \in Seq(Char) /\ Append(l.buf, c) \in Seq(Char)
  BY DEF Assembled
<1>2. [l EXCEPT !.buf = Append(@, c)] \in Assembled
  BY <1>1 DEF Assembled
<1>3. [l EXCEPT !.overflow = TRUE] \in Assembled
  BY DEF Assembled
<1> QED
  BY <1>2, <1>3, Zenon DEF FeedOne

\* rig_line_feed() of one byte more.
LEMMA FeedRuns ==
    ASSUME NEW l \in Assembled, NEW s \in Seq(Char)
    PROVE  \E f \in [0 .. Len(s) -> Assembled] :
              /\ f[0] = l
              /\ \A i \in 1 .. Len(s) : f[i] = FeedOne(f[i - 1], s[i])
              /\ Feed(l, s) = f[Len(s)]
<1> PICK n \in Nat : n = Len(s)
  OBVIOUS
<1>1. \A i \in 1 .. n : s[i] \in Char
  OBVIOUS
<1> DEFINE G == [p \in (1 .. n) \X Assembled |-> FeedOne(p[2], s[p[1]])]
           Recurs(f) == f = [i \in 0 .. n |-> IF i = 0 THEN l ELSE FeedOne(f[i - 1], s[i])]
           at == CHOOSE f : Recurs(f)
<1>2. G \in [(1 .. n) \X Assembled -> Assembled]
  BY <1>1, FeedOneType
<1>3. PICK F \in [(1 .. n) \X Assembled -> Assembled] : F = G
  BY <1>2
<1>4. l \in Assembled
  OBVIOUS
<1>5. PICK f \in [0 .. n -> Assembled] : f[0] = l /\ \A i \in 1 .. n : f[i] = F[<<i, f[i - 1]>>]
  <2>1. Recursive(n, Assembled, l, F)
    BY <1>4, Recursion, Zenon
  <2> QED
    BY <2>1, Zenon DEF Recursive
<1>6. \A i \in 1 .. n : f[i] = FeedOne(f[i - 1], s[i])
  <2> SUFFICES ASSUME NEW i \in 1 .. n PROVE f[i] = FeedOne(f[i - 1], s[i])
    OBVIOUS
  <2>1. f[i - 1] \in Assembled
    <3>1. i - 1 \in 0 .. n
      OBVIOUS
    <3> QED
      BY <1>5, <3>1, Zenon
  <2> QED
    BY <1>3, <1>5, <2>1
<1> HIDE DEF G
<1>7. Recurs(f)
  BY <1>5, <1>6
<1>8. Recurs(at)
  BY <1>7
<1>9. Feed(l, s) = at[n]
  BY DEF Feed
<1> HIDE DEF at
<1>10. at = f
  <2>1. at[0] = l /\ \A i \in 1 .. n : at[i] = FeedOne(at[i - 1], s[i])
    <3>1. PICK h : h = at
      OBVIOUS
    <3>2. h = [i \in 0 .. n |-> IF i = 0 THEN l ELSE FeedOne(h[i - 1], s[i])]
      BY <1>8, <3>1
    <3>3. h[0] = l /\ \A i \in 1 .. n : h[i] = FeedOne(h[i - 1], s[i])
      <4>1. \A i \in 0 .. n : h[i] = IF i = 0 THEN l ELSE FeedOne(h[i - 1], s[i])
        BY <3>2
      <4>2. 0 \in 0 .. n /\ \A i \in 1 .. n : i \in 0 .. n /\ i # 0
        OBVIOUS
      <4> QED
        BY <4>1, <4>2, Zenon
    <3> QED
      BY <3>1, <3>3
  <2>2. \A i \in 0 .. n : at[i] = f[i]
    <3>1. InStep(n, at, f)
      BY <1>5, <1>6, <2>1 DEF InStep
    <3>2. Alike(n, at, f)
      BY <3>1, Agree, Zenon
    <3> QED
      BY <3>2 DEF Alike
  <2> QED
    BY <1>8, <2>2
<1> QED
  BY <1>5, <1>6, <1>9, <1>10

LEMMA FeedSteps ==
    ASSUME NEW l \in Assembled, NEW s \in Seq(Char)
    PROVE  /\ Feed(l, s) \in Assembled
           /\ Feed(l, <<>>) = l
           /\ \A c \in Char : Feed(l, Append(s, c)) = FeedOne(Feed(l, s), c)
<1>1. PICK f \in [0 .. Len(s) -> Assembled] :
         /\ f[0] = l
         /\ \A i \in 1 .. Len(s) : f[i] = FeedOne(f[i - 1], s[i])
         /\ Feed(l, s) = f[Len(s)]
  BY FeedRuns
<1>2. Feed(l, <<>>) = l
  <2>1. <<>> \in Seq(Char) /\ Len(<<>>) = 0
    OBVIOUS
  <2>2. PICK g \in [0 .. Len(<<>>) -> Assembled] : g[0] = l /\ Feed(l, <<>>) = g[Len(<<>>)]
    BY <2>1, FeedRuns
  <2> QED
    BY <2>1, <2>2
<1>3. ASSUME NEW c \in Char PROVE Feed(l, Append(s, c)) = FeedOne(Feed(l, s), c)
  <2>1. PICK t \in Seq(Char) : t = Append(s, c)
    BY Appends
  <2>2. PICK g \in [0 .. Len(t) -> Assembled] :
           /\ g[0] = l
           /\ \A i \in 1 .. Len(t) : g[i] = FeedOne(g[i - 1], t[i])
           /\ Feed(l, t) = g[Len(t)]
    BY FeedRuns
  <2>3. PICK n \in Nat : n = Len(s)
    OBVIOUS
  <2>4. Len(t) = n + 1 /\ t[n + 1] = c /\ \A i \in 1 .. n : t[i] = s[i]
    BY <2>1, <2>3
  <2>5. \A i \in 0 .. n : g[i] = f[i]
    <3>1. \A i \in 1 .. n : g[i - 1] = f[i - 1] => g[i] = f[i]
      BY <1>1, <2>2, <2>3, <2>4
    <3>2. InStep(n, g, f)
      BY <1>1, <2>2, <3>1 DEF InStep
    <3>3. Alike(n, g, f)
      BY <3>2, Agree, Zenon
    <3> QED
      BY <3>3 DEF Alike
  <2>6. g[n] = Feed(l, s)
    BY <1>1, <2>3, <2>5
  <2>7. g[n + 1] = FeedOne(g[n], c)
    <3>1. PICK m \in 1 .. Len(t) : m = n + 1
      BY <2>4
    <3>2. g[m] = FeedOne(g[m - 1], t[m])
      BY <2>2
    <3>3. m - 1 = n /\ t[m] = c
      BY <2>4, <3>1
    <3> QED
      BY <3>1, <3>2, <3>3
  <2> QED
    BY <2>1, <2>2, <2>4, <2>6, <2>7
<1>4. Feed(l, s) \in Assembled
  <2>1. Len(s) \in 0 .. Len(s)
    OBVIOUS
  <2> QED
    BY <1>1, <2>1
<1> QED
  BY <1>2, <1>3, <1>4

Keep(s, c) == IF c \in {"\n", "\r"} THEN s ELSE Append(s, c)

LEMMA KeepType ==
    /\ <<>> \in Seq(Char)
    /\ \A s \in Seq(Char), c \in Char : Keep(s, c) \in Seq(Char)
<1>1. \A s \in Seq(Char), c \in Char : Append(s, c) \in Seq(Char)
  BY Appends
<1> QED
  BY <1>1 DEF Keep

\* What a line is without its end and its carriage returns.
LEMMA KeptRuns ==
    ASSUME NEW s \in Seq(Char)
    PROVE  \E f \in [0 .. Len(s) -> Seq(Char)] :
              /\ f[0] = <<>>
              /\ \A i \in 1 .. Len(s) : f[i] = Keep(f[i - 1], s[i])
              /\ Kept(s) = f[Len(s)]
<1> PICK n \in Nat : n = Len(s)
  OBVIOUS
<1>1. \A i \in 1 .. n : s[i] \in Char
  OBVIOUS
<1> DEFINE G == [p \in (1 .. n) \X Seq(Char) |-> Keep(p[2], s[p[1]])]
           Recurs(f) == f = [i \in 0 .. n |-> IF i = 0 THEN <<>> ELSE Keep(f[i - 1], s[i])]
           at == CHOOSE f : Recurs(f)
<1>2. G \in [(1 .. n) \X Seq(Char) -> Seq(Char)]
  BY <1>1, KeepType
<1>3. PICK F \in [(1 .. n) \X Seq(Char) -> Seq(Char)] : F = G
  BY <1>2
<1>4. <<>> \in Seq(Char)
  BY KeepType
<1>5. PICK f \in [0 .. n -> Seq(Char)] : f[0] = <<>> /\ \A i \in 1 .. n : f[i] = F[<<i, f[i - 1]>>]
  <2>1. Recursive(n, Seq(Char), <<>>, F)
    BY <1>4, Recursion, Zenon
  <2> QED
    BY <2>1, Zenon DEF Recursive
<1>6. \A i \in 1 .. n : f[i] = Keep(f[i - 1], s[i])
  <2> SUFFICES ASSUME NEW i \in 1 .. n PROVE f[i] = Keep(f[i - 1], s[i])
    OBVIOUS
  <2>1. f[i - 1] \in Seq(Char)
    <3>1. i - 1 \in 0 .. n
      OBVIOUS
    <3> QED
      BY <1>5, <3>1, Zenon
  <2> QED
    BY <1>3, <1>5, <2>1
<1> HIDE DEF G
<1>7. Recurs(f)
  BY <1>5, <1>6
<1>8. Recurs(at)
  BY <1>7
<1>9. Kept(s) = at[n]
  BY DEF Kept, Keep
<1> HIDE DEF at
<1>10. at = f
  <2>1. at[0] = <<>> /\ \A i \in 1 .. n : at[i] = Keep(at[i - 1], s[i])
    <3>1. PICK h : h = at
      OBVIOUS
    <3>2. h = [i \in 0 .. n |-> IF i = 0 THEN <<>> ELSE Keep(h[i - 1], s[i])]
      BY <1>8, <3>1
    <3>3. h[0] = <<>> /\ \A i \in 1 .. n : h[i] = Keep(h[i - 1], s[i])
      <4>1. \A i \in 0 .. n : h[i] = IF i = 0 THEN <<>> ELSE Keep(h[i - 1], s[i])
        BY <3>2
      <4>2. 0 \in 0 .. n /\ \A i \in 1 .. n : i \in 0 .. n /\ i # 0
        OBVIOUS
      <4> QED
        BY <4>1, <4>2, Zenon
    <3> QED
      BY <3>1, <3>3
  <2>2. \A i \in 0 .. n : at[i] = f[i]
    <3>1. InStep(n, at, f)
      BY <1>5, <1>6, <2>1 DEF InStep
    <3>2. Alike(n, at, f)
      BY <3>1, Agree, Zenon
    <3> QED
      BY <3>2 DEF Alike
  <2> QED
    BY <1>8, <2>2
<1> QED
  BY <1>5, <1>6, <1>9, <1>10

LEMMA KeptSteps ==
    ASSUME NEW s \in Seq(Char)
    PROVE  /\ Kept(s) \in Seq(Char)
           /\ Kept(<<>>) = <<>>
           /\ \A c \in Char : Kept(Append(s, c)) = Keep(Kept(s), c)
<1>1. PICK f \in [0 .. Len(s) -> Seq(Char)] :
         /\ f[0] = <<>>
         /\ \A i \in 1 .. Len(s) : f[i] = Keep(f[i - 1], s[i])
         /\ Kept(s) = f[Len(s)]
  BY KeptRuns
<1>2. Kept(<<>>) = <<>>
  <2>1. <<>> \in Seq(Char) /\ Len(<<>>) = 0
    OBVIOUS
  <2>2. PICK g \in [0 .. Len(<<>>) -> Seq(Char)] : g[0] = <<>> /\ Kept(<<>>) = g[Len(<<>>)]
    BY <2>1, KeptRuns
  <2> QED
    BY <2>1, <2>2
<1>3. ASSUME NEW c \in Char PROVE Kept(Append(s, c)) = Keep(Kept(s), c)
  <2>1. PICK t \in Seq(Char) : t = Append(s, c)
    BY Appends
  <2>2. PICK g \in [0 .. Len(t) -> Seq(Char)] :
           /\ g[0] = <<>>
           /\ \A i \in 1 .. Len(t) : g[i] = Keep(g[i - 1], t[i])
           /\ Kept(t) = g[Len(t)]
    BY KeptRuns
  <2>3. PICK n \in Nat : n = Len(s)
    OBVIOUS
  <2>4. Len(t) = n + 1 /\ t[n + 1] = c /\ \A i \in 1 .. n : t[i] = s[i]
    BY <2>1, <2>3
  <2>5. \A i \in 0 .. n : g[i] = f[i]
    <3>1. \A i \in 1 .. n : g[i - 1] = f[i - 1] => g[i] = f[i]
      BY <1>1, <2>2, <2>3, <2>4
    <3>2. InStep(n, g, f)
      BY <1>1, <2>2, <3>1 DEF InStep
    <3>3. Alike(n, g, f)
      BY <3>2, Agree, Zenon
    <3> QED
      BY <3>3 DEF Alike
  <2>6. g[n] = Kept(s)
    BY <1>1, <2>3, <2>5
  <2>7. g[n + 1] = Keep(g[n], c)
    <3>1. PICK m \in 1 .. Len(t) : m = n + 1
      BY <2>4
    <3>2. g[m] = Keep(g[m - 1], t[m])
      BY <2>2
    <3>3. m - 1 = n /\ t[m] = c
      BY <2>4, <3>1
    <3> QED
      BY <3>1, <3>2, <3>3
  <2> QED
    BY <2>1, <2>2, <2>4, <2>6, <2>7
<1>4. Kept(s) \in Seq(Char)
  <2>1. Len(s) \in 0 .. Len(s)
    OBVIOUS
  <2> QED
    BY <1>1, <2>1
<1> QED
  BY <1>2, <1>3, <1>4

-----------------------------------------------------------------------------
(* What the host writes.                                                   *)

Clean == Char \ Control

LEMMA Characters ==
    /\ {" ", "-", "\n", Quote, Backslash, "true", "false"} \subseteq Char
    /\ {" ", "-", Quote, Backslash, "true", "false"} \subseteq Clean
    /\ \A i \in 1 .. 16 : Digits[i] \in Clean
    /\ Clean \subseteq Char
<1>1. {" ", "-", "\n", Quote, Backslash, "true", "false"} \subseteq Char
  BY DEF Char
<1>2. {" ", "-", Quote, Backslash, "true", "false"} \cap Control = {}
  BY DEF Control, Quote, Backslash
<1>3. \A i \in 1 .. 16 : Digits[i] \in Char
  BY DEF Char
<1>4. \A i \in 1 .. 16 : Digits[i] \notin Control
  BY DEF Control, Digits
<1> QED
  BY <1>1, <1>2, <1>3, <1>4 DEF Clean

LEMMA Tuples ==
    ASSUME NEW S
    PROVE  /\ <<>> \in Seq(S) /\ Len(<<>>) = 0
           /\ \A a \in S : <<a>> \in Seq(S) /\ Len(<<a>>) = 1 /\ <<a>>[1] = a
           /\ \A a, b \in S : <<a, b>> \in Seq(S) /\ Len(<<a, b>>) = 2 /\ <<a, b>>[1] = a /\ <<a, b>>[2] = b
<1>1. <<>> \in Seq(S) /\ Len(<<>>) = 0
  OBVIOUS
<1>2. ASSUME NEW a \in S PROVE <<a>> \in Seq(S) /\ Len(<<a>>) = 1 /\ <<a>>[1] = a
  OBVIOUS
<1>3. ASSUME NEW a \in S, NEW b \in S
      PROVE  <<a, b>> \in Seq(S) /\ Len(<<a, b>>) = 2 /\ <<a, b>>[1] = a /\ <<a, b>>[2] = b
  <2>1. <<a, b>> \in Seq(S)
    OBVIOUS
  <2> QED
    BY <2>1
<1> QED
  BY <1>1, <1>2, <1>3

LEMMA Concatenated ==
    ASSUME NEW S, NEW s \in Seq(S), NEW t \in Seq(S)
    PROVE  /\ s \o t \in Seq(S) /\ Len(s \o t) = Len(s) + Len(t) /\ Len(s) \in Nat /\ Len(t) \in Nat
           /\ \A i \in 1 .. Len(s) : (s \o t)[i] = s[i]
           /\ \A i \in 1 .. Len(t) : (s \o t)[Len(s) + i] = t[i]
OBVIOUS

\* str.replace() on one character.
Escape(c, d) == IF c = d THEN <<Backslash, d>> ELSE <<c>>
Escaping(s, c, d) == s \o Escape(c, d)

LEMMA EscapeType ==
    ASSUME NEW d \in Clean
    PROVE  /\ <<>> \in Seq(Clean)
           /\ \A c \in Clean : Escape(c, d) \in Seq(Clean)
           /\ \A s \in Seq(Clean), c \in Clean : Escaping(s, c, d) \in Seq(Clean)
<1>1. \A c \in Clean : Escape(c, d) \in Seq(Clean)
  BY Tuples, Characters DEF Escape
<1> QED
  BY <1>1, Tuples, Concatenated DEF Escaping

\* The escapes of a string, character by character.
LEMMA PrefixedRuns ==
    ASSUME NEW d \in Clean, NEW s \in Seq(Clean)
    PROVE  \E f \in [0 .. Len(s) -> Seq(Clean)] :
              /\ f[0] = <<>>
              /\ \A i \in 1 .. Len(s) : f[i] = Escaping(f[i - 1], s[i], d)
              /\ Prefixed(s, d) = f[Len(s)]
<1> PICK n \in Nat : n = Len(s)
  OBVIOUS
<1>1. \A i \in 1 .. n : s[i] \in Clean
  OBVIOUS
<1> DEFINE G == [p \in (1 .. n) \X Seq(Clean) |-> Escaping(p[2], s[p[1]], d)]
           Recurs(f) == f = [i \in 0 .. n |-> IF i = 0 THEN <<>> ELSE Escaping(f[i - 1], s[i], d)]
           at == CHOOSE f : Recurs(f)
<1>2. G \in [(1 .. n) \X Seq(Clean) -> Seq(Clean)]
  BY <1>1, EscapeType
<1>3. PICK F \in [(1 .. n) \X Seq(Clean) -> Seq(Clean)] : F = G
  BY <1>2
<1>4. <<>> \in Seq(Clean)
  BY EscapeType
<1>5. PICK f \in [0 .. n -> Seq(Clean)] : f[0] = <<>> /\ \A i \in 1 .. n : f[i] = F[<<i, f[i - 1]>>]
  <2>1. Recursive(n, Seq(Clean), <<>>, F)
    BY <1>4, Recursion, Zenon
  <2> QED
    BY <2>1, Zenon DEF Recursive
<1>6. \A i \in 1 .. n : f[i] = Escaping(f[i - 1], s[i], d)
  <2> SUFFICES ASSUME NEW i \in 1 .. n PROVE f[i] = Escaping(f[i - 1], s[i], d)
    OBVIOUS
  <2>1. f[i - 1] \in Seq(Clean)
    <3>1. i - 1 \in 0 .. n
      OBVIOUS
    <3> QED
      BY <1>5, <3>1, Zenon
  <2> QED
    BY <1>3, <1>5, <2>1
<1> HIDE DEF G
<1>7. Recurs(f)
  BY <1>5, <1>6
<1>8. Recurs(at)
  BY <1>7
<1>9. Prefixed(s, d) = at[n]
  BY DEF Prefixed, Escaping, Escape
<1> HIDE DEF at
<1>10. at = f
  <2>1. at[0] = <<>> /\ \A i \in 1 .. n : at[i] = Escaping(at[i - 1], s[i], d)
    <3>1. PICK h : h = at
      OBVIOUS
    <3>2. h = [i \in 0 .. n |-> IF i = 0 THEN <<>> ELSE Escaping(h[i - 1], s[i], d)]
      BY <1>8, <3>1
    <3>3. h[0] = <<>> /\ \A i \in 1 .. n : h[i] = Escaping(h[i - 1], s[i], d)
      <4>1. \A i \in 0 .. n : h[i] = IF i = 0 THEN <<>> ELSE Escaping(h[i - 1], s[i], d)
        BY <3>2
      <4>2. 0 \in 0 .. n /\ \A i \in 1 .. n : i \in 0 .. n /\ i # 0
        OBVIOUS
      <4> QED
        BY <4>1, <4>2, Zenon
    <3> QED
      BY <3>1, <3>3
  <2>2. \A i \in 0 .. n : at[i] = f[i]
    <3>1. InStep(n, at, f)
      BY <1>5, <1>6, <2>1 DEF InStep
    <3>2. Alike(n, at, f)
      BY <3>1, Agree, Zenon
    <3> QED
      BY <3>2 DEF Alike
  <2> QED
    BY <1>8, <2>2
<1> QED
  BY <1>5, <1>6, <1>9, <1>10

LEMMA PrefixedSteps ==
    ASSUME NEW d \in Clean, NEW s \in Seq(Clean)
    PROVE  /\ Prefixed(s, d) \in Seq(Clean)
           /\ Prefixed(<<>>, d) = <<>>
           /\ \A c \in Clean : Prefixed(Append(s, c), d) = Escaping(Prefixed(s, d), c, d)
<1>1. PICK f \in [0 .. Len(s) -> Seq(Clean)] :
         /\ f[0] = <<>>
         /\ \A i \in 1 .. Len(s) : f[i] = Escaping(f[i - 1], s[i], d)
         /\ Prefixed(s, d) = f[Len(s)]
  BY PrefixedRuns
<1>2. Prefixed(<<>>, d) = <<>>
  <2>1. <<>> \in Seq(Clean) /\ Len(<<>>) = 0
    OBVIOUS
  <2>2. PICK g \in [0 .. Len(<<>>) -> Seq(Clean)] : g[0] = <<>> /\ Prefixed(<<>>, d) = g[Len(<<>>)]
    BY <2>1, PrefixedRuns
  <2> QED
    BY <2>1, <2>2
<1>3. ASSUME NEW c \in Clean PROVE Prefixed(Append(s, c), d) = Escaping(Prefixed(s, d), c, d)
  <2>1. PICK t \in Seq(Clean) : t = Append(s, c)
    BY Appends
  <2>2. PICK g \in [0 .. Len(t) -> Seq(Clean)] :
           /\ g[0] = <<>>
           /\ \A i \in 1 .. Len(t) : g[i] = Escaping(g[i - 1], t[i], d)
           /\ Prefixed(t, d) = g[Len(t)]
    BY PrefixedRuns
  <2>3. PICK n \in Nat : n = Len(s)
    OBVIOUS
  <2>4. Len(t) = n + 1 /\ t[n + 1] = c /\ \A i \in 1 .. n : t[i] = s[i]
    BY <2>1, <2>3
  <2>5. \A i \in 0 .. n : g[i] = f[i]
    <3>1. \A i \in 1 .. n : g[i - 1] = f[i - 1] => g[i] = f[i]
      BY <1>1, <2>2, <2>3, <2>4
    <3>2. InStep(n, g, f)
      BY <1>1, <2>2, <3>1 DEF InStep
    <3>3. Alike(n, g, f)
      BY <3>2, Agree, Zenon
    <3> QED
      BY <3>3 DEF Alike
  <2>6. g[n] = Prefixed(s, d)
    BY <1>1, <2>3, <2>5
  <2>7. g[n + 1] = Escaping(g[n], c, d)
    <3>1. PICK m \in 1 .. Len(t) : m = n + 1
      BY <2>4
    <3>2. g[m] = Escaping(g[m - 1], t[m], d)
      BY <2>2
    <3>3. m - 1 = n /\ t[m] = c
      BY <2>4, <3>1
    <3> QED
      BY <3>1, <3>2, <3>3
  <2> QED
    BY <2>1, <2>2, <2>4, <2>6, <2>7
<1>4. Prefixed(s, d) \in Seq(Clean)
  <2>1. Len(s) \in 0 .. Len(s)
    OBVIOUS
  <2> QED
    BY <1>1, <2>1
<1> QED
  BY <1>2, <1>3, <1>4

LEMMA AppendAsConcat ==
    ASSUME NEW S, NEW s \in Seq(S)
    PROVE  /\ \A a \in S : s \o <<a>> = Append(s, a)
           /\ \A a, b \in S : s \o <<a, b>> = Append(Append(s, a), b)
           /\ s \o <<>> = s /\ <<>> \o s = s
<1>1. ASSUME NEW a \in S PROVE s \o <<a>> = Append(s, a)
  OBVIOUS
<1>2. ASSUME NEW a \in S, NEW b \in S PROVE s \o <<a, b>> = Append(Append(s, a), b)
  <2>1. <<a, b>> \in Seq(S) /\ Len(<<a, b>>) = 2 /\ <<a, b>>[1] = a /\ <<a, b>>[2] = b
    BY Tuples
  <2>2. PICK t \in Seq(S) : t = <<a, b>>
    BY <2>1
  <2> QED
    BY <2>1, <2>2
<1>3. s \o <<>> = s /\ <<>> \o s = s
  OBVIOUS
<1> QED
  BY <1>1, <1>2, <1>3

\* The two passes of the escapes are one: a quote and a backslash get a backslash.
LEMMA EscapedSteps ==
    ASSUME NEW s \in Seq(Clean)
    PROVE  /\ Escaped(s) \in Seq(Clean)
           /\ Escaped(<<>>) = <<>>
           /\ \A c \in Clean : Escaped(Append(s, c)) =
                 Escaped(s) \o (IF c \in {Quote, Backslash} THEN <<Backslash, c>> ELSE <<c>>)
<1>1. Quote \in Clean /\ Backslash \in Clean /\ Quote # Backslash
  BY Characters DEF Quote, Backslash
<1>2. PICK once \in Seq(Clean) : once = Prefixed(s, Backslash)
  BY <1>1, PrefixedSteps
<1>3. PICK twice \in Seq(Clean) : twice = Prefixed(once, Quote)
  BY <1>1, PrefixedSteps
<1>4. Escaped(s) = twice
  BY <1>2, <1>3 DEF Escaped
<1>5. Escaped(<<>>) = <<>>
  BY <1>1, Tuples, PrefixedSteps DEF Escaped
<1>6. ASSUME NEW c \in Clean
      PROVE  Escaped(Append(s, c)) = twice \o (IF c \in {Quote, Backslash} THEN <<Backslash, c>> ELSE <<c>>)
  <2>1. Prefixed(Append(s, c), Backslash) = once \o Escape(c, Backslash)
    BY <1>1, <1>2, PrefixedSteps DEF Escaping
  <2>2. CASE c = Backslash
    <3>1. PICK more \in Seq(Clean) : more = Append(once, Backslash)
      BY <1>1, Appends
    <3>2. Prefixed(Append(s, c), Backslash) = Append(more, Backslash)
      BY <1>1, <2>1, <2>2, <3>1, AppendAsConcat DEF Escape
    <3>3. Prefixed(more, Quote) = twice \o <<Backslash>>
      BY <1>1, <1>3, <3>1, PrefixedSteps, ZenonT(60) DEF Escaping, Escape
    <3>4. Prefixed(Append(more, Backslash), Quote) = (twice \o <<Backslash>>) \o <<Backslash>>
      <4>1. Escape(Backslash, Quote) = <<Backslash>>
        BY <1>1 DEF Escape
      <4>2. Prefixed(Append(more, Backslash), Quote) = Prefixed(more, Quote) \o Escape(Backslash, Quote)
        BY <1>1, PrefixedSteps DEF Escaping
      <4> QED
        BY <3>3, <4>1, <4>2, Zenon
    <3>5. (twice \o <<Backslash>>) \o <<Backslash>> = twice \o <<Backslash, Backslash>>
      <4>1. twice \o <<Backslash>> = Append(twice, Backslash) /\ Append(twice, Backslash) \in Seq(Clean)
        BY <1>1, AppendAsConcat, Appends
      <4>2. Append(twice, Backslash) \o <<Backslash>> = Append(Append(twice, Backslash), Backslash)
        BY <1>1, <4>1, AppendAsConcat
      <4> QED
        BY <1>1, <4>1, <4>2, AppendAsConcat
    <3> QED
      BY <2>2, <3>2, <3>4, <3>5 DEF Escaped
  <2>3. CASE c # Backslash
    <3>1. Prefixed(Append(s, c), Backslash) = Append(once, c)
      BY <2>1, <2>3, AppendAsConcat DEF Escape
    <3>2. Prefixed(Append(once, c), Quote) = twice \o Escape(c, Quote)
      BY <1>1, <1>3, PrefixedSteps DEF Escaping
    <3> QED
      BY <2>3, <3>1, <3>2 DEF Escape, Escaped
  <2> QED
    BY <2>2, <2>3
<1> QED
  BY <1>3, <1>4, <1>5, <1>6

-----------------------------------------------------------------------------
(* Decimals.                                                               *)

LEMMA AllBelow ==
    ASSUME NEW n \in Nat, NEW T, \A i \in 0 .. n : 0 .. i - 1 \subseteq T => i \in T
    PROVE  0 .. n \subseteq T
<1> DEFINE U == (0 .. n) \ T
<1>1. CASE U = {}
  BY <1>1
<1>2. CASE U # {}
  <2>1. U \subseteq Nat
    OBVIOUS
  <2>2. PICK m \in U : \A k \in U : m <= k
    BY <1>2, <2>1, LeastNumber
  <2>3. \A i \in 0 .. m - 1 : i \in 0 .. n /\ i \notin U
    BY <2>1, <2>2
  <2> QED
    BY <2>2, <2>3
<1> QED
  BY <1>1, <1>2

LEMMA Division ==
    ASSUME NEW n \in Nat
    PROVE  /\ n % 10 \in 0 .. 9 /\ n \div 10 \in Nat
           /\ n = 10 * (n \div 10) + (n % 10)
           /\ n >= 10 => n \div 10 \in 1 .. n - 1
OBVIOUS

Digit == {Digits[i] : i \in 1 .. 10}

\* One step of str(int), given the results f for smaller numbers.
DecimalStep(n, f) == IF n < 10 THEN <<Digits[n + 1]>> ELSE Append(f[n \div 10], Digits[(n % 10) + 1])

LEMMA DecimalStepType ==
    ASSUME NEW n \in Nat, NEW f, n >= 10 => f[n \div 10] \in Seq(Digit)
    PROVE  DecimalStep(n, f) \in Seq(Digit)
<1>1. (n % 10) + 1 \in 1 .. 10 /\ (n < 10 => n + 1 \in 1 .. 10)
  BY Division
<1>2. Digits[(n % 10) + 1] \in Digit /\ (n < 10 => Digits[n + 1] \in Digit)
  BY <1>1 DEF Digit
<1>3. CASE n < 10
  BY <1>2, <1>3, Tuples DEF DecimalStep
<1>4. CASE n >= 10
  BY <1>2, <1>4, Appends DEF DecimalStep
<1> QED
  BY <1>3, <1>4

Decimals(n, f) == /\ f \in [0 .. n -> Seq(Digit)]
                  /\ \A i \in 0 .. n : f[i] = DecimalStep(i, f)

\* A step depends on smaller numbers only.
LEMMA DecimalLocal ==
    ASSUME NEW n \in Nat, NEW f, NEW g, n >= 10 => f[n \div 10] = g[n \div 10]
    PROVE  DecimalStep(n, f) = DecimalStep(n, g)
BY DEF DecimalStep

LEMMA DecimalsExist == ASSUME NEW n \in Nat PROVE \E f : Decimals(n, f)
<1> DEFINE T == {k \in 0 .. n : \E f : Decimals(k, f)}
<1>1. 0 \in T
  <2>1. PICK f : f = [i \in 0 .. 0 |-> DecimalStep(0, 0)]
    OBVIOUS
  <2>2. DecimalStep(0, 0) \in Seq(Digit) /\ DecimalStep(0, f) = DecimalStep(0, 0)
    <3>1. PICK n0 \in Nat : n0 = 0
      OBVIOUS
    <3>2. DecimalStep(n0, 0) \in Seq(Digit) /\ DecimalStep(n0, f) = DecimalStep(n0, 0)
      <4>1. ~(n0 >= 10)
        BY <3>1
      <4> QED
        BY <4>1, DecimalStepType, DecimalLocal
    <3> QED
      BY <3>1, <3>2
  <2>3. Decimals(0, f)
    BY <2>1, <2>2 DEF Decimals
  <2> QED
    BY <2>3
<1>2. ASSUME NEW k \in 1 .. n, k - 1 \in T PROVE k \in T
  <2>1. PICK f : Decimals(k - 1, f)
    BY <1>2
  <2>2. k >= 10 => k \div 10 \in 0 .. k - 1
    BY Division
  <2>3. PICK s \in Seq(Digit) : s = DecimalStep(k, f)
    BY <2>1, <2>2, DecimalStepType DEF Decimals
  <2>4. PICK g : g = [i \in 0 .. k |-> IF i = k THEN s ELSE f[i]]
    OBVIOUS
  <2>5. g[k] = s /\ \A i \in 0 .. k - 1 : g[i] = f[i]
    BY <2>4
  <2>6. g \in [0 .. k -> Seq(Digit)]
    <3>1. \A i \in 0 .. k : (IF i = k THEN s ELSE f[i]) \in Seq(Digit)
      BY <2>1 DEF Decimals
    <3> QED
      BY <2>4, <3>1
  <2>7. g[k] = DecimalStep(k, g)
    BY <2>2, <2>3, <2>5, DecimalLocal
  <2>8. ASSUME NEW i \in 0 .. k - 1 PROVE g[i] = DecimalStep(i, g)
    <3>1. i >= 10 => i \div 10 \in 0 .. k - 1
      BY Division
    <3>2. DecimalStep(i, g) = DecimalStep(i, f)
      BY <2>5, <3>1, DecimalLocal
    <3> QED
      BY <2>1, <2>5, <3>2 DEF Decimals
  <2>9. Decimals(k, g)
    BY <2>6, <2>7, <2>8 DEF Decimals
  <2> QED
    BY <2>9
<1> HIDE DEF T
<1>3. n \in T
  BY <1>1, <1>2, UpTo
<1> QED
  BY <1>3 DEF T

LEMMA DecimalsAgree ==
    ASSUME NEW m \in Nat, NEW n \in Nat, n <= m, NEW f, NEW g, Decimals(m, f), Decimals(n, g)
    PROVE  \A i \in 0 .. n : f[i] = g[i]
<1> DEFINE T == {i \in 0 .. n : f[i] = g[i]}
<1>1. ASSUME NEW i \in 0 .. n, 0 .. i - 1 \subseteq T PROVE i \in T
  <2>1. i >= 10 => i \div 10 \in 0 .. i - 1
    BY Division
  <2>2. i >= 10 => f[i \div 10] = g[i \div 10]
    BY <1>1, <2>1
  <2>3. DecimalStep(i, f) = DecimalStep(i, g)
    BY <2>2, DecimalLocal
  <2> QED
    BY <2>3 DEF Decimals
<1>2. 0 .. n \subseteq T
  <2> HIDE DEF T
  <2> QED
    BY <1>1, AllBelow
<1> QED
  BY <1>2

LEMMA DecimalSteps ==
    \A n \in Nat : Decimal[n] \in Seq(Digit) /\ Decimal[n] = DecimalStep(n, Decimal)
<1> DEFINE Recurs(f) == f = [n \in Nat |-> DecimalStep(n, f)]
           Upto(n) == CHOOSE f : Decimals(n, f)
           all == [n \in Nat |-> Upto(n)[n]]
<1>1. \A n \in Nat : Decimals(n, Upto(n))
  BY DecimalsExist
<1>2. ASSUME NEW n \in Nat PROVE all[n] \in Seq(Digit) /\ all[n] = DecimalStep(n, all)
  <2>1. all[n] = Upto(n)[n] /\ Decimals(n, Upto(n))
    BY <1>1
  <2>2. n >= 10 => all[n \div 10] = Upto(n)[n \div 10]
    <3> SUFFICES ASSUME n >= 10 PROVE all[n \div 10] = Upto(n)[n \div 10]
      OBVIOUS
    <3>1. PICK m \in Nat : m = n \div 10 /\ m <= n
      BY Division
    <3>2. all[m] = Upto(m)[m] /\ Decimals(m, Upto(m))
      BY <1>1
    <3> HIDE DEF Upto, all
    <3>3. Upto(n)[m] = Upto(m)[m]
      BY <2>1, <3>1, <3>2, DecimalsAgree
    <3> QED
      BY <3>1, <3>2, <3>3
  <2> HIDE DEF Upto, all
  <2>3. DecimalStep(n, all) = DecimalStep(n, Upto(n))
    BY <2>2, DecimalLocal
  <2>4. n \in 0 .. n
    OBVIOUS
  <2> QED
    BY <2>1, <2>3, <2>4 DEF Decimals
<1>3. Recurs(all)
  <2>1. DOMAIN all = Nat /\ all = [n \in Nat |-> all[n]]
    BY SMTT(30)
  <2> HIDE DEF all
  <2> QED
    BY <1>2, <2>1
<1>4. Recurs(Decimal)
  <2> HIDE DEF all
  <2>1. Recurs(CHOOSE f : Recurs(f))
    BY <1>3
  <2> QED
    BY <2>1 DEF Decimal, DecimalStep
<1>5. \A n \in Nat : Decimal[n] = DecimalStep(n, Decimal)
  BY <1>4
<1>6. ASSUME NEW n \in Nat PROVE Decimal[n] \in Seq(Digit)
  <2> DEFINE T == {i \in 0 .. n : Decimal[i] \in Seq(Digit)}
  <2>1. ASSUME NEW i \in 0 .. n, 0 .. i - 1 \subseteq T PROVE i \in T
    <3>1. i >= 10 => i \div 10 \in 0 .. i - 1
      BY Division
    <3>2. i >= 10 => Decimal[i \div 10] \in Seq(Digit)
      BY <2>1, <3>1
    <3>3. DecimalStep(i, Decimal) \in Seq(Digit)
      BY <3>2, DecimalStepType
    <3> QED
      BY <1>5, <3>3
  <2>2. 0 .. n \subseteq T
    <3> HIDE DEF T
    <3> QED
      BY <2>1, AllBelow
  <2> QED
    BY <2>2
<1> QED
  BY <1>5, <1>6

\* A character's weight as a digit, and the numbers that digits write.
LEMMA WeightOf ==
    ASSUME NEW i \in 1 .. 16
    PROVE  Weight(Digits[i]) = {i - 1}
<1>1. \A j, k \in 1 .. 16 : Digits[j] = Digits[k] => j = k
  BY DEF Digits
<1>2. \A j, k \in 1 .. 16 : Capitals[j] = Digits[k] => j = k
  BY DEF Digits, Capitals
<1> QED
  BY <1>1, <1>2 DEF Weight

WorthOf(c) == CHOOSE d \in Weight(c) : TRUE
Shift(base, n, c) == base * n + WorthOf(c)

LEMMA WorthOfDigit == ASSUME NEW i \in 1 .. 10 PROVE WorthOf(Digits[i]) = i - 1
BY WeightOf DEF WorthOf

LEMMA ShiftType ==
    ASSUME NEW base \in Nat
    PROVE  0 \in Nat /\ \A n \in Nat, c \in Digit : Shift(base, n, c) \in Nat
<1> SUFFICES ASSUME NEW n \in Nat, NEW c \in Digit PROVE Shift(base, n, c) \in Nat
  OBVIOUS
<1>1. WorthOf(c) \in Nat
  BY WorthOfDigit DEF Digit
<1>2. base * n \in Nat
  OBVIOUS
<1> QED
  BY <1>1, <1>2 DEF Shift

\* The digits of a number one by one.
LEMMA SizeRuns ==
    ASSUME NEW base \in Nat, NEW s \in Seq(Digit)
    PROVE  \E f \in [0 .. Len(s) -> Nat] :
              /\ f[0] = 0
              /\ \A i \in 1 .. Len(s) : f[i] = Shift(base, f[i - 1], s[i])
              /\ Size(base, s) = f[Len(s)]
<1> PICK n \in Nat : n = Len(s)
  OBVIOUS
<1>1. \A i \in 1 .. n : s[i] \in Digit
  OBVIOUS
<1> DEFINE G == [p \in (1 .. n) \X Nat |-> Shift(base, p[2], s[p[1]])]
           Recurs(f) == f = [i \in 0 .. n |-> IF i = 0 THEN 0 ELSE Shift(base, f[i - 1], s[i])]
           at == CHOOSE f : Recurs(f)
<1>2. G \in [(1 .. n) \X Nat -> Nat]
  BY <1>1, ShiftType
<1>3. PICK F \in [(1 .. n) \X Nat -> Nat] : F = G
  BY <1>2
<1>4. 0 \in Nat
  BY ShiftType
<1>5. PICK f \in [0 .. n -> Nat] : f[0] = 0 /\ \A i \in 1 .. n : f[i] = F[<<i, f[i - 1]>>]
  <2>1. Recursive(n, Nat, 0, F)
    BY <1>4, Recursion, Zenon
  <2> QED
    BY <2>1, Zenon DEF Recursive
<1>6. \A i \in 1 .. n : f[i] = Shift(base, f[i - 1], s[i])
  <2> SUFFICES ASSUME NEW i \in 1 .. n PROVE f[i] = Shift(base, f[i - 1], s[i])
    OBVIOUS
  <2>1. f[i - 1] \in Nat
    <3>1. i - 1 \in 0 .. n
      OBVIOUS
    <3> QED
      BY <1>5, <3>1, Zenon
  <2> QED
    BY <1>3, <1>5, <2>1
<1> HIDE DEF G
<1>7. Recurs(f)
  BY <1>5, <1>6
<1>8. Recurs(at)
  BY <1>7
<1>9. Size(base, s) = at[n]
  BY DEF Size, Shift, WorthOf
<1> HIDE DEF at
<1>10. at = f
  <2>1. at[0] = 0 /\ \A i \in 1 .. n : at[i] = Shift(base, at[i - 1], s[i])
    <3>1. PICK h : h = at
      OBVIOUS
    <3>2. h = [i \in 0 .. n |-> IF i = 0 THEN 0 ELSE Shift(base, h[i - 1], s[i])]
      BY <1>8, <3>1
    <3>3. h[0] = 0 /\ \A i \in 1 .. n : h[i] = Shift(base, h[i - 1], s[i])
      <4>1. \A i \in 0 .. n : h[i] = IF i = 0 THEN 0 ELSE Shift(base, h[i - 1], s[i])
        BY <3>2
      <4>2. 0 \in 0 .. n /\ \A i \in 1 .. n : i \in 0 .. n /\ i # 0
        OBVIOUS
      <4> QED
        BY <4>1, <4>2, Zenon
    <3> QED
      BY <3>1, <3>3
  <2>2. \A i \in 0 .. n : at[i] = f[i]
    <3>1. InStep(n, at, f)
      BY <1>5, <1>6, <2>1 DEF InStep
    <3>2. Alike(n, at, f)
      BY <3>1, Agree, Zenon
    <3> QED
      BY <3>2 DEF Alike
  <2> QED
    BY <1>8, <2>2
<1> QED
  BY <1>5, <1>6, <1>9, <1>10

LEMMA SizeSteps ==
    ASSUME NEW base \in Nat, NEW s \in Seq(Digit)
    PROVE  /\ Size(base, s) \in Nat
           /\ Size(base, <<>>) = 0
           /\ \A c \in Digit : Size(base, Append(s, c)) = Shift(base, Size(base, s), c)
<1>1. PICK f \in [0 .. Len(s) -> Nat] :
         /\ f[0] = 0
         /\ \A i \in 1 .. Len(s) : f[i] = Shift(base, f[i - 1], s[i])
         /\ Size(base, s) = f[Len(s)]
  BY SizeRuns
<1>2. Size(base, <<>>) = 0
  <2>1. <<>> \in Seq(Digit) /\ Len(<<>>) = 0
    OBVIOUS
  <2>2. PICK g \in [0 .. Len(<<>>) -> Nat] : g[0] = 0 /\ Size(base, <<>>) = g[Len(<<>>)]
    BY <2>1, SizeRuns
  <2> QED
    BY <2>1, <2>2
<1>3. ASSUME NEW c \in Digit PROVE Size(base, Append(s, c)) = Shift(base, Size(base, s), c)
  <2>1. PICK t \in Seq(Digit) : t = Append(s, c)
    BY Appends
  <2>2. PICK g \in [0 .. Len(t) -> Nat] :
           /\ g[0] = 0
           /\ \A i \in 1 .. Len(t) : g[i] = Shift(base, g[i - 1], t[i])
           /\ Size(base, t) = g[Len(t)]
    BY SizeRuns
  <2>3. PICK n \in Nat : n = Len(s)
    OBVIOUS
  <2>4. Len(t) = n + 1 /\ t[n + 1] = c /\ \A i \in 1 .. n : t[i] = s[i]
    BY <2>1, <2>3
  <2>5. \A i \in 0 .. n : g[i] = f[i]
    <3>1. \A i \in 1 .. n : g[i - 1] = f[i - 1] => g[i] = f[i]
      BY <1>1, <2>2, <2>3, <2>4
    <3>2. InStep(n, g, f)
      BY <1>1, <2>2, <3>1 DEF InStep
    <3>3. Alike(n, g, f)
      BY <3>2, Agree, Zenon
    <3> QED
      BY <3>3 DEF Alike
  <2>6. g[n] = Size(base, s)
    BY <1>1, <2>3, <2>5
  <2>7. g[n + 1] = Shift(base, g[n], c)
    <3>1. PICK m \in 1 .. Len(t) : m = n + 1
      BY <2>4
    <3>2. g[m] = Shift(base, g[m - 1], t[m])
      BY <2>2
    <3>3. m - 1 = n /\ t[m] = c
      BY <2>4, <3>1
    <3> QED
      BY <3>1, <3>2, <3>3
  <2> QED
    BY <2>1, <2>2, <2>4, <2>6, <2>7
<1>4. Size(base, s) \in Nat
  <2>1. Len(s) \in 0 .. Len(s)
    OBVIOUS
  <2> QED
    BY <1>1, <2>1
<1> QED
  BY <1>2, <1>3, <1>4

LEMMA SizeOfDecimal == ASSUME NEW n \in Nat PROVE Size(10, Decimal[n]) = n
<1> DEFINE T == {i \in 0 .. n : Size(10, Decimal[i]) = i}
<1>1. ASSUME NEW i \in 0 .. n, 0 .. i - 1 \subseteq T PROVE i \in T
  <2>1. Decimal[i] \in Seq(Digit) /\ Decimal[i] = DecimalStep(i, Decimal)
    BY DecimalSteps
  <2>2. CASE i < 10
    <3>1. Decimal[i] = <<Digits[i + 1]>> /\ i + 1 \in 1 .. 10
      BY <2>1, <2>2 DEF DecimalStep
    <3>2. Digits[i + 1] \in Digit
      BY <3>1 DEF Digit
    <3>3. <<>> \in Seq(Digit) /\ Append(<<>>, Digits[i + 1]) = <<Digits[i + 1]>>
      BY <3>2, Tuples, AppendAsConcat
    <3>4. Size(10, <<>>) = 0 /\ Size(10, Append(<<>>, Digits[i + 1])) = Shift(10, Size(10, <<>>), Digits[i + 1])
      BY <3>2, <3>3, SizeSteps
    <3>5. WorthOf(Digits[i + 1]) = i
      BY <3>1, WorthOfDigit
    <3> QED
      BY <3>1, <3>3, <3>4, <3>5 DEF Shift
  <2>3. CASE i >= 10
    <3>1. PICK q \in 0 .. i - 1, r \in 0 .. 9 : q = i \div 10 /\ r = i % 10 /\ i = 10 * q + r
      BY <2>3, Division
    <3>2. Decimal[i] = Append(Decimal[q], Digits[r + 1]) /\ r + 1 \in 1 .. 10
      BY <2>1, <2>3, <3>1 DEF DecimalStep
    <3>3. Digits[r + 1] \in Digit /\ Decimal[q] \in Seq(Digit)
      <4>1. q \in Nat
        OBVIOUS
      <4>2. Digits[r + 1] \in Digit
        BY <3>2 DEF Digit
      <4> QED
        BY <4>1, <4>2, DecimalSteps
    <3>4. Size(10, Append(Decimal[q], Digits[r + 1])) = Shift(10, Size(10, Decimal[q]), Digits[r + 1])
      BY <3>3, SizeSteps
    <3>5. WorthOf(Digits[r + 1]) = r /\ Size(10, Decimal[q]) = q
      BY <1>1, <3>1, <3>2, WorthOfDigit, SMTT(30)
    <3> QED
      BY <3>1, <3>2, <3>4, <3>5 DEF Shift
  <2> QED
    BY <2>2, <2>3
<1>2. 0 .. n \subseteq T
  <2> HIDE DEF T
  <2> QED
    BY <1>1, AllBelow
<1> QED
  BY <1>2

\* Its first digit: a zero for zero only, so that it is not taken for octal.
LEMMA DecimalShape ==
    ASSUME NEW n \in Nat
    PROVE  /\ Decimal[n] \in Seq(Digit) /\ Len(Decimal[n]) >= 1
           /\ Decimal[n][1] = "0" => n = 0
           /\ n = 0 => Decimal[n] = <<"0">>
<1>1. Digits[1] = "0" /\ \A i \in 2 .. 10 : Digits[i] # "0"
  BY DEF Digits
<1> DEFINE T == {i \in 0 .. n : Len(Decimal[i]) >= 1 /\ (Decimal[i][1] = "0" => i = 0)}
<1>2. ASSUME NEW i \in 0 .. n, 0 .. i - 1 \subseteq T PROVE i \in T
  <2>1. Decimal[i] \in Seq(Digit) /\ Decimal[i] = DecimalStep(i, Decimal)
    BY DecimalSteps
  <2>2. CASE i < 10
    <3>1. Decimal[i] = <<Digits[i + 1]>> /\ i + 1 \in 1 .. 10
      BY <2>1, <2>2 DEF DecimalStep
    <3>2. Len(Decimal[i]) = 1 /\ Decimal[i][1] = Digits[i + 1]
      BY <3>1
    <3>3. PICK k \in 1 .. 10 : k = i + 1
      BY <3>1
    <3>4. Digits[k] = "0" => k = 1
      BY <1>1
    <3> QED
      BY <3>2, <3>3, <3>4
  <2>3. CASE i >= 10
    <3>1. PICK q \in 1 .. i - 1 : q = i \div 10
      BY <2>3, Division
    <3>2. q \in T /\ Decimal[q] \in Seq(Digit)
      BY <1>2, <3>1, DecimalSteps
    <3>3. PICK c \in Digit : Decimal[i] = Append(Decimal[q], c)
      <4>1. (i % 10) + 1 \in 1 .. 10
        BY Division
      <4>2. Digits[(i % 10) + 1] \in Digit
        BY <4>1 DEF Digit
      <4> QED
        BY <2>1, <2>3, <3>1, <4>2, SMTT(30) DEF DecimalStep
    <3>4. Len(Decimal[i]) >= 1 /\ Decimal[i][1] = Decimal[q][1]
      BY <3>2, <3>3, Appends
    <3> QED
      BY <3>1, <3>2, <3>4
  <2> QED
    BY <2>2, <2>3
<1>3. 0 .. n \subseteq T
  <2> HIDE DEF T
  <2> QED
    BY <1>2, AllBelow
<1>4. n = 0 => Decimal[n] = <<"0">>
  <2> SUFFICES ASSUME n = 0 PROVE Decimal[n] = <<"0">>
    OBVIOUS
  <2>1. n < 10 /\ n + 1 = 1 /\ Decimal[n] = DecimalStep(n, Decimal)
    BY DecimalSteps
  <2>2. Decimal[n] = <<Digits[n + 1]>>
    BY <2>1 DEF DecimalStep
  <2> QED
    BY <1>1, <2>1, <2>2
<1> QED
  BY <1>3, <1>4, DecimalSteps

LEMMA NothingSkipped ==
    ASSUME NEW S, NEW s \in Seq(S), s # <<>>, NEW chars, s[1] \notin chars
    PROVE  Without(s, chars) = s
<1> DEFINE others == {i \in DOMAIN s : s[i] \notin chars}
<1>1. 1 \in others /\ \A i \in others : i \in Nat /\ 1 <= i
  OBVIOUS
<1>2. Min(others) = 1
  <2> HIDE DEF others
  <2> QED
    BY <1>1 DEF Min
<1>3. SubSeq(s, 1, Len(s)) = s
  BY SubSeqFull
<1> HIDE DEF others
<1>4. Without(s, chars) = IF others = {} THEN <<>> ELSE SubSeq(s, Min(others), Len(s))
  BY DEF Without, others
<1> QED
  BY <1>1, <1>2, <1>3, <1>4

Readable(s) == /\ Base(s) # 16 /\ s # <<>>
               /\ \A i \in DOMAIN s : Weight(s[i]) \cap 0 .. (Base(s) - 1) # {}

LEMMA NotHex == ASSUME NEW s, Readable(s) PROVE Unsigned(s) = {Size(Base(s), s)}
BY DEF Unsigned, Readable

\* What str() of an integer writes, strtoll() reads.
LEMMA DecimalRead ==
    ASSUME NEW n \in Nat
    PROVE  Unsigned(Decimal[n]) = {n}
<1> PICK rest : rest = Decimal[n]
  OBVIOUS
<1>1. /\ rest \in Seq(Digit) /\ Len(rest) >= 1 /\ rest # <<>>
      /\ rest[1] = "0" => n = 0
      /\ n = 0 => rest = <<"0">>
  BY DecimalShape
<1>2. CASE n # 0
  <2>1. rest[1] # "0"
    BY <1>1, <1>2
  <2>2. Base(rest) = 10
    BY <1>1, <2>1 DEF Base
  <2>3. ASSUME NEW i \in DOMAIN rest PROVE Weight(rest[i]) \cap 0 .. 9 # {}
    <3>1. rest[i] \in Digit
      BY <1>1
    <3>2. PICK k \in 1 .. 10 : rest[i] = Digits[k]
      BY <3>1 DEF Digit
    <3>3. Weight(rest[i]) = {k - 1} /\ k - 1 \in 0 .. 9
      <4>1. k \in 1 .. 16 /\ k - 1 \in 0 .. 9
        OBVIOUS
      <4> QED
        BY <3>2, <4>1, WeightOf
    <3> QED
      BY <3>3
  <2> QED
    <3>1. \A i \in DOMAIN rest : Weight(rest[i]) \cap 0 .. (Base(rest) - 1) # {}
      BY <2>2, <2>3
    <3>2. Unsigned(rest) = {Size(Base(rest), rest)}
      <4>1. Readable(rest)
        BY <1>1, <2>2, <3>1 DEF Readable
      <4> QED
        BY <4>1, NotHex, Zenon
    <3> QED
      BY <2>2, <3>2, SizeOfDecimal
<1>3. CASE n = 0
  <2>1. rest = <<"0">> /\ Len(rest) = 1 /\ DOMAIN rest = 1 .. 1 /\ rest[1] = "0"
    <3>1. rest = <<"0">>
      BY <1>1, <1>3
    <3>2. Len(rest) = 1 /\ rest[1] = "0"
      BY <3>1
    <3> QED
      BY <1>1, <3>1, <3>2
  <2>2. Base(rest) = 8
    BY <1>1, <2>1 DEF Base
  <2>3. Digits[1] = "0" /\ "0" \in Digit
    BY DEF Digit, Digits
  <2>4. Weight("0") = {0} /\ WorthOf("0") = 0
    BY <2>3, WeightOf, WorthOfDigit
  <2>5. Size(8, rest) = 0
    <3>1. <<>> \in Seq(Digit) /\ Append(<<>>, "0") = <<"0">>
      BY <2>3, Tuples, AppendAsConcat
    <3>2. Size(8, <<>>) = 0 /\ Size(8, Append(<<>>, "0")) = Shift(8, Size(8, <<>>), "0")
      BY <2>3, <3>1, SizeSteps
    <3> QED
      BY <2>1, <2>4, <3>1, <3>2 DEF Shift
  <2>6. 0 \in Weight("0") \cap 0 .. 7
    BY <2>4
  <2> QED
    <3>1. \A i \in DOMAIN rest : Weight(rest[i]) \cap 0 .. (8 - 1) # {}
      BY <2>1, <2>6
    <3> QED
      <4>1. \A i \in DOMAIN rest : Weight(rest[i]) \cap 0 .. (Base(rest) - 1) # {}
        BY <2>2, <3>1
      <4>2. Unsigned(rest) = {Size(Base(rest), rest)}
        <5>1. Readable(rest)
          BY <1>1, <2>2, <4>1 DEF Readable
        <5> QED
          BY <5>1, NotHex, Zenon
      <4> QED
        BY <1>3, <2>2, <2>5, <4>2
<1> QED
  BY <1>2, <1>3

-----------------------------------------------------------------------------
(* The tokenizer.                                                          *)

Modes == {"gap", "bare", "quoted", "escape", "closed", "comment", "many", "garbage"}
InToken == {"bare", "quoted", "escape", "closed"}
Scanning == {t \in [slots : Seq(Seq(Char)), mode : Modes] : t.mode \in InToken => t.slots # <<>>}

LEMMA SetLast ==
    ASSUME NEW S, NEW q \in Seq(S), q # <<>>, NEW x \in S
    PROVE  /\ [q EXCEPT ![Len(q)] = x] \in Seq(S)
           /\ Len([q EXCEPT ![Len(q)] = x]) = Len(q)
           /\ Len(q) \in Nat /\ Len(q) >= 1 /\ q[Len(q)] \in S
           /\ [q EXCEPT ![Len(q)] = x] # <<>>
           /\ [q EXCEPT ![Len(q)] = x][Len(q)] = x
           /\ \A i \in 1 .. Len(q) - 1 : [q EXCEPT ![Len(q)] = x][i] = q[i]
<1>1. PICK n \in Nat : n = Len(q) /\ n >= 1
  BY EmptySeq
<1>2. PICK r : r = [q EXCEPT ![n] = x]
  OBVIOUS
<1>3. n \in 1 .. Len(q)
  BY <1>1
<1>4. r \in Seq(S) /\ Len(r) = n /\ \A j \in 1 .. n : r[j] = IF j = n THEN x ELSE q[j]
  BY <1>1, <1>2, <1>3, ExceptSeq
<1>5. r # <<>> /\ r[n] = x /\ q[n] \in S /\ \A j \in 1 .. n - 1 : r[j] = q[j]
  BY <1>1, <1>4
<1> QED
  BY <1>1, <1>2, <1>4, <1>5

\* The token being read grows.
LEMMA ExtendGrows ==
    ASSUME NEW t \in Scanning, t.slots # <<>>, NEW s \in Seq(Char), NEW mode \in Modes
    PROVE  /\ Extend(t, s, mode) \in Scanning
           /\ Extend(t, s, mode).mode = mode
           /\ Extend(t, s, mode).slots # <<>>
           /\ Len(Extend(t, s, mode).slots) = Len(t.slots)
           /\ Extend(t, s, mode).slots[Len(t.slots)] = t.slots[Len(t.slots)] \o s
           /\ \A i \in 1 .. Len(t.slots) - 1 : Extend(t, s, mode).slots[i] = t.slots[i]
<1> PICK q \in Seq(Seq(Char)) : q = t.slots
  BY DEF Scanning
<1> PICK S : S = Seq(Char)
  OBVIOUS
<1>1. q \in Seq(S) /\ q # <<>>
  OBVIOUS
<1>2. q[Len(q)] \in Seq(Char)
  BY <1>1, SetLast
<1>3. PICK x \in S : x = q[Len(q)] \o s
  BY <1>2, Concatenated
<1>4. PICK r : r = [q EXCEPT ![Len(q)] = x]
  OBVIOUS
<1>5. /\ r \in Seq(S) /\ Len(r) = Len(q) /\ r # <<>> /\ r[Len(q)] = x
      /\ \A i \in 1 .. Len(q) - 1 : r[i] = q[i]
  BY <1>1, <1>4, SetLast
<1>6. Extend(t, s, mode) = [slots |-> r, mode |-> mode]
  BY <1>3, <1>4 DEF Extend
<1> QED
  BY <1>3, <1>5, <1>6 DEF Scanning

LEMMA BeginTokenType ==
    ASSUME NEW t \in Scanning, NEW c \in Char
    PROVE  BeginToken(t, c) \in Scanning
<1> PICK q \in Seq(Seq(Char)) : q = t.slots
  BY DEF Scanning
<1>1. \A w \in Seq(Char) : Append(q, w) \in Seq(Seq(Char)) /\ Append(q, w) # <<>>
  OBVIOUS
<1>2. <<>> \in Seq(Char) /\ <<c>> \in Seq(Char)
  BY Tuples
<1>3. [slots |-> Append(q, <<>>), mode |-> "quoted"] \in Scanning
  BY <1>1, <1>2 DEF Scanning, Modes
<1>4. [slots |-> Append(q, <<c>>), mode |-> "bare"] \in Scanning
  BY <1>1, <1>2 DEF Scanning, Modes
<1>5. [t EXCEPT !.mode = "comment"] \in Scanning /\ [t EXCEPT !.mode = "many"] \in Scanning
  BY DEF Scanning, Modes, InToken
<1> QED
  BY <1>3, <1>4, <1>5, Zenon DEF BeginToken

LEMMA ScanType ==
    /\ [slots |-> <<>>, mode |-> "gap"] \in Scanning
    /\ \A t \in Scanning, c \in Char : Scan(t, c) \in Scanning
<1>1. [slots |-> <<>>, mode |-> "gap"] \in Scanning
  <2>1. <<>> \in Seq(Seq(Char))
    OBVIOUS
  <2> QED
    BY <2>1 DEF Scanning, Modes, InToken
<1>2. ASSUME NEW t \in Scanning, NEW c \in Char PROVE Scan(t, c) \in Scanning
  <2>1. <<c>> \in Seq(Char) /\ <<Backslash, c>> \in Seq(Char)
    BY Tuples, Characters
  <2>2. CASE t.mode = "gap"
    BY <2>2, BeginTokenType DEF Scan
  <2>3. CASE t.mode \in InToken
    <3>1. t.slots # <<>>
      BY <2>3 DEF Scanning
    <3>2. [t EXCEPT !.mode = "gap"] \in Scanning /\ [t EXCEPT !.mode = "garbage"] \in Scanning
      BY DEF Scanning, Modes, InToken
    <3>3. [t EXCEPT !.mode = "closed"] \in Scanning /\ [t EXCEPT !.mode = "escape"] \in Scanning
      BY <3>1 DEF Scanning, Modes, InToken
    <3>4. Extend(t, <<c>>, "bare") \in Scanning /\ Extend(t, <<c>>, "quoted") \in Scanning
      BY <2>1, <3>1, ExtendGrows DEF Modes
    <3>5. Extend(t, IF c \in {Quote, Backslash} THEN <<c>> ELSE <<Backslash, c>>, "quoted") \in Scanning
      BY <2>1, <3>1, ExtendGrows DEF Modes
    <3>6. [t EXCEPT !.mode = IF c \in Blank THEN "gap" ELSE "garbage"] \in Scanning
      BY <3>2
    <3>7. CASE t.mode = "bare"
      BY <3>2, <3>4, <3>7 DEF Scan
    <3>8. CASE t.mode = "quoted"
      BY <3>3, <3>4, <3>8 DEF Scan
    <3>9. CASE t.mode = "escape"
      BY <3>5, <3>9 DEF Scan
    <3>10. CASE t.mode = "closed"
      BY <3>6, <3>10 DEF Scan
    <3> QED
      BY <2>3, <3>7, <3>8, <3>9, <3>10 DEF InToken
  <2>4. CASE t.mode \notin InToken \cup {"gap"}
    BY <2>4 DEF Scan, InToken
  <2> QED
    BY <2>2, <2>3, <2>4
<1> QED
  BY <1>1, <1>2

\* The scan, character by character.
LEMMA ScannedRuns ==
    ASSUME NEW s \in Seq(Char)
    PROVE  \E f \in [0 .. Len(s) -> Scanning] :
              /\ f[0] = [slots |-> <<>>, mode |-> "gap"]
              /\ \A i \in 1 .. Len(s) : f[i] = Scan(f[i - 1], s[i])
              /\ Scanned(s) = f[Len(s)]
<1> PICK n \in Nat : n = Len(s)
  OBVIOUS
<1>1. \A i \in 1 .. n : s[i] \in Char
  OBVIOUS
<1> DEFINE G == [p \in (1 .. n) \X Scanning |-> Scan(p[2], s[p[1]])]
           Recurs(f) == f = [i \in 0 .. n |-> IF i = 0 THEN [slots |-> <<>>, mode |-> "gap"] ELSE Scan(f[i - 1], s[i])]
           at == CHOOSE f : Recurs(f)
<1>2. G \in [(1 .. n) \X Scanning -> Scanning]
  BY <1>1, ScanType
<1>3. PICK F \in [(1 .. n) \X Scanning -> Scanning] : F = G
  BY <1>2
<1>4. [slots |-> <<>>, mode |-> "gap"] \in Scanning
  BY ScanType
<1>5. PICK f \in [0 .. n -> Scanning] : f[0] = [slots |-> <<>>, mode |-> "gap"] /\ \A i \in 1 .. n : f[i] = F[<<i, f[i - 1]>>]
  <2>1. Recursive(n, Scanning, [slots |-> <<>>, mode |-> "gap"], F)
    BY <1>4, Recursion, Zenon
  <2> QED
    BY <2>1, Zenon DEF Recursive
<1>6. \A i \in 1 .. n : f[i] = Scan(f[i - 1], s[i])
  <2> SUFFICES ASSUME NEW i \in 1 .. n PROVE f[i] = Scan(f[i - 1], s[i])
    OBVIOUS
  <2>1. f[i - 1] \in Scanning
    <3>1. i - 1 \in 0 .. n
      OBVIOUS
    <3> QED
      BY <1>5, <3>1, Zenon
  <2> QED
    BY <1>3, <1>5, <2>1
<1> HIDE DEF G
<1>7. Recurs(f)
  BY <1>5, <1>6
<1>8. Recurs(at)
  BY <1>7
<1>9. Scanned(s) = at[n]
  BY DEF Scanned
<1> HIDE DEF at
<1>10. at = f
  <2>1. at[0] = [slots |-> <<>>, mode |-> "gap"] /\ \A i \in 1 .. n : at[i] = Scan(at[i - 1], s[i])
    <3>1. PICK h : h = at
      OBVIOUS
    <3>2. h = [i \in 0 .. n |-> IF i = 0 THEN [slots |-> <<>>, mode |-> "gap"] ELSE Scan(h[i - 1], s[i])]
      BY <1>8, <3>1
    <3>3. h[0] = [slots |-> <<>>, mode |-> "gap"] /\ \A i \in 1 .. n : h[i] = Scan(h[i - 1], s[i])
      <4>1. \A i \in 0 .. n : h[i] = IF i = 0 THEN [slots |-> <<>>, mode |-> "gap"] ELSE Scan(h[i - 1], s[i])
        BY <3>2
      <4>2. 0 \in 0 .. n /\ \A i \in 1 .. n : i \in 0 .. n /\ i # 0
        OBVIOUS
      <4> QED
        BY <4>1, <4>2, Zenon
    <3> QED
      BY <3>1, <3>3
  <2>2. \A i \in 0 .. n : at[i] = f[i]
    <3>1. InStep(n, at, f)
      BY <1>5, <1>6, <2>1 DEF InStep
    <3>2. Alike(n, at, f)
      BY <3>1, Agree, Zenon
    <3> QED
      BY <3>2 DEF Alike
  <2> QED
    BY <1>8, <2>2
<1> QED
  BY <1>5, <1>6, <1>9, <1>10

LEMMA ScannedSteps ==
    ASSUME NEW s \in Seq(Char)
    PROVE  /\ Scanned(s) \in Scanning
           /\ Scanned(<<>>) = [slots |-> <<>>, mode |-> "gap"]
           /\ \A c \in Char : Scanned(Append(s, c)) = Scan(Scanned(s), c)
<1>1. PICK f \in [0 .. Len(s) -> Scanning] :
         /\ f[0] = [slots |-> <<>>, mode |-> "gap"]
         /\ \A i \in 1 .. Len(s) : f[i] = Scan(f[i - 1], s[i])
         /\ Scanned(s) = f[Len(s)]
  BY ScannedRuns
<1>2. Scanned(<<>>) = [slots |-> <<>>, mode |-> "gap"]
  <2>1. <<>> \in Seq(Char) /\ Len(<<>>) = 0
    OBVIOUS
  <2>2. PICK g \in [0 .. Len(<<>>) -> Scanning] : g[0] = [slots |-> <<>>, mode |-> "gap"] /\ Scanned(<<>>) = g[Len(<<>>)]
    BY <2>1, ScannedRuns
  <2> QED
    BY <2>1, <2>2
<1>3. ASSUME NEW c \in Char PROVE Scanned(Append(s, c)) = Scan(Scanned(s), c)
  <2>1. PICK t \in Seq(Char) : t = Append(s, c)
    BY Appends
  <2>2. PICK g \in [0 .. Len(t) -> Scanning] :
           /\ g[0] = [slots |-> <<>>, mode |-> "gap"]
           /\ \A i \in 1 .. Len(t) : g[i] = Scan(g[i - 1], t[i])
           /\ Scanned(t) = g[Len(t)]
    BY ScannedRuns
  <2>3. PICK n \in Nat : n = Len(s)
    OBVIOUS
  <2>4. Len(t) = n + 1 /\ t[n + 1] = c /\ \A i \in 1 .. n : t[i] = s[i]
    BY <2>1, <2>3
  <2>5. \A i \in 0 .. n : g[i] = f[i]
    <3>1. \A i \in 1 .. n : g[i - 1] = f[i - 1] => g[i] = f[i]
      BY <1>1, <2>2, <2>3, <2>4
    <3>2. InStep(n, g, f)
      BY <1>1, <2>2, <3>1 DEF InStep
    <3>3. Alike(n, g, f)
      BY <3>2, Agree, Zenon
    <3> QED
      BY <3>3 DEF Alike
  <2>6. g[n] = Scanned(s)
    BY <1>1, <2>3, <2>5
  <2>7. g[n + 1] = Scan(g[n], c)
    <3>1. PICK m \in 1 .. Len(t) : m = n + 1
      BY <2>4
    <3>2. g[m] = Scan(g[m - 1], t[m])
      BY <2>2
    <3>3. m - 1 = n /\ t[m] = c
      BY <2>4, <3>1
    <3> QED
      BY <3>1, <3>2, <3>3
  <2> QED
    BY <2>1, <2>2, <2>4, <2>6, <2>7
<1>4. Scanned(s) \in Scanning
  <2>1. Len(s) \in 0 .. Len(s)
    OBVIOUS
  <2> QED
    BY <1>1, <2>1
<1> QED
  BY <1>2, <1>3, <1>4

-----------------------------------------------------------------------------
(* The line of a call.                                                     *)

Value == {Integer(n) : n \in Int} \cup {Truth(b) : b \in BOOLEAN} \cup {Text(s) : s \in Seq(Clean)}

LEMMA Kinds ==
    ASSUME NEW v \in Value
    PROVE  \/ v[1] = "int" /\ v[2] \in Int /\ v = Integer(v[2])
           \/ v[1] = "bool" /\ v[2] \in BOOLEAN /\ v = Truth(v[2])
           \/ v[1] = "str" /\ v[2] \in Seq(Clean) /\ v = Text(v[2])
<1>1. CASE \E n \in Int : v = Integer(n)
  BY <1>1 DEF Integer
<1>2. CASE \E b \in BOOLEAN : v = Truth(b)
  BY <1>2 DEF Truth
<1>3. CASE \E s \in Seq(Clean) : v = Text(s)
  BY <1>3 DEF Text
<1> QED
  BY <1>1, <1>2, <1>3 DEF Value

LEMMA TokenOf ==
    ASSUME NEW v
    PROVE  /\ v[1] = "int" => EncodeToken(v) = IF v[2] < 0 THEN <<"-">> \o Decimal[-v[2]] ELSE Decimal[v[2]]
           /\ v[1] = "bool" => EncodeToken(v) = IF v[2] THEN <<"true">> ELSE <<"false">>
           /\ v[1] = "str" => EncodeToken(v) = IF NeedsQuoting(v[2]) THEN <<Quote>> \o Escaped(v[2]) \o <<Quote>>
                                               ELSE v[2]
BY DEF EncodeToken

\* A token that the device reads up to the next blank.
Bare(w) == /\ w \in Seq(Clean) /\ w # <<>>
           /\ w[1] \notin {"#", Quote}
           /\ \A i \in 1 .. Len(w) : w[i] \notin Blank

LEMMA Digital ==
    ASSUME NEW c \in Digit
    PROVE  c \in Clean /\ c \notin Blank /\ c \notin {"#", Quote, "-", "+"} /\ c \notin Spaces
<1>1. PICK i \in 1 .. 10 : c = Digits[i]
  BY DEF Digit
<1>2. \A k \in 1 .. 10 : Digits[k] \notin {"#", "\"", "-", "+", " ", "\t", "\n", "\r"}
  <2>1. /\ Digits[1] = "0" /\ Digits[2] = "1" /\ Digits[3] = "2" /\ Digits[4] = "3" /\ Digits[5] = "4"
        /\ Digits[6] = "5" /\ Digits[7] = "6" /\ Digits[8] = "7" /\ Digits[9] = "8" /\ Digits[10] = "9"
    BY DEF Digits
  <2>2. {"0", "1", "2", "3", "4", "5", "6", "7", "8", "9"} \cap {"#", "\"", "-", "+", " ", "\t", "\n", "\r"} = {}
    OBVIOUS
  <2>3. \A k \in 1 .. 10 : Digits[k] \in {"0", "1", "2", "3", "4", "5", "6", "7", "8", "9"}
    <3> SUFFICES ASSUME NEW k \in 1 .. 10 PROVE Digits[k] \in {"0", "1", "2", "3", "4", "5", "6", "7", "8", "9"}
      OBVIOUS
    <3>1. k \in {1, 2, 3, 4, 5, 6, 7, 8, 9, 10}
      OBVIOUS
    <3> QED
      BY <2>1, <3>1
  <2> QED
    BY <2>2, <2>3
<1>3. i \in 1 .. 16
  OBVIOUS
<1> QED
  BY <1>1, <1>2, <1>3, Characters DEF Quote, Blank, Spaces

LEMMA NumeralBare ==
    ASSUME NEW n \in Nat
    PROVE  Bare(Decimal[n]) /\ Bare(<<"-">> \o Decimal[n])
<1>1. PICK w \in Seq(Digit) : w = Decimal[n] /\ Len(w) >= 1
  BY DecimalShape
<1>2. PICK d \in Seq(Clean) : d = w
  <2>1. Digit \subseteq Clean
    BY Digital
  <2> QED
    BY <2>1, MoreSeq
<1>3. \A i \in 1 .. Len(w) : w[i] \in Digit
  OBVIOUS
<1>4. Bare(w)
  <2>1. 1 \in 1 .. Len(w) /\ w # <<>>
    BY <1>1
  <2> QED
    BY <1>2, <1>3, <2>1, Digital DEF Bare
<1>5. Bare(<<"-">> \o w)
  <2>1. "-" \in Clean /\ "-" \notin Blank /\ "-" \notin {"#", Quote}
    BY Characters DEF Blank, Quote
  <2>2. PICK m \in Seq(Clean) : m = <<"-">> /\ Len(m) = 1 /\ m[1] = "-"
    BY <2>1, Tuples
  <2>3. PICK r \in Seq(Clean) : r = m \o d
    BY Concatenated
  <2>4. /\ Len(r) = 1 + Len(d) /\ r[1] = "-" /\ Len(d) \in Nat
        /\ \A i \in 1 .. Len(d) : r[1 + i] = d[i]
    BY <2>2, <2>3, Concatenated
  <2>5. ASSUME NEW i \in 1 .. Len(r) PROVE r[i] \notin Blank
    <3>1. CASE i = 1
      BY <2>1, <2>4, <3>1
    <3>2. CASE i # 1
      <4>1. PICK k \in 1 .. Len(d) : i = 1 + k
        BY <2>4, <3>2
      <4> QED
        BY <1>2, <1>3, <2>4, <4>1, Digital
    <3> QED
      BY <3>1, <3>2
  <2>6. r # <<>>
    BY <2>4
  <2>7. Bare(r)
    BY <2>1, <2>4, <2>5, <2>6 DEF Bare
  <2> QED
    BY <1>2, <2>2, <2>3, <2>7
<1> QED
  BY <1>1, <1>4, <1>5

LEMMA TokenShape ==
    ASSUME NEW v \in Value
    PROVE  \/ v[1] = "str" /\ NeedsQuoting(v[2])
           \/ Bare(EncodeToken(v)) /\ ~(v[1] = "str" /\ NeedsQuoting(v[2]))
<1>1. CASE v[1] = "int"
  <2>1. v[2] \in Int
    BY <1>1, Kinds
  <2>2. CASE v[2] < 0
    <3>1. -v[2] \in Nat /\ EncodeToken(v) = <<"-">> \o Decimal[-v[2]]
      BY <1>1, <2>1, <2>2, TokenOf
    <3> QED
      BY <1>1, <3>1, NumeralBare
  <2>3. CASE v[2] >= 0
    <3>1. v[2] \in Nat /\ EncodeToken(v) = Decimal[v[2]]
      BY <1>1, <2>1, <2>3, TokenOf
    <3> QED
      BY <1>1, <3>1, NumeralBare
  <2> QED
    BY <2>1, <2>2, <2>3
<1>2. CASE v[1] = "bool"
  <2>1. \A c \in {"true", "false"} : c \in Clean /\ c \notin Blank /\ c \notin {"#", Quote}
    BY Characters DEF Blank, Quote
  <2>2. ASSUME NEW c \in {"true", "false"} PROVE Bare(<<c>>)
    <3>1. <<c>> \in Seq(Clean) /\ Len(<<c>>) = 1 /\ <<c>>[1] = c
      BY <2>1, Tuples
    <3>2. <<c>> # <<>>
      BY <3>1
    <3> QED
      BY <2>1, <3>1, <3>2 DEF Bare
  <2> QED
    BY <1>2, <2>2, TokenOf
<1>3. CASE v[1] = "str" /\ ~NeedsQuoting(v[2])
  <2>1. v[2] \in Seq(Clean)
    BY <1>3, Kinds
  <2>2. v[2] # <<>> /\ v[2][1] # "#" /\ \A i \in DOMAIN v[2] : v[2][i] \notin Spaces \cup {Quote}
    BY <1>3 DEF NeedsQuoting
  <2>3. DOMAIN v[2] = 1 .. Len(v[2]) /\ 1 \in DOMAIN v[2]
    BY <2>1, <2>2
  <2> QED
    BY <1>3, <2>1, <2>2, <2>3, TokenOf DEF Bare, Spaces
<1> QED
  BY <1>1, <1>2, <1>3, Kinds

LEMMA TokenType == ASSUME NEW v \in Value PROVE EncodeToken(v) \in Seq(Clean)
<1>1. CASE v[1] = "str" /\ NeedsQuoting(v[2])
  <2>1. v[2] \in Seq(Clean)
    BY <1>1, Kinds
  <2>2. Escaped(v[2]) \in Seq(Clean) /\ <<Quote>> \in Seq(Clean)
    BY <2>1, EscapedSteps, Tuples, Characters
  <2>3. <<Quote>> \o Escaped(v[2]) \in Seq(Clean)
    BY <2>2, Concatenated
  <2>4. (<<Quote>> \o Escaped(v[2])) \o <<Quote>> \in Seq(Clean)
    BY <2>2, <2>3, Concatenated
  <2> QED
    BY <1>1, <2>4, TokenOf
<1> QED
  BY <1>1, TokenShape DEF Bare

\* Another argument is written.
Writing(s, v) == Append(s, " ") \o EncodeToken(v)

LEMMA WritingType ==
    \A s \in Seq(Clean), v \in Value : Writing(s, v) \in Seq(Clean)
<1> SUFFICES ASSUME NEW s \in Seq(Clean), NEW v \in Value PROVE Writing(s, v) \in Seq(Clean)
  OBVIOUS
<1>1. Append(s, " ") \in Seq(Clean) /\ EncodeToken(v) \in Seq(Clean)
  BY Characters, Appends, TokenType
<1> QED
  BY <1>1, Concatenated DEF Writing

\* A call, argument by argument.
LEMMA WrittenRuns ==
    ASSUME NEW name \in Seq(Clean), NEW s \in Seq(Value)
    PROVE  \E f \in [0 .. Len(s) -> Seq(Clean)] :
              /\ f[0] = name
              /\ \A i \in 1 .. Len(s) : f[i] = Writing(f[i - 1], s[i])
              /\ Written(name, s) = f[Len(s)]
<1> PICK n \in Nat : n = Len(s)
  OBVIOUS
<1>1. \A i \in 1 .. n : s[i] \in Value
  OBVIOUS
<1> DEFINE G == [p \in (1 .. n) \X Seq(Clean) |-> Writing(p[2], s[p[1]])]
           Recurs(f) == f = [i \in 0 .. n |-> IF i = 0 THEN name ELSE Writing(f[i - 1], s[i])]
           at == CHOOSE f : Recurs(f)
<1>2. G \in [(1 .. n) \X Seq(Clean) -> Seq(Clean)]
  BY <1>1, WritingType
<1>3. PICK F \in [(1 .. n) \X Seq(Clean) -> Seq(Clean)] : F = G
  BY <1>2
<1>4. name \in Seq(Clean)
  OBVIOUS
<1>5. PICK f \in [0 .. n -> Seq(Clean)] : f[0] = name /\ \A i \in 1 .. n : f[i] = F[<<i, f[i - 1]>>]
  <2>1. Recursive(n, Seq(Clean), name, F)
    BY <1>4, Recursion, Zenon
  <2> QED
    BY <2>1, Zenon DEF Recursive
<1>6. \A i \in 1 .. n : f[i] = Writing(f[i - 1], s[i])
  <2> SUFFICES ASSUME NEW i \in 1 .. n PROVE f[i] = Writing(f[i - 1], s[i])
    OBVIOUS
  <2>1. f[i - 1] \in Seq(Clean)
    <3>1. i - 1 \in 0 .. n
      OBVIOUS
    <3> QED
      BY <1>5, <3>1, Zenon
  <2> QED
    BY <1>3, <1>5, <2>1
<1> HIDE DEF G
<1>7. Recurs(f)
  BY <1>5, <1>6
<1>8. Recurs(at)
  BY <1>7
<1>9. Written(name, s) = at[n]
  BY DEF Written, Writing
<1> HIDE DEF at
<1>10. at = f
  <2>1. at[0] = name /\ \A i \in 1 .. n : at[i] = Writing(at[i - 1], s[i])
    <3>1. PICK h : h = at
      OBVIOUS
    <3>2. h = [i \in 0 .. n |-> IF i = 0 THEN name ELSE Writing(h[i - 1], s[i])]
      BY <1>8, <3>1
    <3>3. h[0] = name /\ \A i \in 1 .. n : h[i] = Writing(h[i - 1], s[i])
      <4>1. \A i \in 0 .. n : h[i] = IF i = 0 THEN name ELSE Writing(h[i - 1], s[i])
        BY <3>2
      <4>2. 0 \in 0 .. n /\ \A i \in 1 .. n : i \in 0 .. n /\ i # 0
        OBVIOUS
      <4> QED
        BY <4>1, <4>2, Zenon
    <3> QED
      BY <3>1, <3>3
  <2>2. \A i \in 0 .. n : at[i] = f[i]
    <3>1. InStep(n, at, f)
      BY <1>5, <1>6, <2>1 DEF InStep
    <3>2. Alike(n, at, f)
      BY <3>1, Agree, Zenon
    <3> QED
      BY <3>2 DEF Alike
  <2> QED
    BY <1>8, <2>2
<1> QED
  BY <1>5, <1>6, <1>9, <1>10

LEMMA WrittenSteps ==
    ASSUME NEW name \in Seq(Clean), NEW s \in Seq(Value)
    PROVE  /\ Written(name, s) \in Seq(Clean)
           /\ Written(name, <<>>) = name
           /\ \A c \in Value : Written(name, Append(s, c)) = Writing(Written(name, s), c)
<1>1. PICK f \in [0 .. Len(s) -> Seq(Clean)] :
         /\ f[0] = name
         /\ \A i \in 1 .. Len(s) : f[i] = Writing(f[i - 1], s[i])
         /\ Written(name, s) = f[Len(s)]
  BY WrittenRuns
<1>2. Written(name, <<>>) = name
  <2>1. <<>> \in Seq(Value) /\ Len(<<>>) = 0
    OBVIOUS
  <2>2. PICK g \in [0 .. Len(<<>>) -> Seq(Clean)] : g[0] = name /\ Written(name, <<>>) = g[Len(<<>>)]
    BY <2>1, WrittenRuns, SMTT(30)
  <2> QED
    BY <2>1, <2>2
<1>3. ASSUME NEW c \in Value PROVE Written(name, Append(s, c)) = Writing(Written(name, s), c)
  <2>1. PICK t \in Seq(Value) : t = Append(s, c)
    BY Appends
  <2>2. PICK g \in [0 .. Len(t) -> Seq(Clean)] :
           /\ g[0] = name
           /\ \A i \in 1 .. Len(t) : g[i] = Writing(g[i - 1], t[i])
           /\ Written(name, t) = g[Len(t)]
    BY WrittenRuns
  <2>3. PICK n \in Nat : n = Len(s)
    OBVIOUS
  <2>4. Len(t) = n + 1 /\ t[n + 1] = c /\ \A i \in 1 .. n : t[i] = s[i]
    BY <2>1, <2>3
  <2>5. \A i \in 0 .. n : g[i] = f[i]
    <3>1. \A i \in 1 .. n : g[i - 1] = f[i - 1] => g[i] = f[i]
      BY <1>1, <2>2, <2>3, <2>4
    <3>2. InStep(n, g, f)
      BY <1>1, <2>2, <3>1 DEF InStep
    <3>3. Alike(n, g, f)
      BY <3>2, Agree, Zenon
    <3> QED
      BY <3>3 DEF Alike
  <2>6. g[n] = Written(name, s)
    BY <1>1, <2>3, <2>5
  <2>7. g[n + 1] = Writing(g[n], c)
    <3>1. PICK m \in 1 .. Len(t) : m = n + 1
      BY <2>4
    <3>2. g[m] = Writing(g[m - 1], t[m])
      BY <2>2
    <3>3. m - 1 = n /\ t[m] = c
      BY <2>4, <3>1
    <3> QED
      BY <3>1, <3>2, <3>3
  <2> QED
    BY <2>1, <2>2, <2>4, <2>6, <2>7
<1>4. Written(name, s) \in Seq(Clean)
  <2>1. Len(s) \in 0 .. Len(s)
    OBVIOUS
  <2> QED
    BY <1>1, <2>1
<1> QED
  BY <1>2, <1>3, <1>4

-----------------------------------------------------------------------------
(* The tokens of a call, as the device cuts them.                          *)

\* Induction over sequences, with a set for the predicate.
LEMMA EachSequence ==
    ASSUME NEW S, NEW T, <<>> \in T, \A u \in Seq(S), c \in S : u \in T => Append(u, c) \in T
    PROVE  Seq(S) \subseteq T
<1> SUFFICES ASSUME NEW s \in Seq(S) PROVE s \in T
  OBVIOUS
<1> PICK n \in Nat : n = Len(s)
  OBVIOUS
<1>4. /\ SubSeq(s, 1, 0) = <<>> /\ SubSeq(s, 1, n) = s
      /\ \A i \in 0 .. n : SubSeq(s, 1, i) \in Seq(S)
      /\ \A i \in 1 .. n : s[i] \in S /\ SubSeq(s, 1, i) = Append(SubSeq(s, 1, i - 1), s[i])
  BY Beginnings
<1> PICK g : g = [i \in 0 .. n |-> SubSeq(s, 1, i)]
  OBVIOUS
<1>5. /\ g[0] = <<>> /\ g[n] = s
      /\ \A i \in 0 .. n : g[i] \in Seq(S)
      /\ \A i \in 1 .. n : s[i] \in S /\ g[i] = Append(g[i - 1], s[i])
  <2>1. \A i \in 0 .. n : g[i] = SubSeq(s, 1, i)
    OBVIOUS
  <2>2. 0 \in 0 .. n /\ n \in 0 .. n /\ \A i \in 1 .. n : i \in 0 .. n /\ i - 1 \in 0 .. n
    OBVIOUS
  <2> QED
    BY <1>4, <2>1, <2>2, Zenon
<1> DEFINE At == {i \in 0 .. n : g[i] \in T}
<1>1. 0 \in At
  <2>1. 0 \in 0 .. n
    OBVIOUS
  <2>2. g[0] \in T
    BY <1>5, Zenon
  <2> QED
    BY <2>1, <2>2, Zenon
<1>2. ASSUME NEW i \in 1 .. n, i - 1 \in At PROVE i \in At
  <2>1. g[i] = Append(g[i - 1], s[i]) /\ g[i - 1] \in Seq(S) /\ s[i] \in S /\ g[i - 1] \in T
    <3>1. i - 1 \in 0 .. n
      OBVIOUS
    <3> QED
      BY <1>2, <1>5, <3>1, Zenon
  <2>2. g[i] \in T
    BY <2>1
  <2> QED
    BY <2>2
<1>3. n \in At
  <2> HIDE DEF At
  <2>1. n \in 0 .. n
    OBVIOUS
  <2>2. 0 .. n \subseteq At
    BY <1>1, <1>2, UpTo, Zenon
  <2> QED
    BY <2>1, <2>2, Zenon
<1> QED
  BY <1>3, <1>5, Zenon

LEMMA ConcatAppend ==
    ASSUME NEW S, NEW s \in Seq(S), NEW t \in Seq(S), NEW c \in S
    PROVE  s \o Append(t, c) = Append(s \o t, c)
<1> PICK m \in Nat, n \in Nat : m = Len(s) /\ n = Len(t)
  OBVIOUS
<1> PICK a \in Seq(S) : a = Append(t, c)
  BY Appends
<1> PICK b \in Seq(S) : b = s \o t
  BY Concatenated
<1> PICK x \in Seq(S) : x = s \o a
  BY Concatenated
<1> PICK y \in Seq(S) : y = Append(b, c)
  BY Appends
<1>1. Len(a) = n + 1 /\ a[n + 1] = c /\ \A i \in 1 .. n : a[i] = t[i]
  BY Appends
<1>3. Len(b) = m + n /\ (\A i \in 1 .. m : b[i] = s[i]) /\ \A i \in 1 .. n : b[m + i] = t[i]
  BY Concatenated
<1>4. Len(x) = m + n + 1 /\ (\A i \in 1 .. m : x[i] = s[i]) /\ \A i \in 1 .. n + 1 : x[m + i] = a[i]
  BY <1>1, Concatenated
<1>5. Len(y) = m + n + 1 /\ y[m + n + 1] = c /\ \A i \in 1 .. m + n : y[i] = b[i]
  BY <1>3, Appends
<1>6. ASSUME NEW i \in 1 .. Len(x) PROVE x[i] = y[i]
  <2>1. CASE i \in 1 .. m
    BY <1>3, <1>4, <1>5, <2>1
  <2>2. CASE i \notin 1 .. m
    <3>1. PICK k \in 1 .. n + 1 : i = m + k
      <4>1. i - m \in 1 .. n + 1 /\ i = m + (i - m)
        BY <1>4, <2>2
      <4> QED
        BY <4>1
    <3>2. x[i] = a[k]
      BY <1>4, <3>1
    <3>3. CASE k = n + 1
      BY <1>1, <1>5, <3>1, <3>2, <3>3
    <3>4. CASE k \in 1 .. n
      <4>1. y[m + k] = b[m + k] /\ b[m + k] = t[k] /\ a[k] = t[k]
        BY <1>1, <1>3, <1>5, <3>4
      <4> QED
        BY <3>1, <3>2, <4>1
    <3> QED
      BY <3>3, <3>4, SMTT(30)
  <2> QED
    BY <2>1, <2>2
<1>7. x = y
  BY <1>4, <1>5, <1>6, SeqEqual, SMTT(30)
<1> QED
  BY <1>7

\* A state of the tokenizer: the tokens before, the one being read, the mode.
Reading(q, w, mode) == [slots |-> Append(q, w), mode |-> mode]

LEMMA ReplaceLast ==
    ASSUME NEW S, NEW q \in Seq(S), NEW w \in S, NEW v \in S
    PROVE  /\ Append(q, w)[Len(Append(q, w))] = w
           /\ [Append(q, w) EXCEPT ![Len(Append(q, w))] = v] = Append(q, v)
<1>1. PICK p \in Seq(S) : p = Append(q, w)
  BY Appends
<1>2. Len(q) \in Nat /\ Len(p) = Len(q) + 1 /\ p[Len(q) + 1] = w /\ \A i \in 1 .. Len(q) : p[i] = q[i]
  BY <1>1, Appends
<1>3. p # <<>>
  BY <1>2
<1>4. PICK r \in Seq(S) : r = [p EXCEPT ![Len(p)] = v]
  BY <1>3, SetLast
<1>5. Len(r) = Len(p) /\ r[Len(p)] = v /\ \A i \in 1 .. Len(p) - 1 : r[i] = p[i]
  BY <1>3, <1>4, SetLast
<1>6. PICK o \in Seq(S) : o = Append(q, v)
  BY Appends
<1>7. Len(o) = Len(q) + 1 /\ o[Len(q) + 1] = v /\ \A i \in 1 .. Len(q) : o[i] = q[i]
  BY <1>6, Appends
<1>8. Len(r) = Len(o) /\ \A i \in 1 .. Len(r) : r[i] = o[i]
  <2>1. PICK n \in Nat : n = Len(q)
    BY <1>2
  <2> QED
    BY <1>2, <1>5, <1>7, <2>1
<1>9. r = o
  BY <1>8, SeqEqual
<1> QED
  BY <1>1, <1>2, <1>4, <1>6, <1>9

LEMMA ExtendLast ==
    ASSUME NEW q \in Seq(Seq(Char)), NEW w \in Seq(Char), NEW c \in Char, NEW mode, NEW next
    PROVE  Extend(Reading(q, w, mode), <<c>>, next) = Reading(q, Append(w, c), next)
<1>1. w \o <<c>> = Append(w, c)
  BY AppendAsConcat
<1>2. PICK v \in Seq(Char) : v = Append(w, c)
  BY Appends
<1>3. Append(q, w)[Len(Append(q, w))] = w /\ [Append(q, w) EXCEPT ![Len(Append(q, w))] = v] = Append(q, v)
  BY ReplaceLast
<1> PICK p : p = Append(q, w)
  OBVIOUS
<1>4. Extend(Reading(q, w, mode), <<c>>, next) = [slots |-> [p EXCEPT ![Len(p)] = p[Len(p)] \o <<c>>], mode |-> next]
  BY DEF Extend, Reading
<1> QED
  BY <1>1, <1>2, <1>3, <1>4, Zenon DEF Reading

\* A state in which the next character that is not blank begins a token that there is room for.
Ready(s, q) == Scanned(s) = [slots |-> q, mode |-> "gap"] /\ Len(q) <= MaxArgs

LEMMA BareScan ==
    ASSUME NEW s \in Seq(Char), NEW q \in Seq(Seq(Char)), Ready(s, q), NEW w, Bare(w)
    PROVE  Scanned(s \o w) = Reading(q, w, "bare")
<1> DEFINE T == {u \in Seq(Clean) : Bare(u) => Scanned(s \o u) = Reading(q, u, "bare")}
<1>1. <<>> \in T
  BY Tuples DEF Bare
<1>2. ASSUME NEW u \in Seq(Clean), NEW c \in Clean, u \in T PROVE Append(u, c) \in T
  <2> PICK x \in Seq(Clean) : x = Append(u, c)
    BY Appends
  <2>1. Len(x) = Len(u) + 1 /\ x[Len(u) + 1] = c /\ \A i \in 1 .. Len(u) : x[i] = u[i]
    BY Appends
  <2> SUFFICES ASSUME Bare(x) PROVE Scanned(s \o x) = Reading(q, x, "bare")
    BY <2>1
  <2>2. c \in Char /\ u \in Seq(Char) /\ s \o u \in Seq(Char)
    BY Characters, MoreSeq, Concatenated
  <2>3. s \o x = Append(s \o u, c)
    BY <2>1, <2>2, ConcatAppend
  <2>4. Scanned(s \o x) = Scan(Scanned(s \o u), c)
    BY <2>2, <2>3, ScannedSteps
  <2>5. c \notin Blank
    BY <2>1 DEF Bare
  <2>6. CASE u = <<>>
    <3>1. s \o u = s /\ x[1] = c /\ x = <<c>>
      <4>1. s \o <<>> = s
        BY AppendAsConcat
      <4>2. <<>> \o <<c>> = Append(<<>>, c) /\ <<>> \o <<c>> = <<c>>
        BY <2>2, Tuples, AppendAsConcat
      <4> QED
        BY <2>1, <2>6, <4>1, <4>2
    <3>2. c \notin {"#", Quote}
      BY <3>1 DEF Bare
    <3>3. PICK t : t = Scanned(s) /\ t.slots = q /\ t.mode = "gap"
      BY DEF Ready
    <3>4. ~(Len(t.slots) > MaxArgs)
      BY <3>3, WireAssumption DEF Ready
    <3>5. Scan(t, c) = [slots |-> Append(q, <<c>>), mode |-> "bare"]
      BY <2>5, <3>2, <3>3, <3>4 DEF Scan, BeginToken
    <3> QED
      BY <2>4, <3>1, <3>3, <3>5 DEF Reading
  <2>7. CASE u # <<>>
    <3>1. Bare(u)
      <4>1. 1 \in 1 .. Len(u)
        BY <2>7
      <4>2. \A i \in 1 .. Len(u) : i \in 1 .. Len(x)
        BY <2>1
      <4> QED
        BY <2>1, <2>7, <4>1, <4>2 DEF Bare
    <3>2. Scanned(s \o u) = Reading(q, u, "bare")
      BY <1>2, <3>1
    <3>3. PICK t : t = Reading(q, u, "bare")
      OBVIOUS
    <3>4. t.mode = "bare"
      BY <3>3 DEF Reading
    <3>5. Scan(t, c) = Extend(t, <<c>>, "bare")
      BY <2>5, <3>4 DEF Scan
    <3>6. Extend(t, <<c>>, "bare") = Reading(q, x, "bare")
      BY <2>1, <2>2, <3>3, ExtendLast
    <3> QED
      BY <2>4, <3>2, <3>3, <3>5, <3>6
  <2> QED
    BY <2>6, <2>7
<1>3. Seq(Clean) \subseteq T
  <2> HIDE DEF T
  <2> QED
    BY <1>1, <1>2, EachSequence
<1> QED
  BY <1>3 DEF Bare

LEMMA ModeSet ==
    ASSUME NEW q, NEW w, NEW mode, NEW next
    PROVE  [Reading(q, w, mode) EXCEPT !.mode = next] = Reading(q, w, next)
BY DEF Reading

LEMMA QuotesAdded ==
    ASSUME NEW s \in Seq(Char), NEW e \in Seq(Char)
    PROVE  s \o (<<Quote>> \o e \o <<Quote>>) = Append(Append(s, Quote) \o e, Quote)
<1>1. PICK k \in Seq(Char) : k = <<Quote>>
  BY Tuples, Characters
<1>2. PICK ke \in Seq(Char) : ke = k \o e
  BY Concatenated
<1>3. ke \o k = Append(ke, Quote)
  BY <1>1, AppendAsConcat, Characters, ZenonT(60)
<1>4. s \o Append(ke, Quote) = Append(s \o ke, Quote)
  <2>1. Quote \in Char
    BY Characters
  <2> QED
    BY <2>1, ConcatAppend
<1>5. (s \o k) \o e = s \o (k \o e)
  BY ConcatAssociative, SMTT(30)
<1>6. s \o k = Append(s, Quote)
  BY <1>1, AppendAsConcat, Characters
<1> QED
  BY <1>1, <1>2, <1>3, <1>4, <1>5, <1>6, Zenon

LEMMA QuotedScan ==
    ASSUME NEW s \in Seq(Char), NEW q \in Seq(Seq(Char)), Ready(s, q), NEW x \in Seq(Clean)
    PROVE  Scanned(s \o (<<Quote>> \o Escaped(x) \o <<Quote>>)) = Reading(q, x, "closed")
<1>1. Quote \in Clean /\ Backslash \in Clean /\ Quote \in Char /\ Backslash \in Char /\ Quote # Backslash
  BY Characters DEF Quote, Backslash
<1>2. PICK o \in Seq(Char) : o = Append(s, Quote)
  BY <1>1, Appends
<1>3. Scanned(o) = Reading(q, <<>>, "quoted")
  <2> PICK t : t = Scanned(s)
    OBVIOUS
  <2>1. t = Scanned(s) /\ t.slots = q /\ t.mode = "gap"
    BY DEF Ready
  <2>2. ~(Len(t.slots) > MaxArgs)
    BY <2>1, WireAssumption DEF Ready
  <2>3. Quote \notin Blank /\ Quote # "#"
    BY DEF Quote, Blank
  <2>4. Scan(t, Quote) = [slots |-> Append(q, <<>>), mode |-> "quoted"]
    BY <2>1, <2>2, <2>3 DEF Scan, BeginToken
  <2> QED
    BY <1>1, <1>2, <2>1, <2>4, ScannedSteps DEF Reading
<1> DEFINE T == {u \in Seq(Clean) : Scanned(o \o Escaped(u)) = Reading(q, u, "quoted")}
<1>4. <<>> \in T
  <2>1. Escaped(<<>>) = <<>> /\ o \o <<>> = o /\ <<>> \in Seq(Clean)
    BY Tuples, EscapedSteps, AppendAsConcat
  <2> QED
    BY <1>3, <2>1
<1>5. ASSUME NEW u \in Seq(Clean), NEW c \in Clean, u \in T PROVE Append(u, c) \in T
  <2>1. c \in Char /\ u \in Seq(Char)
    BY Characters, MoreSeq
  <2>2. PICK e \in Seq(Char) : e = Escaped(u)
    BY EscapedSteps, Characters, MoreSeq
  <2>3. PICK b \in Seq(Char) : b = o \o e
    BY Concatenated
  <2>4. Scanned(b) = Reading(q, u, "quoted")
    BY <1>5, <2>2, <2>3
  <2> PICK t : t = Reading(q, u, "quoted")
    OBVIOUS
  <2>5. t = Reading(q, u, "quoted") /\ t.mode = "quoted"
    BY DEF Reading
  <2>6. CASE c \in {Quote, Backslash}
    <3>1. PICK b1 \in Seq(Char) : b1 = Append(b, Backslash)
      BY <1>1, Appends
    <3>2. Escaped(Append(u, c)) = e \o <<Backslash, c>>
      BY <2>2, <2>6, EscapedSteps
    <3>3. PICK e1 \in Seq(Char) : e1 = Append(e, Backslash)
      BY <1>1, Appends
    <3>4. e \o <<Backslash, c>> = Append(e1, c)
      BY <1>1, <2>1, <3>3, AppendAsConcat, SMTT(30)
    <3>5. o \o Append(e1, c) = Append(o \o e1, c)
      BY <2>1, ConcatAppend, SMTT(30)
    <3>6. o \o e1 = b1
      BY <1>1, <2>3, <3>1, <3>3, ConcatAppend, SMTT(30)
    <3>7. Scanned(b1) = Scan(t, Backslash)
      BY <1>1, <2>4, <2>5, <3>1, ScannedSteps
    <3>8. Scan(t, Backslash) = Reading(q, u, "escape")
      <4>1. Scan(t, Backslash) = [t EXCEPT !.mode = "escape"]
        BY <1>1, <2>5 DEF Scan
      <4>2. [Reading(q, u, "quoted") EXCEPT !.mode = "escape"] = Reading(q, u, "escape")
        BY ModeSet
      <4> QED
        BY <4>1, <4>2
    <3> PICK t1 : t1 = Reading(q, u, "escape")
      OBVIOUS
    <3>9. t1 = Reading(q, u, "escape") /\ t1.mode = "escape"
      BY DEF Reading
    <3>10. Scan(t1, c) = Extend(t1, <<c>>, "quoted")
      BY <2>6, <3>9 DEF Scan
    <3>11. Extend(t1, <<c>>, "quoted") = Reading(q, Append(u, c), "quoted")
      BY <2>1, <3>9, ExtendLast
    <3>12. Scanned(Append(b1, c)) = Scan(Scanned(b1), c)
      BY <2>1, ScannedSteps
    <3>13. Scanned(o \o Escaped(Append(u, c))) = Reading(q, Append(u, c), "quoted")
      BY <3>2, <3>4, <3>5, <3>6, <3>7, <3>8, <3>9, <3>10, <3>11, <3>12, Zenon
    <3> QED
      BY <3>13, Appends
  <2>7. CASE c \notin {Quote, Backslash}
    <3>1. Escaped(Append(u, c)) = e \o <<c>>
      BY <2>2, <2>7, EscapedSteps
    <3>2. e \o <<c>> = Append(e, c)
      BY <2>1, AppendAsConcat
    <3>3. o \o Append(e, c) = Append(b, c)
      BY <2>1, <2>3, ConcatAppend, SMTT(30)
    <3>4. Scanned(Append(b, c)) = Scan(t, c)
      BY <2>1, <2>4, <2>5, ScannedSteps
    <3>5. Scan(t, c) = Extend(t, <<c>>, "quoted")
      BY <2>5, <2>7 DEF Scan
    <3>6. Extend(t, <<c>>, "quoted") = Reading(q, Append(u, c), "quoted")
      BY <2>1, <2>5, ExtendLast
    <3>7. Scanned(o \o Escaped(Append(u, c))) = Reading(q, Append(u, c), "quoted")
      BY <3>1, <3>2, <3>3, <3>4, <3>5, <3>6, Zenon
    <3> QED
      BY <3>7, Appends
  <2> QED
    BY <2>6, <2>7
<1>6. Seq(Clean) \subseteq T
  <2> HIDE DEF T
  <2> QED
    BY <1>4, <1>5, EachSequence
<1>7. Scanned(o \o Escaped(x)) = Reading(q, x, "quoted")
  BY <1>6
<1>8. PICK e \in Seq(Char) : e = Escaped(x)
  BY EscapedSteps, Characters, MoreSeq
<1>10. s \o (<<Quote>> \o e \o <<Quote>>) = Append(o \o e, Quote)
  BY <1>2, QuotesAdded, Zenon
<1>11. o \o e \in Seq(Char)
  BY Concatenated
<1>12. Scanned(Append(o \o e, Quote)) = Scan(Scanned(o \o e), Quote)
  BY <1>1, <1>11, ScannedSteps
<1>13. Scan(Reading(q, x, "quoted"), Quote) = Reading(q, x, "closed")
  <2> PICK t : t = Reading(q, x, "quoted")
    OBVIOUS
  <2>1. t.mode = "quoted"
    BY DEF Reading
  <2> QED
    BY <2>1 DEF Scan, Reading
<1> QED
  BY <1>7, <1>8, <1>10, <1>12, <1>13, Zenon

\* When the function has returned, the rest of the line is not looked at.
LEMMA Returned ==
    ASSUME NEW s \in Seq(Char), Scanned(s).mode \in {"comment", "many", "garbage"}, NEW w \in Seq(Char)
    PROVE  Scanned(s \o w) = Scanned(s)
<1> DEFINE T == {u \in Seq(Char) : Scanned(s \o u) = Scanned(s)}
<1>1. <<>> \in T
  <2>1. s \o <<>> = s /\ <<>> \in Seq(Char)
    BY Tuples, AppendAsConcat
  <2> QED
    BY <2>1
<1>2. ASSUME NEW u \in Seq(Char), NEW c \in Char, u \in T PROVE Append(u, c) \in T
  <2>1. s \o Append(u, c) = Append(s \o u, c) /\ s \o u \in Seq(Char)
    BY ConcatAppend, Concatenated
  <2>2. Scanned(Append(s \o u, c)) = Scan(Scanned(s \o u), c)
    BY <2>1, ScannedSteps
  <2>3. Scan(Scanned(s), c) = Scanned(s)
    BY DEF Scan
  <2>4. Scanned(s \o Append(u, c)) = Scanned(s)
    BY <1>2, <2>1, <2>2, <2>3
  <2> QED
    BY <2>4, Appends
<1>3. Seq(Char) \subseteq T
  <2> HIDE DEF T
  <2> QED
    BY <1>1, <1>2, EachSequence
<1> QED
  BY <1>3

\* There is no room for another token.
LEMMA ManyScan ==
    ASSUME NEW s \in Seq(Char), Scanned(s).mode = "gap", Len(Scanned(s).slots) > MaxArgs,
           NEW w \in Seq(Char), w # <<>>, w[1] \notin Blank
    PROVE  Scanned(s \o w).mode = "many"
<1> DEFINE T == {u \in Seq(Char) : u # <<>> /\ u[1] \notin Blank => Scanned(s \o u).mode = "many"}
<1>1. <<>> \in T
  BY Tuples
<1>2. ASSUME NEW u \in Seq(Char), NEW c \in Char, u \in T PROVE Append(u, c) \in T
  <2>1. s \o Append(u, c) = Append(s \o u, c) /\ s \o u \in Seq(Char)
    BY ConcatAppend, Concatenated
  <2>2. Scanned(Append(s \o u, c)) = Scan(Scanned(s \o u), c)
    BY <2>1, ScannedSteps
  <2>3. PICK x \in Seq(Char) : x = Append(u, c)
    BY Appends
  <2>4. Len(x) = Len(u) + 1 /\ x[Len(u) + 1] = c /\ \A i \in 1 .. Len(u) : x[i] = u[i]
    BY <2>3, Appends
  <2> SUFFICES ASSUME x[1] \notin Blank PROVE Scanned(s \o x).mode = "many"
    BY <2>3
  <2>5. CASE u = <<>>
    <3>1. s \o u = s /\ x[1] = c
      BY <2>4, <2>5, AppendAsConcat
    <3>2. PICK t : t = Scanned(s) /\ t.mode = "gap" /\ Len(t.slots) > MaxArgs
      OBVIOUS
    <3>3. t.slots # <<>>
      <4>1. Len(<<>>) = 0
        OBVIOUS
      <4> QED
        BY <3>2, <4>1, WireAssumption
    <3>4. Scan(t, c) = [t EXCEPT !.mode = "many"]
      BY <3>1, <3>2, <3>3 DEF Scan, BeginToken
    <3>5. [t EXCEPT !.mode = "many"].mode = "many"
      <4>1. t \in Scanning
        BY <3>2, ScannedSteps
      <4> QED
        BY <4>1 DEF Scanning
    <3> QED
      BY <2>1, <2>2, <2>3, <3>1, <3>2, <3>4, <3>5
  <2>6. CASE u # <<>>
    <3>1. 1 \in 1 .. Len(u)
      BY <2>6
    <3>2. u[1] \notin Blank
      BY <2>4, <3>1
    <3>3. Scanned(s \o u).mode = "many"
      BY <1>2, <2>6, <3>2
    <3>4. Scan(Scanned(s \o u), c) = Scanned(s \o u)
      BY <3>3 DEF Scan
    <3> QED
      BY <2>1, <2>2, <2>3, <3>3, <3>4
  <2> QED
    BY <2>5, <2>6
<1>3. Seq(Char) \subseteq T
  <2> HIDE DEF T
  <2> QED
    BY <1>1, <1>2, EachSequence
<1> QED
  BY <1>3

\* What the device makes of an argument.
Word(v) == IF v[1] = "str" THEN v[2] ELSE EncodeToken(v)

\* The device's view of a call: the name, then the words; or too many of them.
Heard(name, args, t) ==
    IF Len(args) > MaxArgs THEN t.mode = "many"
    ELSE /\ t.mode \in {"bare", "closed"}
         /\ Len(t.slots) = Len(args) + 1
         /\ t.slots[1] = name
         /\ \A i \in 1 .. Len(args) : t.slots[i + 1] = Word(args[i])

LEMMA BareName ==
    ASSUME NEW name, IsName(name)
    PROVE  Bare(name)
<1>1. name \in Seq(STRING) /\ name # <<>>
  BY DEF IsName
<1>2. \A i \in 1 .. Len(name) : name[i] \in Char /\ name[i] \notin Control
  <2>1. \A i \in 1 .. Len(name) : name[i] \in STRING /\ name[i] \notin Spaces
    BY <1>1 DEF IsName
  <2>2. Control \subseteq Spaces
    BY DEF Control, Spaces, Blank
  <2>3. STRING \subseteq Char
    BY Zenon DEF Char
  <2> HIDE DEF Control, Spaces, Char
  <2> QED
    BY <2>1, <2>2, <2>3
<1>3. name \in Seq(Clean)
  <2>1. \A i \in 1 .. Len(name) : name[i] \in Clean
    BY <1>2 DEF Clean
  <2>2. Len(name) \in Nat /\ name = [i \in 1 .. Len(name) |-> name[i]]
    BY <1>1
  <2> QED
    BY <1>1, <2>1, SeqOfRange
<1> QED
  BY <1>1, <1>3 DEF IsName, Bare, Spaces

\* The next word: the tokenizer has a blank behind it, and room.
LEMMA WordScan ==
    ASSUME NEW s \in Seq(Char), NEW q \in Seq(Seq(Char)), Ready(s, q), NEW v \in Value
    PROVE  \E mode \in {"bare", "closed"} : Scanned(s \o EncodeToken(v)) = Reading(q, Word(v), mode)
<1>1. CASE v[1] = "str" /\ NeedsQuoting(v[2])
  <2>1. v[2] \in Seq(Clean) /\ EncodeToken(v) = <<Quote>> \o Escaped(v[2]) \o <<Quote>>
    BY <1>1, Kinds, TokenOf
  <2>2. Scanned(s \o EncodeToken(v)) = Reading(q, v[2], "closed")
    BY <2>1, QuotedScan
  <2> QED
    BY <1>1, <2>2 DEF Word
<1>2. CASE ~(v[1] = "str" /\ NeedsQuoting(v[2]))
  <2>1. Bare(EncodeToken(v))
    BY <1>2, TokenShape
  <2>2. Scanned(s \o EncodeToken(v)) = Reading(q, EncodeToken(v), "bare")
    BY <2>1, BareScan
  <2>3. Word(v) = EncodeToken(v)
    BY <1>2, TokenOf DEF Word
  <2> QED
    BY <2>2, <2>3
<1> QED
  BY <1>1, <1>2

\* The first character of a token is not a blank.
LEMMA TokenBegins ==
    ASSUME NEW v \in Value
    PROVE  EncodeToken(v) \in Seq(Char) /\ EncodeToken(v) # <<>> /\ EncodeToken(v)[1] \notin Blank
<1>1. EncodeToken(v) \in Seq(Char)
  BY TokenType, Characters, MoreSeq
<1>2. CASE v[1] = "str" /\ NeedsQuoting(v[2])
  <2>1. v[2] \in Seq(Clean) /\ EncodeToken(v) = <<Quote>> \o Escaped(v[2]) \o <<Quote>>
    BY <1>2, Kinds, TokenOf
  <2>2. PICK k \in Seq(Clean) : k = <<Quote>> /\ Len(k) = 1 /\ k[1] = Quote
    BY Tuples, Characters
  <2>3. PICK e \in Seq(Clean) : e = Escaped(v[2])
    BY <2>1, EscapedSteps
  <2>4. PICK a \in Seq(Clean) : a = k \o e
    BY Concatenated
  <2>5. PICK b \in Seq(Clean) : b = a \o k
    BY Concatenated
  <2>6. Len(a) = 1 + Len(e) /\ Len(e) \in Nat /\ a[1] = Quote
    BY <2>2, <2>4, Concatenated
  <2>7. Len(b) = Len(a) + 1 /\ b[1] = Quote
    BY <2>2, <2>5, <2>6, Concatenated
  <2>8. Quote \notin Blank
    BY DEF Quote, Blank
  <2>9. b # <<>>
    BY <2>6, <2>7
  <2> QED
    BY <1>1, <2>1, <2>2, <2>3, <2>4, <2>5, <2>7, <2>8, <2>9
<1>3. CASE ~(v[1] = "str" /\ NeedsQuoting(v[2]))
  <2>1. Bare(EncodeToken(v))
    BY <1>3, TokenShape
  <2> QED
    BY <1>1, <2>1 DEF Bare
<1> QED
  BY <1>2, <1>3

\* A blank ends a token and begins nothing.
LEMMA BlankScan ==
    ASSUME NEW t \in Scanning, t.mode \in {"bare", "closed", "gap"}
    PROVE  Scan(t, " ") = [slots |-> t.slots, mode |-> "gap"]
<1>1. " " \in Blank
  BY DEF Blank
<1>2. t = [slots |-> t.slots, mode |-> t.mode]
  BY DEF Scanning
<1> QED
  BY <1>1, <1>2 DEF Scan

LEMMA CallScanned ==
    ASSUME NEW name, Bare(name), NEW args \in Seq(Value)
    PROVE  Heard(name, args, Scanned(Written(name, args)))
<1> DEFINE T == {a \in Seq(Value) : Heard(name, a, Scanned(Written(name, a)))}
<1>1. name \in Seq(Clean) /\ name \in Seq(Char)
  BY Characters, MoreSeq DEF Bare
<1>2. <<>> \in T
  <2>1. <<>> \in Seq(Char) /\ <<>> \in Seq(Seq(Char)) /\ Len(<<>>) = 0 /\ <<>> \in Seq(Value)
    BY Tuples
  <2>2. Ready(<<>>, <<>>)
    <3>1. Scanned(<<>>) = [slots |-> <<>>, mode |-> "gap"]
      BY <2>1, ScannedSteps
    <3>2. Len(<<>>) <= MaxArgs
      BY <2>1, WireAssumption
    <3> QED
      BY <3>1, <3>2 DEF Ready
  <2>3. Scanned(<<>> \o name) = Reading(<<>>, name, "bare")
    BY <2>1, <2>2, BareScan
  <2>4. <<>> \o name = name /\ Written(name, <<>>) = name
    BY <1>1, <2>1, AppendAsConcat, WrittenSteps
  <2>5. Append(<<>>, name) = <<name>>
    OBVIOUS
  <2>6. Scanned(name) = [slots |-> <<name>>, mode |-> "bare"]
    BY <2>3, <2>4, <2>5 DEF Reading
  <2>7. Heard(name, <<>>, Scanned(name))
    BY <2>1, <2>6, WireAssumption DEF Heard
  <2> QED
    BY <2>1, <2>4, <2>7
<1>3. ASSUME NEW a \in Seq(Value), NEW v \in Value, a \in T PROVE Append(a, v) \in T
  <2>1. PICK s \in Seq(Char) : s = Written(name, a)
    BY <1>1, WrittenSteps, Characters, MoreSeq
  <2>2. PICK b \in Seq(Char) : b = Append(s, " ")
    BY Characters, Appends
  <2>3. PICK w \in Seq(Char) : w = EncodeToken(v)
    BY TokenBegins
  <2>4. Written(name, Append(a, v)) = b \o w
    <3>1. Written(name, Append(a, v)) = Writing(Written(name, a), v)
      BY <1>1, WrittenSteps
    <3> QED
      BY <2>1, <2>2, <2>3, <3>1 DEF Writing
  <2>5. PICK t \in Scanning : t = Scanned(s)
    BY ScannedSteps
  <2>6. Heard(name, a, t)
    BY <1>3, <2>1, <2>5
  <2>7. Scanned(b) = Scan(t, " ")
    BY <2>2, <2>5, Characters, ScannedSteps
  <2>8. PICK x \in Seq(Value) : x = Append(a, v)
    BY Appends
  <2>9. Len(a) \in Nat /\ Len(x) = Len(a) + 1 /\ x[Len(a) + 1] = v /\ \A i \in 1 .. Len(a) : x[i] = a[i]
    BY <2>8, Appends
  <2>10. CASE Len(a) > MaxArgs
    <3>1. t.mode = "many"
      BY <2>6, <2>10 DEF Heard
    <3>2. Scan(t, " ") = t
      BY <3>1 DEF Scan
    <3>3. Scanned(b \o w) = Scanned(b)
      BY <2>7, <3>1, <3>2, Returned
    <3>4. Len(x) > MaxArgs
      BY <2>9, <2>10, WireAssumption
    <3> QED
      BY <2>4, <2>7, <2>8, <3>1, <3>2, <3>3, <3>4 DEF Heard
  <2>11. CASE ~(Len(a) > MaxArgs)
    <3>1. /\ t.mode \in {"bare", "closed"}
          /\ Len(t.slots) = Len(a) + 1
          /\ t.slots[1] = name
          /\ \A i \in 1 .. Len(a) : t.slots[i + 1] = Word(a[i])
      BY <2>6, <2>11 DEF Heard
    <3>2. PICK q \in Seq(Seq(Char)) : q = t.slots
      BY DEF Scanning
    <3>3. Scanned(b) = [slots |-> q, mode |-> "gap"]
      BY <2>7, <3>1, <3>2, BlankScan
    <3>4. CASE Len(x) > MaxArgs
      <4>1. Scanned(b).mode = "gap" /\ Len(Scanned(b).slots) > MaxArgs
        BY <2>9, <3>1, <3>2, <3>3, <3>4
      <4>2. w # <<>> /\ w[1] \notin Blank
        BY <2>3, TokenBegins
      <4>3. Scanned(b \o w).mode = "many"
        BY <4>1, <4>2, ManyScan
      <4> QED
        BY <2>4, <2>8, <3>4, <4>3 DEF Heard
    <3>5. CASE ~(Len(x) > MaxArgs)
      <4>1. Ready(b, q)
        BY <2>9, <3>1, <3>2, <3>3, <3>5, WireAssumption DEF Ready
      <4>2. PICK mode \in {"bare", "closed"} : Scanned(b \o w) = Reading(q, Word(v), mode)
        BY <2>3, <4>1, WordScan
      <4>3. Word(v) \in Seq(Char)
        <5>1. v[1] = "str" => v[2] \in Seq(Char)
          BY Kinds, Characters, MoreSeq
        <5> QED
          BY <5>1, TokenBegins DEF Word
      <4>4. PICK r : r = Append(q, Word(v))
        OBVIOUS
      <4>5. /\ Len(r) = Len(q) + 1 /\ r[Len(q) + 1] = Word(v)
            /\ \A i \in 1 .. Len(q) : r[i] = q[i]
        BY <4>3, <4>4, Appends
      <4>6. Scanned(b \o w) = [slots |-> r, mode |-> mode]
        BY <4>2, <4>4 DEF Reading
      <4>7. Len(r) = Len(x) + 1 /\ r[1] = name
        BY <2>9, <3>1, <3>2, <4>5, SMTT(30)
      <4>8. ASSUME NEW i \in 1 .. Len(x) PROVE r[i + 1] = Word(x[i])
        <5>1. CASE i = Len(x)
          BY <2>9, <3>1, <3>2, <4>5, <5>1
        <5>2. CASE i # Len(x)
          <6>1. i \in 1 .. Len(a) /\ i + 1 \in 1 .. Len(q)
            BY <2>9, <3>1, <3>2, <5>2, SMTT(30)
          <6> QED
            BY <2>9, <3>1, <3>2, <4>5, <6>1
        <5> QED
          BY <5>1, <5>2
      <4>9. PICK h : h = Scanned(b \o w) /\ h.slots = r /\ h.mode \in {"bare", "closed"}
        BY <4>6, SMTT(30)
      <4>10. Heard(name, x, h)
        BY <3>5, <4>7, <4>8, <4>9 DEF Heard
      <4> QED
        BY <2>4, <2>8, <4>9, <4>10
    <3> QED
      BY <3>4, <3>5
  <2> QED
    BY <2>10, <2>11
<1>4. Seq(Value) \subseteq T
  <2> HIDE DEF T
  <2> QED
    BY <1>2, <1>3, EachSequence
<1> QED
  BY <1>4

-----------------------------------------------------------------------------
(* A line of a buffer's length, however it arrives.                        *)

LEMMA FeedTwice ==
    ASSUME NEW l \in Assembled, NEW s \in Seq(Char), NEW t \in Seq(Char)
    PROVE  Feed(Feed(l, s), t) = Feed(l, s \o t)
<1> PICK m \in Assembled : m = Feed(l, s)
  BY FeedSteps
<1> DEFINE T == {u \in Seq(Char) : Feed(m, u) = Feed(l, s \o u)}
<1>1. <<>> \in T
  <2>1. Feed(m, <<>>) = m /\ s \o <<>> = s /\ <<>> \in Seq(Char)
    BY Tuples, FeedSteps, AppendAsConcat
  <2> QED
    BY <2>1
<1>2. ASSUME NEW u \in Seq(Char), NEW c \in Char, u \in T PROVE Append(u, c) \in T
  <2>1. s \o Append(u, c) = Append(s \o u, c) /\ s \o u \in Seq(Char)
    BY ConcatAppend, Concatenated
  <2>2. Feed(l, Append(s \o u, c)) = FeedOne(Feed(l, s \o u), c)
    BY <2>1, FeedSteps
  <2>3. Feed(m, Append(u, c)) = FeedOne(Feed(m, u), c)
    BY FeedSteps
  <2>4. Feed(m, Append(u, c)) = Feed(l, s \o Append(u, c))
    BY <1>2, <2>1, <2>2, <2>3
  <2> QED
    BY <2>4, Appends
<1>3. Seq(Char) \subseteq T
  <2> HIDE DEF T
  <2> QED
    BY <1>1, <1>2, EachSequence
<1> QED
  BY <1>3

\* The buffer has room for the NUL.
Fits(l) == Len(l.buf) < LineBuf

LEMMA FeedFits ==
    ASSUME NEW l \in Assembled, Fits(l), NEW s \in Seq(Char)
    PROVE  Fits(Feed(l, s))
<1> DEFINE T == {u \in Seq(Char) : Fits(Feed(l, u))}
<1>1. <<>> \in T
  BY Tuples, FeedSteps
<1>2. ASSUME NEW u \in Seq(Char), NEW c \in Char, u \in T PROVE Append(u, c) \in T
  <2>1. Feed(l, Append(u, c)) = FeedOne(Feed(l, u), c)
    BY FeedSteps
  <2>2. PICK m \in Assembled : m = Feed(l, u)
    BY FeedSteps
  <2>3. Fits(m) /\ m.buf \in Seq(Char) /\ LineBuf \in Nat
    BY <1>2, <2>2, WireAssumption DEF Assembled
  <2> PICK b : b = Append(m.buf, c)
    OBVIOUS
  <2>4. b = Append(m.buf, c) /\ Len(b) = Len(m.buf) + 1 /\ Len(m.buf) \in Nat
    BY <2>3, Appends
  <2>5. [m EXCEPT !.buf = b].buf = b /\ [m EXCEPT !.overflow = TRUE].buf = m.buf
    BY DEF Assembled
  <2>6. Len(m.buf) < LineBuf - 1 => Len(b) < LineBuf
    BY <2>3, <2>4
  <2>7. Fits(FeedOne(m, c))
    <3>1. CASE c \in {"\n", "\r"}
      BY <2>3, <3>1 DEF FeedOne
    <3>2. CASE c \notin {"\n", "\r"} /\ Len(m.buf) < LineBuf - 1
      <4>1. FeedOne(m, c) = [m EXCEPT !.buf = b]
        BY <2>4, <3>2 DEF FeedOne
      <4> QED
        BY <2>5, <2>6, <3>2, <4>1 DEF Fits
    <3>3. CASE c \notin {"\n", "\r"} /\ ~(Len(m.buf) < LineBuf - 1)
      <4>1. FeedOne(m, c) = [m EXCEPT !.overflow = TRUE]
        BY <3>3 DEF FeedOne
      <4> QED
        BY <2>3, <2>5, <4>1 DEF Fits
    <3> QED
      BY <3>1, <3>2, <3>3
  <2> QED
    BY <2>1, <2>2, <2>7, Appends
<1>3. Seq(Char) \subseteq T
  <2> HIDE DEF T
  <2> QED
    BY <1>1, <1>2, EachSequence
<1> QED
  BY <1>3

\* A line is kept whole, or its beginning is and the overflow noted.
Stored(k) == IF Len(k) < LineBuf THEN [buf |-> k, overflow |-> FALSE]
             ELSE [buf |-> SubSeq(k, 1, LineBuf - 1), overflow |-> TRUE]

LEMMA FirstPart ==
    ASSUME NEW S, NEW k \in Seq(S), NEW n \in Nat, n <= Len(k)
    PROVE  /\ SubSeq(k, 1, n) \in Seq(S) /\ Len(SubSeq(k, 1, n)) = n
           /\ \A i \in 1 .. n : SubSeq(k, 1, n)[i] = k[i]
OBVIOUS

LEMMA StoredMore ==
    ASSUME NEW k \in Seq(Char), NEW c \in Char, c \notin {"\n", "\r"}
    PROVE  FeedOne(Stored(k), c) = Stored(Append(k, c))
<1>1. PICK a \in Seq(Char) : a = Append(k, c)
  BY Appends
<1>2. Len(a) = Len(k) + 1 /\ Len(k) \in Nat /\ \A i \in 1 .. Len(k) : a[i] = k[i]
  BY <1>1, Appends
<1>3. LineBuf \in Nat /\ LineBuf >= 1
  BY WireAssumption
<1>6. LineBuf - 1 \in Nat
  BY <1>3
<1>4. CASE Len(a) < LineBuf
  <2>1. Len(k) < LineBuf /\ Len(k) < LineBuf - 1
    BY <1>2, <1>3, <1>4
  <2>2. Stored(k) = [buf |-> k, overflow |-> FALSE]
    BY <2>1 DEF Stored
  <2>3. Stored(a) = [buf |-> a, overflow |-> FALSE]
    BY <1>4 DEF Stored
  <2>4. FeedOne([buf |-> k, overflow |-> FALSE], c) = [buf |-> Append(k, c), overflow |-> FALSE]
    BY <2>1 DEF FeedOne
  <2> QED
    BY <1>1, <2>2, <2>3, <2>4
<1>5. CASE ~(Len(a) < LineBuf)
  <2>1. Stored(a) = [buf |-> SubSeq(a, 1, LineBuf - 1), overflow |-> TRUE]
    BY <1>5 DEF Stored
  <2>6. LineBuf - 1 <= Len(a)
    BY <1>2, <1>3, <1>5
  <2>2. PICK b \in Seq(Char) : b = SubSeq(a, 1, LineBuf - 1)
    BY <1>6, <2>6, FirstPart
  <2>3. Len(b) = LineBuf - 1 /\ \A i \in 1 .. LineBuf - 1 : b[i] = a[i]
    BY <1>6, <2>2, <2>6, FirstPart
  <2>4. CASE Len(k) < LineBuf
    <3>1. Len(k) = LineBuf - 1
      BY <1>2, <1>3, <1>5, <2>4
    <3>2. b = k
      <4>1. \A i \in 1 .. Len(b) : b[i] = k[i]
        BY <1>2, <2>3, <3>1
      <4> QED
        BY <2>3, <3>1, <4>1, SeqEqual
    <3>3. Stored(k) = [buf |-> k, overflow |-> FALSE]
      BY <2>4 DEF Stored
    <3>4. FeedOne([buf |-> k, overflow |-> FALSE], c) = [buf |-> k, overflow |-> TRUE]
      <4>1. ~(Len(k) < LineBuf - 1)
        BY <1>3, <3>1
      <4> QED
        BY <4>1 DEF FeedOne
    <3> QED
      BY <1>1, <2>1, <2>2, <3>2, <3>3, <3>4
  <2>5. CASE ~(Len(k) < LineBuf)
    <3>6. LineBuf - 1 <= Len(k)
      BY <1>2, <1>3, <2>5
    <3>1. PICK d \in Seq(Char) : d = SubSeq(k, 1, LineBuf - 1)
      BY <1>6, <3>6, FirstPart
    <3>2. Len(d) = LineBuf - 1 /\ \A i \in 1 .. LineBuf - 1 : d[i] = k[i]
      BY <1>6, <3>1, <3>6, FirstPart
    <3>3. b = d
      <4>1. \A i \in 1 .. Len(b) : b[i] = d[i]
        BY <1>2, <1>3, <2>3, <2>5, <3>2
      <4> QED
        BY <2>3, <3>2, <4>1, SeqEqual
    <3>4. Stored(k) = [buf |-> d, overflow |-> TRUE]
      BY <2>5, <3>1 DEF Stored
    <3>5. FeedOne([buf |-> d, overflow |-> TRUE], c) = [buf |-> d, overflow |-> TRUE]
      <4>1. ~(Len(d) < LineBuf - 1)
        BY <1>3, <3>2
      <4> QED
        BY <4>1 DEF FeedOne
    <3> QED
      BY <1>1, <2>1, <2>2, <3>3, <3>4, <3>5
  <2> QED
    BY <2>4, <2>5
<1> QED
  BY <1>1, <1>4, <1>5

LEMMA LineStored ==
    ASSUME NEW s \in Seq(Char)
    PROVE  Feed(EmptyLine, s) = Stored(Kept(s))
<1> DEFINE T == {u \in Seq(Char) : Feed(EmptyLine, u) = Stored(Kept(u))}
<1>1. EmptyLine \in Assembled
  BY Tuples DEF EmptyLine, Assembled
<1>2. <<>> \in T
  <2>1. <<>> \in Seq(Char) /\ Len(<<>>) = 0 /\ Kept(<<>>) = <<>> /\ Feed(EmptyLine, <<>>) = EmptyLine
    BY <1>1, Tuples, KeptSteps, FeedSteps
  <2>2. Stored(<<>>) = EmptyLine
    BY <2>1, WireAssumption DEF Stored, EmptyLine
  <2> QED
    BY <2>1, <2>2
<1>3. ASSUME NEW u \in Seq(Char), NEW c \in Char, u \in T PROVE Append(u, c) \in T
  <2>1. Feed(EmptyLine, Append(u, c)) = FeedOne(Feed(EmptyLine, u), c)
    BY <1>1, FeedSteps
  <2>2. Kept(Append(u, c)) = Keep(Kept(u), c) /\ Kept(u) \in Seq(Char)
    BY KeptSteps
  <2>3. CASE c \in {"\n", "\r"}
    <3>1. FeedOne(Feed(EmptyLine, u), c) = Feed(EmptyLine, u) /\ Keep(Kept(u), c) = Kept(u)
      BY <2>3 DEF FeedOne, Keep
    <3>2. Feed(EmptyLine, Append(u, c)) = Stored(Kept(Append(u, c)))
      BY <1>3, <2>1, <2>2, <3>1
    <3> QED
      BY <3>2, Appends
  <2>4. CASE c \notin {"\n", "\r"}
    <3>1. FeedOne(Stored(Kept(u)), c) = Stored(Append(Kept(u), c))
      BY <2>2, <2>4, StoredMore
    <3>2. Keep(Kept(u), c) = Append(Kept(u), c)
      BY <2>4 DEF Keep
    <3>3. Feed(EmptyLine, Append(u, c)) = Stored(Kept(Append(u, c)))
      BY <1>3, <2>1, <2>2, <3>1, <3>2
    <3> QED
      BY <3>3, Appends
  <2> QED
    BY <2>3, <2>4
<1>4. Seq(Char) \subseteq T
  <2> HIDE DEF T
  <2> QED
    BY <1>2, <1>3, EachSequence
<1> QED
  BY <1>4

\* A call has nothing to drop but its end.
LEMMA KeptClean ==
    ASSUME NEW s \in Seq(Clean)
    PROVE  Kept(s) = s /\ Kept(Append(s, "\n")) = s
<1> DEFINE T == {u \in Seq(Clean) : Kept(u) = u}
<1>1. <<>> \in T
  BY Tuples, KeptSteps
<1>2. ASSUME NEW u \in Seq(Clean), NEW c \in Clean, u \in T PROVE Append(u, c) \in T
  <2>1. c \in Char /\ u \in Seq(Char) /\ c \notin {"\n", "\r"}
    BY Characters, MoreSeq DEF Clean, Control
  <2>2. Kept(Append(u, c)) = Append(u, c)
    BY <1>2, <2>1, KeptSteps DEF Keep
  <2> QED
    BY <2>2, Appends
<1>3. Seq(Clean) \subseteq T
  <2> HIDE DEF T
  <2> QED
    BY <1>1, <1>2, EachSequence
<1>4. Kept(s) = s
  BY <1>3
<1>5. s \in Seq(Char) /\ "\n" \in Char
  BY Characters, MoreSeq
<1>6. Kept(Append(s, "\n")) = Keep(Kept(s), "\n")
  BY <1>5, KeptSteps
<1> QED
  BY <1>4, <1>6 DEF Keep

-----------------------------------------------------------------------------
(* Slices: what is between two positions.                                  *)

Slice(a, i, j) == SubSeq(a, i + 1, j)

LEMMA SliceOf ==
    ASSUME NEW S, NEW a \in Seq(S), NEW i \in Nat, NEW j \in Nat, i <= j, j <= Len(a)
    PROVE  /\ Slice(a, i, j) \in Seq(S) /\ Len(Slice(a, i, j)) = j - i
           /\ \A k \in 1 .. j - i : Slice(a, i, j)[k] = a[i + k]
<1>1. \A x \in i + 1 .. j : a[x] \in S
  OBVIOUS
<1>2. SubSeq(a, i + 1, j) \in Seq(S) /\ Len(SubSeq(a, i + 1, j)) = j - i
  BY <1>1
<1>3. \A k \in 1 .. j - i : SubSeq(a, i + 1, j)[k] = a[i + k]
  BY <1>1
<1> QED
  BY <1>2, <1>3 DEF Slice

LEMMA SliceJoin ==
    ASSUME NEW S, NEW a \in Seq(S), NEW i \in Nat, NEW j \in Nat, NEW k \in Nat, i <= j, j <= k, k <= Len(a)
    PROVE  Slice(a, i, j) \o Slice(a, j, k) = Slice(a, i, k)
<1>1. j <= Len(a) /\ i <= k
  OBVIOUS
<1>2. PICK x \in Seq(S) : x = Slice(a, i, j)
  BY <1>1, SliceOf
<1>3. Len(x) = j - i /\ \A m \in 1 .. j - i : x[m] = a[i + m]
  BY <1>1, <1>2, SliceOf, SMTT(30)
<1>4. PICK y \in Seq(S) : y = Slice(a, j, k)
  BY <1>1, SliceOf
<1>5. Len(y) = k - j /\ \A m \in 1 .. k - j : y[m] = a[j + m]
  BY <1>1, <1>4, SliceOf, ZenonT(60)
<1>6. PICK z \in Seq(S) : z = Slice(a, i, k)
  BY <1>1, SliceOf
<1>7. Len(z) = k - i /\ \A m \in 1 .. k - i : z[m] = a[i + m]
  BY <1>1, <1>6, SliceOf, ZenonT(60)
<1>8. PICK b \in Seq(S) : b = x \o y
  BY Concatenated
<1>9. /\ Len(b) = Len(x) + Len(y)
      /\ \A m \in 1 .. Len(x) : b[m] = x[m]
      /\ \A m \in 1 .. Len(y) : b[Len(x) + m] = y[m]
  BY <1>8, Concatenated
<1>10. Len(b) = Len(z)
  BY <1>1, <1>3, <1>5, <1>7, <1>9
<1>11. ASSUME NEW m \in 1 .. Len(b) PROVE b[m] = z[m]
  <2>1. m \in 1 .. k - i /\ z[m] = a[i + m]
    BY <1>7, <1>10
  <2>2. CASE m \in 1 .. j - i
    BY <1>3, <1>9, <2>1, <2>2
  <2>3. CASE m \notin 1 .. j - i
    <3>1. m - (j - i) \in 1 .. k - j
      BY <2>1, <2>3, SMTT(30)
    <3>2. PICK d \in 1 .. k - j : d = m - (j - i)
      BY <3>1
    <3>3. m = Len(x) + d /\ j + d = i + m
      BY <1>3, <3>2
    <3> QED
      BY <1>5, <1>9, <2>1, <3>3
  <2> QED
    BY <2>2, <2>3
<1>12. b = z
  BY <1>10, <1>11, SeqEqual
<1> QED
  BY <1>2, <1>4, <1>6, <1>8, <1>12

LEMMA SliceSlice ==
    ASSUME NEW S, NEW a \in Seq(S), NEW i \in Nat, NEW j \in Nat, i <= j, j <= Len(a),
           NEW k \in Nat, NEW m \in Nat, k <= m, m <= j - i
    PROVE  Slice(Slice(a, i, j), k, m) = Slice(a, i + k, i + m)
<1>1. PICK x \in Seq(S) : x = Slice(a, i, j)
  BY SliceOf
<1>2. Len(x) = j - i /\ \A d \in 1 .. j - i : x[d] = a[i + d]
  BY <1>1, SliceOf, SMTT(30)
<1>11. m <= Len(x)
  BY <1>2
<1>12. /\ Slice(x, k, m) \in Seq(S) /\ Len(Slice(x, k, m)) = m - k
       /\ \A d \in 1 .. m - k : Slice(x, k, m)[d] = x[k + d]
  BY <1>11, SliceOf, ZenonT(60)
<1>3. PICK y \in Seq(S) : y = Slice(x, k, m)
  BY <1>12
<1>4. Len(y) = m - k /\ \A d \in 1 .. m - k : y[d] = x[k + d]
  BY <1>3, <1>12
<1>5. PICK p \in Nat, q \in Nat : p = i + k /\ q = i + m /\ p <= q /\ q <= Len(a)
  OBVIOUS
<1>14. p \in Nat /\ q \in Nat /\ p <= q /\ q <= Len(a)
  BY <1>5
<1>13. /\ Slice(a, p, q) \in Seq(S) /\ Len(Slice(a, p, q)) = q - p
       /\ \A d \in 1 .. q - p : Slice(a, p, q)[d] = a[p + d]
  BY <1>14, SliceOf, ZenonT(60)
<1>6. PICK z \in Seq(S) : z = Slice(a, p, q)
  BY <1>13
<1>7. Len(z) = q - p /\ \A d \in 1 .. q - p : z[d] = a[p + d]
  BY <1>6, <1>13
<1>8. Len(y) = Len(z)
  BY <1>4, <1>5, <1>7
<1>9. ASSUME NEW d \in 1 .. Len(y) PROVE y[d] = z[d]
  <2>1. d \in 1 .. m - k /\ d \in 1 .. q - p /\ k + d \in 1 .. j - i
    BY <1>4, <1>5
  <2>2. y[d] = x[k + d] /\ z[d] = a[p + d] /\ x[k + d] = a[i + (k + d)]
    BY <1>2, <1>4, <1>7, <2>1
  <2>3. i + (k + d) = p + d
    BY <1>5, <2>1
  <2> QED
    BY <2>2, <2>3
<1>10. y = z
  BY <1>8, <1>9, SeqEqual
<1> QED
  BY <1>1, <1>3, <1>5, <1>6, <1>10

\* The whole, and nothing.
LEMMA SliceEnds ==
    ASSUME NEW S, NEW a \in Seq(S), NEW i \in Nat
    PROVE  Slice(a, 0, Len(a)) = a /\ Slice(a, i, i) = <<>> /\ Slice(a, Len(a), Len(a)) = <<>>
<1>1. Slice(a, 0, Len(a)) = a
  BY SubSeqFull DEF Slice
<1>2. \A j \in Nat : SubSeq(a, j + 1, j) = <<>>
  BY SubSeqEmpty
<1> QED
  BY <1>1, <1>2 DEF Slice

LEMMA SliceConcat ==
    ASSUME NEW S, NEW x \in Seq(S), NEW y \in Seq(S)
    PROVE  /\ Slice(x \o y, 0, Len(x)) = x
           /\ Slice(x \o y, Len(x), Len(x) + Len(y)) = y
<1>1. PICK a \in Seq(S) : a = x \o y
  BY Concatenated
<1>2. /\ Len(a) = Len(x) + Len(y) /\ Len(x) \in Nat /\ Len(y) \in Nat
      /\ \A m \in 1 .. Len(x) : a[m] = x[m]
      /\ \A m \in 1 .. Len(y) : a[Len(x) + m] = y[m]
  BY <1>1, Concatenated
<1>3. PICK m \in Nat, n \in Nat : m = Len(x) /\ n = Len(y)
  BY <1>2
<1>4. m <= Len(a) /\ m + n \in Nat /\ m <= m + n /\ m + n <= Len(a) /\ 0 <= m
  BY <1>2, <1>3
<1>5. Slice(a, 0, m) = x
  <2>1. PICK b \in Seq(S) : b = Slice(a, 0, m)
    BY <1>4, SliceOf
  <2>2. Len(b) = m /\ \A d \in 1 .. m : b[d] = a[d]
    BY <1>4, <2>1, FirstPart DEF Slice
  <2>3. Len(b) = Len(x) /\ \A d \in 1 .. Len(b) : b[d] = x[d]
    BY <1>2, <1>3, <2>2
  <2> QED
    BY <2>1, <2>3, SeqEqual
<1>6. Slice(a, m, m + n) = y
  <2>1. PICK b \in Seq(S) : b = Slice(a, m, m + n)
    BY <1>4, SliceOf
  <2>2. Len(b) = (m + n) - m /\ \A d \in 1 .. (m + n) - m : b[d] = a[m + d]
    BY <1>4, <2>1, SliceOf, ZenonT(60)
  <2>3. Len(b) = Len(y) /\ \A d \in 1 .. Len(b) : b[d] = y[d]
    BY <1>2, <1>3, <2>2
  <2> QED
    BY <2>1, <2>3, SeqEqual
<1> QED
  BY <1>1, <1>3, <1>5, <1>6

\* What is left of the rest, and what is taken from it.
LEMMA SliceRest ==
    ASSUME NEW S, NEW a \in Seq(S), NEW p \in Nat, NEW z \in Nat, NEW n \in Nat,
           p <= z, z <= Len(a), n <= z - p
    PROVE  /\ Slice(Slice(a, p, z), n, z - p) = Slice(a, p + n, z)
           /\ Slice(Slice(a, p, z), 0, n) = Slice(a, p, p + n)
<1>1. PICK d \in Nat : d = z - p
  OBVIOUS
<1>2. n <= d /\ d <= z - p
  BY <1>1
<1>3. Slice(Slice(a, p, z), n, d) = Slice(a, p + n, p + d)
  BY <1>2, SliceSlice
<1>4. 0 \in Nat /\ 0 <= n
  OBVIOUS
<1>5. Slice(Slice(a, p, z), 0, n) = Slice(a, p + 0, p + n)
  BY <1>4, SliceSlice
<1>6. p + d = z /\ p + 0 = p
  BY <1>1
<1> QED
  BY <1>1, <1>3, <1>5, <1>6, Zenon

-----------------------------------------------------------------------------
(* The requests.                                                           *)

\* A text is one line.
OneLine(text) == /\ text \in Seq(Char) /\ text # <<>>
                 /\ \A i \in 1 .. Len(text) : text[i] = "\n" <=> i = Len(text)

LEMMA ValueOf ==
    ASSUME NEW v, IsValue(v), Encodable(v)
    PROVE  v \in Value
<1>1. CASE v = Integer(v[2]) /\ v[2] \in Int
  BY <1>1 DEF Value
<1>2. CASE v = Truth(v[2]) /\ v[2] \in BOOLEAN
  BY <1>2 DEF Value
<1>3. CASE v = Text(v[2]) /\ v[2] \in Seq(STRING)
  <2> PICK s : s = v[2]
    OBVIOUS
  <2>1. v[1] = "str"
    BY <1>3 DEF Text
  <2>2. s \in Seq(STRING) /\ \A i \in 1 .. Len(s) : s[i] \notin Control
    BY <1>3, <2>1 DEF Encodable
  <2>3. STRING \subseteq Char
    BY Zenon DEF Char
  <2>4. \A i \in 1 .. Len(s) : s[i] \in Clean
    <3>1. \A i \in 1 .. Len(s) : s[i] \in STRING
      BY <2>2
    <3>2. \A i \in 1 .. Len(s) : s[i] \in Char
      BY <2>3, <3>1
    <3> QED
      BY <2>2, <3>2 DEF Clean
  <2>5. s \in Seq(Clean)
    BY <2>2, <2>4, SeqOfRange
  <2> QED
    BY <1>3, <2>5 DEF Value
<1> QED
  BY <1>1, <1>2, <1>3 DEF IsValue

LEMMA CallText ==
    ASSUME NEW r, IsCall(r)
    PROVE  /\ Bare(r.name) /\ r.args \in Seq(Value) /\ r.kind = "call"
           /\ Written(r.name, r.args) \in Seq(Clean)
           /\ r.text = Append(Written(r.name, r.args), "\n")
<1>1. Bare(r.name)
  BY BareName DEF IsCall
<1> PICK args : args = r.args
  OBVIOUS
<1>2. args \in Seq({args[i] : i \in DOMAIN args})
  BY DEF IsCall
<1>3. \A i \in DOMAIN args : args[i] \in Value
  BY ValueOf DEF IsCall
<1>4. {args[i] : i \in DOMAIN args} \subseteq Value
  BY <1>3
<1>5. args \in Seq(Value)
  <2> PICK T : T = {args[i] : i \in DOMAIN args}
    OBVIOUS
  <2>1. args \in Seq(T) /\ T \subseteq Value
    BY <1>2, <1>4
  <2> QED
    BY <2>1, MoreSeq
<1>6. r.text = EncodeCall(r.name, r.args) /\ r.kind = "call"
  BY DEF IsCall, Call
<1>7. r.name \in Seq(Clean)
  BY <1>1 DEF Bare
<1> QED
  BY <1>1, <1>5, <1>6, <1>7, WrittenSteps DEF EncodeCall

LEMMA RequestText ==
    ASSUME NEW r, IsCall(r) \/ IsRaw(r)
    PROVE  OneLine(r.text)
<1>1. CASE IsCall(r)
  <2>1. PICK s \in Seq(Clean) : r.text = Append(s, "\n")
    BY <1>1, CallText
  <2>2. s \in Seq(Char) /\ "\n" \in Char
    BY Characters, MoreSeq
  <2>3. PICK t \in Seq(Char) : t = Append(s, "\n")
    BY <2>2, Appends
  <2>4. /\ Len(t) = Len(s) + 1 /\ Len(s) \in Nat /\ t[Len(s) + 1] = "\n"
        /\ \A i \in 1 .. Len(s) : t[i] = s[i] /\ s[i] \in Clean
    BY <2>3, Appends
  <2>5. "\n" \notin Clean
    BY DEF Clean, Control
  <2>6. ASSUME NEW i \in 1 .. Len(t) PROVE t[i] = "\n" <=> i = Len(t)
    <3>1. CASE i \in 1 .. Len(s)
      BY <2>4, <2>5, <3>1
    <3>2. CASE i = Len(s) + 1
      BY <2>4, <3>2
    <3> QED
      BY <2>4, <3>1, <3>2
  <2>7. t # <<>>
    BY <2>4
  <2> QED
    BY <2>1, <2>3, <2>6, <2>7 DEF OneLine
<1>2. CASE IsRaw(r)
  <2>1. r.text \in Seq(STRING) /\ r.text # <<>> /\ \A i \in DOMAIN r.text : r.text[i] = "\n" <=> i = Len(r.text)
    BY <1>2 DEF IsRaw
  <2>2. STRING \subseteq Char
    BY Zenon DEF Char
  <2> PICK x : x = r.text
    OBVIOUS
  <2>3. x \in Seq(Char) /\ DOMAIN x = 1 .. Len(x)
    <3>1. x \in Seq(STRING)
      BY <2>1
    <3>2. x \in Seq(Char)
      BY <2>2, <3>1, MoreSeq, Zenon
    <3> QED
      BY <3>2
  <2> QED
    BY <2>1, <2>3 DEF OneLine
<1> QED
  BY <1>1, <1>2

\* The two lines that are sent.
Sent == /\ reqs \in Requests /\ reqs = <<reqs[1], reqs[2]>>
        /\ \A i \in {1, 2} : (IsCall(reqs[i]) \/ IsRaw(reqs[i])) /\ OneLine(reqs[i].text)

LEMMA RequestsSent == ASSUME reqs \in Requests PROVE Sent
BY RequestsAssumption, RequestText DEF Sent

All == reqs[1].text \o reqs[2].text

\* Where a line starts, of the first, the second and the line that never comes.
Start(c) == IF c = 1 THEN 0 ELSE IF c = 2 THEN Len(reqs[1].text) ELSE Len(reqs[1].text) + Len(reqs[2].text)

LEMMA Layout ==
    ASSUME Sent
    PROVE  /\ All \in Seq(Char) /\ Len(All) = Start(3)
           /\ Start(1) = 0 /\ Start(2) \in Nat /\ Start(3) \in Nat /\ 0 < Start(2) /\ Start(2) < Start(3)
           /\ \A i \in 1 .. Start(3) : All[i] = "\n" <=> (i = Start(2) \/ i = Start(3))
           /\ \A c \in {1, 2} : Slice(All, Start(c), Start(c + 1)) = reqs[c].text
<1>1. PICK x \in Seq(Char) : x = reqs[1].text
  BY DEF Sent, OneLine
<1>2. PICK y \in Seq(Char) : y = reqs[2].text
  BY DEF Sent, OneLine
<1>3. PICK a \in Seq(Char) : a = x \o y
  BY Concatenated
<1>4. All = a
  BY <1>1, <1>2, <1>3 DEF All
<1>5. PICK m \in Nat, n \in Nat : m = Len(x) /\ n = Len(y)
  OBVIOUS
<1>6. m > 0 /\ n > 0
  <2>1. x # <<>> /\ y # <<>>
    BY <1>1, <1>2 DEF Sent, OneLine
  <2> QED
    BY <1>5, <2>1
<1>7. /\ Len(a) = m + n
      /\ \A i \in 1 .. m : a[i] = x[i]
      /\ \A i \in 1 .. n : a[m + i] = y[i]
  BY <1>3, <1>5, Concatenated
<1>8. Start(1) = 0 /\ Start(2) = m /\ Start(3) = m + n
  BY <1>1, <1>2, <1>5 DEF Start
<1>9. /\ \A i \in 1 .. m : x[i] = "\n" <=> i = m
      /\ \A i \in 1 .. n : y[i] = "\n" <=> i = n
  BY <1>1, <1>2, <1>5 DEF Sent, OneLine
<1>10. ASSUME NEW i \in 1 .. m + n PROVE a[i] = "\n" <=> (i = m \/ i = m + n)
  <2>1. CASE i \in 1 .. m
    BY <1>6, <1>7, <1>9, <2>1, SMTT(30)
  <2>2. CASE i \notin 1 .. m
    <3>1. i - m \in 1 .. n
      BY <2>2
    <3>2. PICK k \in 1 .. n : k = i - m
      BY <3>1
    <3>3. i = m + k /\ i # m
      BY <3>2
    <3>4. a[i] = y[k] /\ (y[k] = "\n" <=> k = n)
      BY <1>7, <1>9, <3>3
    <3> QED
      BY <3>3, <3>4
  <2> QED
    BY <2>1, <2>2
<1>11. Slice(a, 0, m) = x /\ Slice(a, m, m + n) = y
  BY <1>3, <1>5, SliceConcat
<1>12. \A c \in {1, 2} : Slice(All, Start(c), Start(c + 1)) = reqs[c].text
  <2>1. Slice(All, Start(1), Start(2)) = reqs[1].text /\ Slice(All, Start(2), Start(3)) = reqs[2].text
    BY <1>1, <1>2, <1>4, <1>8, <1>11
  <2> QED
    BY <2>1
<1>13. Start(2) \in Nat /\ Start(3) \in Nat /\ 0 < Start(2) /\ Start(2) < Start(3)
  BY <1>6, <1>8
<1>14. \A i \in 1 .. Start(3) : All[i] = "\n" <=> (i = Start(2) \/ i = Start(3))
  BY <1>4, <1>8, <1>10
<1>15. All \in Seq(Char) /\ Len(All) = Start(3)
  BY <1>4, <1>7, <1>8
<1> HIDE DEF Start, All
<1> QED
  BY <1>8, <1>12, <1>13, <1>14, <1>15

-----------------------------------------------------------------------------
(* The invariant.                                                          *)

TypeInv == /\ line \in Assembled /\ Fits(line)
           /\ running \in BOOLEAN
           /\ queued \in 0 .. Depth
           /\ pc \in {"idle", "flush", "read"}
           /\ pc # "idle" => running
           /\ inits \in 0 .. MaxInits

\* The c-th line is being read, and p bytes have been, of both.
At(c, p) == /\ c \in 1 .. 3 /\ p \in Nat
            /\ Start(c) <= p /\ (c = 3 => p = Start(3)) /\ (c # 3 => p < Start(c + 1))
            /\ wire = Slice(All, p, Start(3))
            /\ c \notin cut => line = Feed(EmptyLine, Slice(All, Start(c), p))

\* An answer is what the device makes of the line as it was sent, whatever the variable held.
Faithful(a) == \E v : /\ Handle(Feed(EmptyLine, reqs[a.to].text), v).kind # "blank"
                      /\ a.kind = Handle(Feed(EmptyLine, reqs[a.to].text), v).kind
                      /\ a.name = Handle(Feed(EmptyLine, reqs[a.to].text), v).name
                      /\ a.ret = Handle(Feed(EmptyLine, reqs[a.to].text), v).ret

Behind(c) == /\ cut \subseteq {1, 2} /\ \A x \in cut : x <= c
             /\ \A k \in DOMAIN answers : /\ answers[k].to \in {1, 2} /\ answers[k].to < c
                                          /\ k > 1 => answers[k-1].to < answers[k].to
                                          /\ answers[k].to \notin cut => Faithful(answers[k])

Progress == \E c, p : At(c, p) /\ Behind(c)

AnySeq(s) == s \in Seq({s[k] : k \in 1 .. Len(s)})

\* An answer to a set that succeeded.
Sets(a) == a.kind = "ok" /\ Commands[a.name].does = "set"

\* The last such answer, m, without a maximum to compute: what VariableHolds
\* says of Max, as an invariant that a step can preserve.
LastSet(m) == /\ m \in DOMAIN answers
              /\ Sets(answers[m])
              /\ \A k \in DOMAIN answers : Sets(answers[k]) => k <= m

VarInv == \/ /\ \A k \in DOMAIN answers : ~Sets(answers[k])
             /\ var = Integer(0)
          \/ \E m \in DOMAIN answers : LastSet(m) /\ var = answers[m].ret[1]

IInv == Sent /\ TypeInv /\ Progress /\ AnySeq(answers) /\ VarInv

LEMMA AppendAnySeq ==
    ASSUME NEW s, NEW e, AnySeq(s)
    PROVE  /\ AnySeq(Append(s, e))
           /\ Len(s) \in Nat
           /\ Len(Append(s, e)) = Len(s) + 1
           /\ DOMAIN s = 1 .. Len(s)
           /\ DOMAIN Append(s, e) = 1 .. Len(s) + 1
           /\ \A k \in 1 .. Len(s) : Append(s, e)[k] = s[k]
           /\ Append(s, e)[Len(s) + 1] = e
<1> DEFINE S == {s[k] : k \in 1 .. Len(s)} \cup {e}
           new == Append(s, e)
<1>1. s \in Seq(S)
  <2>1. s \in Seq({s[k] : k \in 1 .. Len(s)})
    BY DEF AnySeq
  <2>2. {s[k] : k \in 1 .. Len(s)} \subseteq S
    OBVIOUS
  <2> HIDE DEF S
  <2> QED
    BY <2>1, <2>2
<1>2. e \in S
  OBVIOUS
<1> HIDE DEF S
<1>3. /\ new \in Seq(S) /\ Len(s) \in Nat /\ Len(new) = Len(s) + 1
      /\ DOMAIN s = 1 .. Len(s) /\ DOMAIN new = 1 .. Len(s) + 1
      /\ \A k \in 1 .. Len(s) : new[k] = s[k]
      /\ new[Len(s) + 1] = e
  BY <1>1, <1>2
<1>4. new \in Seq({new[k] : k \in 1 .. Len(new)})
  <2> HIDE DEF new
  <2> QED
    BY <1>3
<1> QED
  BY <1>3, <1>4 DEF AnySeq

\* The line that the bytes on the wire begin in is told by the newlines in them.
LEMMA CurrentLine ==
    ASSUME Sent, NEW c, NEW p, At(c, p)
    PROVE  /\ Len(reqs) + 1 - Cardinality({i \in DOMAIN wire : wire[i] = "\n"}) = c
           /\ wire \in Seq(Char) /\ Len(wire) = Start(3) - p /\ p <= Start(3)
           /\ \A i \in 1 .. Start(3) - p : wire[i] = "\n" <=> (p + i = Start(2) \/ p + i = Start(3))
<1> PICK a, m, n : a = All /\ m = Start(2) /\ n = Start(3)
  OBVIOUS
<1>1. /\ a \in Seq(Char) /\ Len(a) = n /\ m \in Nat /\ n \in Nat /\ 0 < m /\ m < n /\ Start(1) = 0
      /\ \A i \in 1 .. n : a[i] = "\n" <=> (i = m \/ i = n)
  BY Layout
<1>2. p \in Nat /\ c \in 1 .. 3 /\ (c = 1 => p < m) /\ (c = 2 => m <= p /\ p < n) /\ (c = 3 => p = n)
  BY <1>1 DEF At
<1>3. p <= n
  BY <1>1, <1>2
<1>4. wire = Slice(a, p, n)
  BY DEF At
<1>5. wire \in Seq(Char) /\ Len(wire) = n - p /\ \A i \in 1 .. n - p : wire[i] = a[p + i]
  <2>1. a \in Seq(Char) /\ p \in Nat /\ n \in Nat /\ p <= n /\ n <= Len(a)
    BY <1>1, <1>2, <1>3
  <2>2. /\ Slice(a, p, n) \in Seq(Char) /\ Len(Slice(a, p, n)) = n - p
        /\ \A k \in 1 .. n - p : Slice(a, p, n)[k] = a[p + k]
    BY <2>1, SliceOf, ZenonT(60)
  <2> QED
    BY <1>4, <2>2, Zenon
<1>6. \A i \in 1 .. n - p : wire[i] = "\n" <=> (p + i = m \/ p + i = n)
  BY <1>1, <1>2, <1>3, <1>5, SMTT(30)
<1>7. DOMAIN wire = 1 .. n - p
  BY <1>5
<1> DEFINE ends == {i \in DOMAIN wire : wire[i] = "\n"}
<1>8. Len(reqs) = 2
  BY DEF Sent
<1>9. Cardinality(ends) = 3 - c
  <2>1. CASE c = 1
    <3>1. ends = {m - p, n - p} /\ m - p # n - p
      BY <1>1, <1>2, <1>6, <1>7, <2>1, SMTT(30)
    <3>2. Cardinality({m - p}) = 1 /\ IsFiniteSet({m - p})
      BY FS_Singleton
    <3>3. {m - p, n - p} = {m - p} \cup {n - p}
      OBVIOUS
    <3>4. Cardinality({m - p} \cup {n - p}) = Cardinality({m - p}) + 1
      BY <3>1, <3>2, FS_AddElement
    <3> QED
      BY <2>1, <3>1, <3>2, <3>3, <3>4
  <2>2. CASE c = 2
    <3>1. ends = {n - p}
      BY <1>1, <1>2, <1>6, <1>7, <2>2, SMTT(30)
    <3> QED
      BY <2>2, <3>1, FS_Singleton
  <2>3. CASE c = 3
    <3>1. ends = {}
      BY <1>1, <1>2, <1>6, <1>7, <2>3
    <3> QED
      BY <2>3, <3>1, FS_EmptySet
  <2> QED
    BY <1>2, <2>1, <2>2, <2>3
<1> QED
  BY <1>2, <1>3, <1>5, <1>6, <1>8, <1>9

\* What the other steps leave alone.
LEMMA Unanswered ==
    ASSUME UNCHANGED <<reqs, var, answers>>
    PROVE  (Sent => Sent') /\ (AnySeq(answers) => AnySeq(answers)') /\ (VarInv => VarInv')
           /\ All' = All /\ \A c : Start(c)' = Start(c)
BY DEF Sent, AnySeq, VarInv, LastSet, Sets, All, Start, OneLine

LEMMA FaithfulStays ==
    ASSUME UNCHANGED reqs, NEW a, Faithful(a)
    PROVE  Faithful(a)'
BY DEF Faithful

\* The line that is being read grows by n bytes.
LEMMA Grow ==
    ASSUME Sent, TypeInv, NEW c, NEW p, At(c, p), NEW n \in Nat, n <= Len(wire),
           \A i \in 1 .. n - 1 : wire[i] # "\n"
    PROVE  /\ SubSeq(wire, n + 1, Len(wire)) = Slice(All, p + n, Start(3))
           /\ SubSeq(wire, 1, n) \in Seq(Char)
           /\ Fed(n) \in Assembled /\ Fits(Fed(n))
           /\ c \notin cut => Fed(n) = Feed(EmptyLine, Slice(All, Start(c), p + n))
           /\ n > 0 => c # 3 /\ p + n <= Start(c + 1) /\ (wire[n] = "\n" <=> p + n = Start(c + 1))
<1> PICK a, m, z, w, b : a = All /\ m = Start(2) /\ z = Start(3) /\ w = wire /\ b = Start(c)
  OBVIOUS
<1>1. a \in Seq(Char) /\ Len(a) = z /\ m \in Nat /\ z \in Nat /\ 0 < m /\ m < z /\ Start(1) = 0
  BY Layout
<1>2. /\ p \in Nat /\ c \in 1 .. 3 /\ (c = 1 => p < m) /\ (c = 2 => m <= p /\ p < z) /\ (c = 3 => p = z)
      /\ b \in Nat /\ b <= p
  BY <1>1 DEF At
<1>3. /\ w \in Seq(Char) /\ Len(w) = z - p /\ p <= z
      /\ \A i \in 1 .. z - p : w[i] = "\n" <=> (p + i = m \/ p + i = z)
  BY CurrentLine
<1>4. w = Slice(a, p, z)
  BY DEF At
<1>5. n \in Nat /\ n <= z - p /\ p + n \in Nat /\ p + n <= z /\ p <= p + n
  BY <1>1, <1>2, <1>3
<1>12. a \in Seq(Char) /\ p \in Nat /\ z \in Nat /\ p <= z /\ z <= Len(a) /\ n <= z - p
  BY <1>1, <1>2, <1>3, <1>5
<1>13. Slice(Slice(a, p, z), n, z - p) = Slice(a, p + n, z) /\ Slice(Slice(a, p, z), 0, n) = Slice(a, p, p + n)
  BY <1>12, SliceRest
<1>6. SubSeq(w, n + 1, Len(w)) = Slice(a, p + n, z)
  BY <1>3, <1>4, <1>13, Zenon DEF Slice
<1>7. SubSeq(w, 1, n) = Slice(a, p, p + n) /\ SubSeq(w, 1, n) \in Seq(Char)
  <2>1. SubSeq(w, 1, n) = Slice(w, 0, n)
    BY DEF Slice
  <2>2. SubSeq(w, 1, n) \in Seq(Char)
    BY <1>3, <1>5, FirstPart
  <2> QED
    BY <1>4, <1>13, <2>1, <2>2, Zenon
<1>8. Fed(n) = Feed(line, SubSeq(w, 1, n))
  BY DEF Fed
<1>9. Fed(n) \in Assembled /\ Fits(Fed(n))
  BY <1>7, <1>8, FeedSteps, FeedFits DEF TypeInv
<1>10. ASSUME c \notin cut PROVE Fed(n) = Feed(EmptyLine, Slice(a, b, p + n))
  <2>1. line = Feed(EmptyLine, Slice(a, b, p))
    BY <1>10 DEF At
  <2>2. EmptyLine \in Assembled
    BY Tuples DEF EmptyLine, Assembled
  <2>3. b \in Nat /\ b <= p /\ p <= Len(a) /\ p <= p + n /\ p + n <= Len(a) /\ p + n \in Nat /\ p \in Nat
    BY <1>1, <1>2, <1>3, <1>5
  <2>4. Slice(a, b, p) \in Seq(Char) /\ Slice(a, p, p + n) \in Seq(Char)
    BY <1>1, <2>3, SliceOf
  <2>5. Slice(a, b, p) \o Slice(a, p, p + n) = Slice(a, b, p + n)
    <3>1. PICK e \in Nat : e = p + n
      BY <2>3
    <3>2. b <= p /\ p <= e /\ e <= Len(a) /\ a \in Seq(Char) /\ b \in Nat /\ p \in Nat
      BY <1>12, <2>3, <3>1
    <3>3. Slice(a, b, p) \o Slice(a, p, e) = Slice(a, b, e)
      BY <3>2, SliceJoin, ZenonT(60)
    <3> QED
      BY <3>1, <3>3
  <2>6. Feed(Feed(EmptyLine, Slice(a, b, p)), Slice(a, p, p + n)) = Feed(EmptyLine, Slice(a, b, p) \o Slice(a, p, p + n))
    BY <2>2, <2>4, FeedTwice
  <2> QED
    BY <1>7, <1>8, <2>1, <2>5, <2>6, Zenon
<1>11. ASSUME n > 0
       PROVE  c # 3 /\ p + n <= Start(c + 1) /\ (wire[n] = "\n" <=> p + n = Start(c + 1))
  <2>1. n \in 1 .. z - p /\ (w[n] = "\n" <=> (p + n = m \/ p + n = z))
    BY <1>3, <1>5, <1>11
  <2>2. \A i \in 1 .. n - 1 : ~(p + i = m \/ p + i = z)
    BY <1>3, <1>5
  <2>3. CASE c = 1
    <3>1. p + n <= m
      <4>1. CASE p + n > m
        <5>1. m - p \in 1 .. n - 1 /\ p + (m - p) = m
          BY <1>1, <1>2, <1>5, <2>3, <4>1
        <5> QED
          BY <2>2, <5>1
      <4> QED
        BY <1>1, <1>5, <4>1
    <3>2. Start(c + 1) = m
      BY <2>3
    <3> QED
      BY <1>1, <1>5, <2>1, <2>3, <3>1, <3>2
  <2>4. CASE c = 2
    <3>1. Start(c + 1) = z
      BY <2>4
    <3> QED
      BY <1>1, <1>2, <1>5, <1>11, <2>1, <2>4, <3>1
  <2>5. CASE c = 3
    BY <1>2, <1>5, <1>11, <2>5
  <2> QED
    BY <1>2, <2>3, <2>4, <2>5
<1> QED
  BY <1>6, <1>7, <1>9, <1>10, <1>11

LEMMA EmptyLineFed ==
    /\ EmptyLine \in Assembled /\ Fits(EmptyLine) /\ Feed(EmptyLine, <<>>) = EmptyLine
<1>1. EmptyLine \in Assembled
  BY Tuples DEF EmptyLine, Assembled
<1>2. <<>> \in Seq(Char) /\ Len(<<>>) = 0
  BY Tuples
<1>3. Fits(EmptyLine)
  BY <1>2, WireAssumption DEF Fits, EmptyLine
<1> QED
  BY <1>1, <1>2, <1>3, FeedSteps

LEMMA Initial == Init => IInv
<1> SUFFICES ASSUME Init PROVE IInv
  OBVIOUS
<1>1. Sent
  BY RequestsSent DEF Init
<1>2. TypeInv
  <2>1. line \in Assembled /\ Fits(line)
    BY EmptyLineFed DEF Init
  <2>2. queued \in 0 .. Depth /\ inits \in 0 .. MaxInits
    BY PumpAssumption DEF Init
  <2>3. running \in BOOLEAN /\ pc = "idle"
    BY DEF Init
  <2> QED
    BY <2>1, <2>2, <2>3 DEF TypeInv
<1>3. Start(3) \in Nat /\ Start(2) \in Nat /\ 0 < Start(2) /\ Start(1) = 0 /\ All \in Seq(Char) /\ Len(All) = Start(3)
  BY <1>1, Layout
<1>4. At(1, 0)
  <2>1. Slice(All, 0, Start(3)) = All /\ Slice(All, 0, 0) = <<>>
    BY <1>3, SliceEnds
  <2>2. wire = All /\ line = EmptyLine
    BY DEF Init, All
  <2> QED
    BY <1>3, <2>1, <2>2, EmptyLineFed DEF At
<1>5. Behind(1)
  BY DEF Init, Behind
<1>6. AnySeq(answers) /\ VarInv
  BY DEF Init, AnySeq, VarInv
<1> QED
  BY <1>1, <1>2, <1>4, <1>5, <1>6 DEF IInv, Progress

\* A step that reads nothing.
LEMMA IdleStep ==
    ASSUME IInv, TypeInv', UNCHANGED <<reqs, wire, line, var, answers, cut>>
    PROVE  IInv'
<1>1. PICK c, p : At(c, p) /\ Behind(c)
  BY DEF IInv, Progress
<1>2. At(c, p)'
  BY <1>1 DEF At, All, Start
<1>3. Behind(c)'
  BY <1>1 DEF Behind, Faithful
<1> QED
  BY <1>2, <1>3, Unanswered DEF IInv, Progress

\* A restart in the middle of a line loses the line's beginning, and is noted.
LEMMA RestartStep == ASSUME IInv, RigInit PROVE IInv'
<1>1. PICK c, p : At(c, p) /\ Behind(c)
  BY DEF IInv, Progress
<1>2. /\ cut' = IF line = EmptyLine THEN cut ELSE cut \cup {c}
      /\ line' = EmptyLine /\ UNCHANGED <<reqs, wire, var, answers>>
  BY <1>1, CurrentLine DEF RigInit, IInv
<1>3. c \in 1 .. 3 /\ (c = 3 => line = EmptyLine)
  <2>1. CASE c = 3
    <3>1. p = Start(3) /\ 3 \notin cut
      BY <1>1, <2>1 DEF At, Behind
    <3>2. Slice(All, Start(3), Start(3)) = <<>>
      BY Layout, SliceEnds DEF IInv
    <3> QED
      BY <1>1, <2>1, <3>1, <3>2, EmptyLineFed DEF At
  <2> QED
    BY <1>1, <2>1 DEF At
<1>4. At(c, p)'
  <2>1. c \notin cut' => c \notin cut /\ line' = line
    BY <1>2
  <2> QED
    BY <1>1, <1>2, <2>1 DEF At, All, Start
<1>5. Behind(c)'
  <2>1. cut \subseteq cut' /\ cut' \subseteq {1, 2} /\ \A x \in cut' : x <= c
    BY <1>1, <1>2, <1>3 DEF Behind
  <2> QED
    BY <1>1, <1>2, <2>1 DEF Behind, Faithful
<1>6. TypeInv'
  BY EmptyLineFed, PumpAssumption DEF IInv, TypeInv, RigInit
<1> QED
  BY <1>2, <1>4, <1>5, <1>6, Unanswered DEF IInv, Progress

LEMMA PartStep == ASSUME IInv, NEW n \in 0 .. Budget, ReadPart(n) PROVE IInv'
<1>1. PICK c, p : At(c, p) /\ Behind(c)
  BY DEF IInv, Progress
<1>2. /\ n \in Nat /\ n <= Len(wire) /\ \A i \in 1 .. n - 1 : wire[i] # "\n"
      /\ n > 0 => wire[n] # "\n"
      /\ wire' = SubSeq(wire, n + 1, Len(wire)) /\ line' = Fed(n)
      /\ UNCHANGED <<reqs, var, answers, cut>>
  BY DEF ReadPart, Read
<1>3. Sent /\ TypeInv
  BY DEF IInv
<1>4. /\ wire' = Slice(All, p + n, Start(3))
      /\ line' \in Assembled /\ Fits(line)'
      /\ c \notin cut => line' = Feed(EmptyLine, Slice(All, Start(c), p + n))
      /\ n > 0 => c # 3 /\ p + n < Start(c + 1)
  <2>1. /\ SubSeq(wire, n + 1, Len(wire)) = Slice(All, p + n, Start(3))
        /\ Fed(n) \in Assembled /\ Fits(Fed(n))
        /\ c \notin cut => Fed(n) = Feed(EmptyLine, Slice(All, Start(c), p + n))
        /\ n > 0 => c # 3 /\ p + n <= Start(c + 1) /\ (wire[n] = "\n" <=> p + n = Start(c + 1))
    BY <1>1, <1>2, <1>3, Grow
  <2>2. n > 0 => c # 3 /\ p + n <= Start(c + 1) /\ p + n # Start(c + 1)
    BY <1>2, <2>1
  <2>3. c \in 1 .. 3 /\ p \in Nat /\ (c # 3 => Start(c + 1) \in Nat)
    <3>1. Start(2) \in Nat /\ Start(3) \in Nat
      BY <1>3, Layout
    <3>2. c \in 1 .. 3 /\ p \in Nat
      BY <1>1 DEF At
    <3>3. c # 3 => c + 1 = 2 \/ c + 1 = 3
      BY <3>2
    <3> QED
      BY <3>1, <3>2, <3>3
  <2>4. PICK l : l = Fed(n)
    OBVIOUS
  <2>5. l \in Assembled /\ Len(l.buf) < LineBuf
    BY <2>1, <2>4 DEF Fits
  <2>6. line' = l /\ wire' = SubSeq(wire, n + 1, Len(wire))
    BY <1>2, <2>4
  <2>7. line' \in Assembled /\ Fits(line)'
    BY <2>5, <2>6 DEF Fits
  <2>8. wire' = Slice(All, p + n, Start(3))
    BY <2>1, <2>6
  <2>9. c \notin cut => line' = Feed(EmptyLine, Slice(All, Start(c), p + n))
    BY <2>1, <2>4, <2>6
  <2>10. n > 0 => c # 3 /\ p + n < Start(c + 1)
    BY <1>2, <2>2, <2>3
  <2> QED
    BY <2>7, <2>8, <2>9, <2>10
<1>5. At(c, p + n)'
  <2>1. c \in 1 .. 3 /\ p \in Nat /\ Start(c) <= p /\ (c = 3 => p = Start(3)) /\ (c # 3 => p < Start(c + 1))
    BY <1>1 DEF At
  <2>2. Start(c) \in Nat
    BY <1>3, <2>1, Layout
  <2>3. /\ p + n \in Nat /\ Start(c) <= p + n /\ (c = 3 => p + n = Start(3))
        /\ (c # 3 => p + n < Start(c + 1))
    BY <1>2, <1>4, <2>1, <2>2
  <2>4. All' = All /\ Start(c)' = Start(c) /\ Start(3)' = Start(3) /\ Start(c + 1)' = Start(c + 1)
    BY <1>2 DEF All, Start
  <2> QED
    BY <1>2, <1>4, <2>1, <2>3, <2>4 DEF At
<1>6. Behind(c)'
  BY <1>1, <1>2 DEF Behind, Faithful
<1>7. TypeInv'
  BY <1>3, <1>4 DEF TypeInv, ReadPart, Read
<1> QED
  BY <1>2, <1>5, <1>6, <1>7, Unanswered DEF IInv, Progress

\* The one step that writes the variable also answers.
LEMMA VariableStep ==
    ASSUME AnySeq(answers), VarInv, NEW r,
           NEW a, a.kind = r.kind, a.name = r.name, a.ret = r.ret,
           answers' = Append(answers, a), var' = Assigned(r)
    PROVE  AnySeq(answers)' /\ VarInv'
<1> PICK n : n = Len(answers) + 1
  OBVIOUS
<1>1. /\ AnySeq(answers') /\ Len(answers) \in Nat
      /\ DOMAIN answers = 1 .. Len(answers) /\ DOMAIN answers' = 1 .. n
      /\ \A k \in 1 .. Len(answers) : answers'[k] = answers[k]
      /\ answers'[n] = a
  BY AppendAnySeq
<1>2. n \in DOMAIN answers' /\ \A k \in DOMAIN answers' : k <= n
  BY <1>1
<1>3. \A k \in DOMAIN answers' : k # n => k \in DOMAIN answers /\ answers'[k] = answers[k]
  BY <1>1
<1>4. \A k \in DOMAIN answers : k \in DOMAIN answers' /\ answers'[k] = answers[k]
  BY <1>1
<1>5. CASE Sets(a)
  <2>1. var' = answers'[n].ret[1]
    BY <1>1, <1>5 DEF Assigned, Sets
  <2>2. LastSet(n)'
    BY <1>1, <1>2, <1>5 DEF LastSet, Sets
  <2> QED
    BY <1>1, <1>2, <2>1, <2>2 DEF VarInv, AnySeq
<1>6. CASE ~Sets(a)
  <2>1. var' = var
    BY <1>6 DEF Assigned, Sets
  <2>2. CASE /\ \A k \in DOMAIN answers : ~Sets(answers[k])
             /\ var = Integer(0)
    BY <1>1, <1>3, <1>6, <2>1, <2>2, SMTT(30) DEF VarInv, Sets, AnySeq
  <2>3. CASE \E m \in DOMAIN answers : LastSet(m) /\ var = answers[m].ret[1]
    <3>1. PICK m \in DOMAIN answers : LastSet(m) /\ var = answers[m].ret[1]
      BY <2>3
    <3>2. LastSet(m)'
      BY <1>1, <1>3, <1>4, <1>6, <3>1 DEF LastSet, Sets
    <3> QED
      BY <1>1, <1>4, <2>1, <3>1, <3>2 DEF VarInv, AnySeq
  <2> QED
    BY <2>2, <2>3 DEF VarInv
<1> QED
  BY <1>5, <1>6

\* A line is complete: it is handled as it was sent, if its beginning was not lost.
LEMMA LineStep == ASSUME IInv, NEW n \in 0 .. Budget, ReadLine(n) PROVE IInv'
<1>1. PICK c, p : At(c, p) /\ Behind(c)
  BY DEF IInv, Progress
<1>2. Sent /\ TypeInv /\ AnySeq(answers) /\ VarInv
  BY DEF IInv
<1>3. PICK r : r = Handle(Fed(n), var)
  OBVIOUS
<1>4. PICK a : a = [to |-> c, kind |-> r.kind, name |-> r.name, ret |-> r.ret]
  OBVIOUS
<1>5. /\ n \in Nat /\ n > 0 /\ n <= Len(wire) /\ wire[n] = "\n" /\ \A i \in 1 .. n - 1 : wire[i] # "\n"
      /\ wire' = SubSeq(wire, n + 1, Len(wire)) /\ line' = EmptyLine
      /\ UNCHANGED <<reqs, cut, running, queued, inits>> /\ pc' = "idle"
  BY DEF ReadLine, Read, Reset
<1>6. /\ answers' = IF r.kind = "blank" THEN answers ELSE Append(answers, a)
      /\ var' = Assigned(r)
  <2>1. Len(reqs) + 1 - Cardinality({i \in DOMAIN wire : wire[i] = "\n"}) = c
    BY <1>1, <1>2, CurrentLine
  <2> QED
    BY <1>3, <1>4, <2>1 DEF ReadLine
<1>7. /\ wire' = Slice(All, p + n, Start(3))
      /\ c \notin cut => Fed(n) = Feed(EmptyLine, Slice(All, Start(c), p + n))
      /\ c \in {1, 2} /\ p + n = Start(c + 1)
  <2>1. /\ SubSeq(wire, n + 1, Len(wire)) = Slice(All, p + n, Start(3))
        /\ c \notin cut => Fed(n) = Feed(EmptyLine, Slice(All, Start(c), p + n))
        /\ n > 0 => c # 3 /\ (wire[n] = "\n" <=> p + n = Start(c + 1))
    BY <1>1, <1>2, <1>5, Grow
  <2>2. c \in 1 .. 3
    BY <1>1 DEF At
  <2> QED
    BY <1>5, <2>1, <2>2
<1>8. At(c + 1, p + n)'
  <2>1. /\ Start(2) \in Nat /\ Start(3) \in Nat /\ Start(2) < Start(3)
        /\ All \in Seq(Char) /\ Len(All) = Start(3)
    BY <1>2, Layout
  <2>2. /\ c + 1 \in 1 .. 3 /\ p + n \in Nat /\ Start(c + 1) <= p + n
        /\ (c + 1 = 3 => p + n = Start(3)) /\ (c + 1 # 3 => p + n < Start((c + 1) + 1))
    BY <1>7, <2>1
  <2>3. Slice(All, Start(c + 1), p + n) = <<>>
    <3>1. p + n \in Nat
      BY <2>2
    <3>2. Slice(All, p + n, p + n) = <<>>
      BY <2>1, <3>1, SliceEnds
    <3> QED
      BY <1>7, <3>2
  <2>4. line' = Feed(EmptyLine, Slice(All, Start(c + 1), p + n))
    BY <1>5, <2>3, EmptyLineFed
  <2>5. /\ All' = All /\ Start(c + 1)' = Start(c + 1) /\ Start(3)' = Start(3)
        /\ Start((c + 1) + 1)' = Start((c + 1) + 1)
    BY <1>5 DEF All, Start
  <2> QED
    BY <1>7, <2>2, <2>4, <2>5 DEF At
<1>9. ASSUME c \notin cut, r.kind # "blank" PROVE Faithful(a)
  <2>1. Slice(All, Start(c), p + n) = reqs[c].text
    BY <1>2, <1>7, Layout
  <2>2. r = Handle(Feed(EmptyLine, reqs[c].text), var)
    BY <1>3, <1>7, <1>9, <2>1
  <2>3. a.to = c /\ a.kind = r.kind /\ a.name = r.name /\ a.ret = r.ret
    BY <1>4
  <2> QED
    BY <1>9, <2>2, <2>3 DEF Faithful
<1>10. Behind(c + 1)'
  <2>1. cut' \subseteq {1, 2} /\ \A x \in cut' : x <= c + 1
    BY <1>1, <1>5, <1>7 DEF Behind
  <2>2. ASSUME NEW k \in DOMAIN answers
        PROVE  /\ answers[k].to \in {1, 2} /\ answers[k].to < c /\ answers[k].to < c + 1
               /\ k > 1 => answers[k-1].to < answers[k].to
               /\ answers[k].to \notin cut => Faithful(answers[k])
    BY <1>1, <1>7 DEF Behind
  <2>3. CASE r.kind = "blank"
    <3>1. answers' = answers
      BY <1>6, <2>3
    <3> QED
      BY <1>5, <2>1, <2>2, <3>1 DEF Behind, Faithful
  <2>4. CASE r.kind # "blank"
    <3>1. answers' = Append(answers, a)
      BY <1>6, <2>4
    <3>2. PICK m \in Nat : m = Len(answers)
      BY <1>2, AppendAnySeq
    <3>3. /\ DOMAIN answers = 1 .. m /\ DOMAIN answers' = 1 .. m + 1
          /\ \A k \in 1 .. m : answers'[k] = answers[k]
          /\ answers'[m + 1] = a
      BY <1>2, <3>1, <3>2, AppendAnySeq
    <3>4. a.to = c
      BY <1>4
    <3>5. ASSUME NEW k \in DOMAIN answers'
          PROVE  /\ answers'[k].to \in {1, 2} /\ answers'[k].to < c + 1
                 /\ k > 1 => answers'[k-1].to < answers'[k].to
                 /\ answers'[k].to \notin cut' => Faithful(answers'[k])
      <4>1. CASE k \in 1 .. m
        <5>1. k > 1 => k - 1 \in 1 .. m
          BY <4>1
        <5> QED
          BY <1>5, <2>2, <3>3, <4>1, <5>1
      <4>2. CASE k = m + 1
        <5>1. k > 1 => k - 1 \in 1 .. m /\ k - 1 = m
          BY <4>2
        <5>2. k > 1 => answers'[k-1].to < c
          BY <2>2, <3>3, <5>1
        <5> QED
          BY <1>5, <1>7, <1>9, <2>4, <3>3, <3>4, <4>2, <5>2, SMTT(30)
      <4> QED
        BY <3>3, <4>1, <4>2
    <3>6. \A e : Faithful(e) => Faithful(e)'
      BY <1>5 DEF Faithful
    <3>7. ASSUME NEW k \in DOMAIN answers' PROVE answers'[k].to \notin cut' => Faithful(answers[k])'
      <4> PICK e : e = answers'[k]
        OBVIOUS
      <4>1. e.to \notin cut' => Faithful(e)
        BY <3>5
      <4>2. Faithful(e) => Faithful(e)'
        BY <3>6
      <4>3. Faithful(e)' = Faithful(answers[k])'
        BY DEF Faithful
      <4> QED
        BY <4>1, <4>2, <4>3
    <3> HIDE DEF Faithful
    <3> QED
      BY <2>1, <3>5, <3>7 DEF Behind
  <2> QED
    BY <2>3, <2>4
<1>11. AnySeq(answers)' /\ VarInv'
  <2>1. CASE r.kind = "blank"
    <3>1. answers' = answers /\ var' = var
      BY <1>6, <2>1 DEF Assigned
    <3> QED
      BY <1>2, <1>5, <3>1, Unanswered
  <2>2. CASE r.kind # "blank"
    <3>1. a.kind = r.kind /\ a.name = r.name /\ a.ret = r.ret
      BY <1>4
    <3> QED
      BY <1>2, <1>6, <2>2, <3>1, VariableStep
  <2> QED
    BY <2>1, <2>2
<1>12. TypeInv'
  BY <1>2, <1>5, EmptyLineFed DEF TypeInv
<1>13. Sent'
  BY <1>2, <1>5 DEF Sent, OneLine
<1> QED
  BY <1>8, <1>10, <1>11, <1>12, <1>13 DEF IInv, Progress

LEMMA Invariance == Spec => []IInv
<1>1. IInv /\ [Next]_vars => IInv'
  <2> SUFFICES ASSUME IInv, [Next]_vars PROVE IInv'
    OBVIOUS
  <2>1. TypeInv
    BY DEF IInv
  <2>2. CASE RigInit
    BY <2>2, RestartStep
  <2>3. CASE RigDeinit
    <3>1. TypeInv'
      BY <2>1, <2>3 DEF TypeInv, RigDeinit
    <3> QED
      BY <2>3, <3>1, IdleStep DEF RigDeinit
  <2>4. CASE Enqueue
    <3>1. TypeInv'
      BY <2>1, <2>4, PumpAssumption DEF TypeInv, Enqueue
    <3> QED
      BY <2>4, <3>1, IdleStep DEF Enqueue
  <2>5. CASE CallRun
    <3>1. TypeInv'
      BY <2>1, <2>5 DEF TypeInv, CallRun
    <3> QED
      BY <2>5, <3>1, IdleStep DEF CallRun
  <2>6. CASE FlushOne
    <3>1. TypeInv'
      BY <2>1, <2>6, PumpAssumption DEF TypeInv, FlushOne
    <3> QED
      BY <2>6, <3>1, IdleStep DEF FlushOne
  <2>7. CASE FlushDone
    <3>1. TypeInv'
      BY <2>1, <2>7 DEF TypeInv, FlushDone
    <3> QED
      BY <2>7, <3>1, IdleStep DEF FlushDone
  <2>8. ASSUME NEW n \in 0 .. Budget, ReadPart(n) PROVE IInv'
    BY <2>8, PartStep
  <2>9. ASSUME NEW n \in 0 .. Budget, ReadLine(n) PROVE IInv'
    BY <2>9, LineStep
  <2>10. CASE UNCHANGED vars
    <3>1. TypeInv'
      BY <2>1, <2>10 DEF TypeInv, vars
    <3> QED
      BY <2>10, <3>1, IdleStep DEF vars
  <2> QED
    BY <2>2, <2>3, <2>4, <2>5, <2>6, <2>7, <2>8, <2>9, <2>10 DEF Next, Pump
<1> QED
  BY <1>1, Initial, PTL DEF Spec

-----------------------------------------------------------------------------
(* Tokens only grow: what the beginning of a line leaves in a slot begins  *)
(* what the whole line leaves there.                                       *)

Ahead(x, y) == /\ Len(x) <= Len(y)
               /\ \A i \in 1 .. Len(x) : y[i] = x[i]

Grown(t, u) == /\ Len(t.slots) <= Len(u.slots)
               /\ \A k \in 1 .. Len(t.slots) : Ahead(t.slots[k], u.slots[k])

Over == {"comment", "many", "garbage"}

\* What a character does to the slots: nothing, a new one, or more in the last.
Rests(t, c) == Scan(t, c).slots = t.slots /\ (c = "-" => Scan(t, c).mode \in Over)
Begins(t, c) == \E w \in Seq(Char) : /\ Scan(t, c).slots = Append(t.slots, w)
                                     /\ w = <<c>> \/ (w = <<>> /\ c = Quote)
Extends(t, c) == /\ t.slots # <<>>
                 /\ \E w \in Seq(Char), mode \in Modes : /\ Scan(t, c) = Extend(t, w, mode)
                                                         /\ w = <<c>> \/ w = <<Backslash, c>>

LEMMA ScanSlots ==
    ASSUME NEW t \in Scanning, NEW c \in Char
    PROVE  Rests(t, c) \/ Begins(t, c) \/ Extends(t, c)
<1>1. /\ <<>> \in Seq(Char) /\ <<c>> \in Seq(Char) /\ <<Backslash, c>> \in Seq(Char)
      /\ "bare" \in Modes /\ "quoted" \in Modes
  BY Tuples, Characters DEF Modes
<1>2. CASE t.mode = "gap"
  <2>1. CASE c \in Blank
    BY <1>2, <2>1 DEF Scan, Rests, Blank
  <2>2. CASE c \notin Blank /\ t.slots = <<>> /\ c = "#"
    BY <1>2, <2>2 DEF Scan, BeginToken, Rests, Scanning
  <2>3. CASE c \notin Blank /\ ~(t.slots = <<>> /\ c = "#") /\ Len(t.slots) > MaxArgs
    BY <1>2, <2>3 DEF Scan, BeginToken, Rests, Scanning, Over
  <2>4. CASE c \notin Blank /\ ~(t.slots = <<>> /\ c = "#") /\ ~(Len(t.slots) > MaxArgs)
    <3>1. CASE c = Quote
      BY <1>1, <1>2, <2>4, <3>1 DEF Scan, BeginToken, Begins
    <3>2. CASE c # Quote
      BY <1>1, <1>2, <2>4, <3>2 DEF Scan, BeginToken, Begins
    <3> QED
      BY <3>1, <3>2
  <2> QED
    BY <2>1, <2>2, <2>3, <2>4
<1>3. CASE t.mode \in {"bare", "quoted", "escape"}
  <2>1. t.slots # <<>>
    BY <1>3 DEF Scanning, InToken
  <2>2. CASE t.mode = "bare" /\ c \in Blank
    BY <2>2 DEF Scan, Rests, Blank, Scanning
  <2>3. CASE t.mode = "bare" /\ c \notin Blank
    <3>1. Scan(t, c) = Extend(t, <<c>>, "bare")
      BY <2>3 DEF Scan
    <3> QED
      BY <1>1, <2>1, <3>1, Zenon DEF Extends
  <2>4. CASE t.mode = "quoted" /\ c \in {Quote, Backslash}
    BY <2>4 DEF Scan, Rests, Quote, Backslash, Scanning
  <2>5. CASE t.mode = "quoted" /\ c \notin {Quote, Backslash}
    <3>1. Scan(t, c) = Extend(t, <<c>>, "quoted")
      BY <2>5 DEF Scan
    <3> QED
      BY <1>1, <2>1, <3>1, Zenon DEF Extends
  <2>6. CASE t.mode = "escape"
    <3>1. Scan(t, c) = Extend(t, IF c \in {Quote, Backslash} THEN <<c>> ELSE <<Backslash, c>>, "quoted")
      BY <2>6 DEF Scan
    <3>2. CASE c \in {Quote, Backslash}
      <4>1. Scan(t, c) = Extend(t, <<c>>, "quoted")
        BY <3>1, <3>2, Zenon
      <4> QED
        BY <1>1, <2>1, <4>1, Zenon DEF Extends
    <3>3. CASE c \notin {Quote, Backslash}
      <4>1. Scan(t, c) = Extend(t, <<Backslash, c>>, "quoted")
        BY <3>1, <3>3, Zenon
      <4> QED
        BY <1>1, <2>1, <4>1, Zenon DEF Extends
    <3> QED
      BY <3>2, <3>3
  <2> QED
    BY <1>3, <2>2, <2>3, <2>4, <2>5, <2>6
<1>4. CASE t.mode = "closed"
  BY <1>4 DEF Scan, Rests, Over, Blank, Scanning
<1>5. CASE t.mode \in Over
  BY <1>5 DEF Scan, Rests, Over
<1> QED
  BY <1>2, <1>3, <1>4, <1>5 DEF Scanning, Modes, Over

LEMMA GrownSame ==
    ASSUME NEW t \in Scanning, NEW u, u.slots = t.slots
    PROVE  Grown(t, u)
<1>1. Len(t.slots) \in Nat /\ \A k \in 1 .. Len(t.slots) : Len(t.slots[k]) \in Nat
  BY DEF Scanning
<1> QED
  BY <1>1 DEF Grown, Ahead

LEMMA GrownMore ==
    ASSUME NEW t \in Scanning, NEW u \in Scanning, NEW v \in Scanning, Grown(t, u), Grown(u, v)
    PROVE  Grown(t, v)
<1>1. Len(t.slots) \in Nat /\ Len(u.slots) \in Nat /\ Len(v.slots) \in Nat
  BY DEF Scanning
<1>2. ASSUME NEW k \in 1 .. Len(t.slots) PROVE Ahead(t.slots[k], v.slots[k])
  <2>1. k \in 1 .. Len(u.slots) /\ k \in 1 .. Len(v.slots)
    BY <1>1 DEF Grown
  <2>2. Ahead(t.slots[k], u.slots[k]) /\ Ahead(u.slots[k], v.slots[k])
    BY <2>1 DEF Grown
  <2>3. PICK x \in Seq(Char) : x = t.slots[k]
    BY <2>1, SMTT(30) DEF Scanning
  <2>4. PICK y \in Seq(Char) : y = u.slots[k]
    BY <2>1, SMTT(30) DEF Scanning
  <2>5. PICK z \in Seq(Char) : z = v.slots[k]
    BY <2>1, SMTT(30) DEF Scanning
  <2>6. Ahead(x, y) /\ Ahead(y, z)
    BY <2>2, <2>3, <2>4, <2>5
  <2>7. Ahead(x, z)
    BY <2>6 DEF Ahead
  <2> QED
    BY <2>3, <2>5, <2>7
<1> QED
  BY <1>1, <1>2 DEF Grown

LEMMA ScanGrows ==
    ASSUME NEW t \in Scanning, NEW c \in Char
    PROVE  Grown(t, Scan(t, c))
<1> PICK q \in Seq(Seq(Char)) : q = t.slots
  BY DEF Scanning
<1>1. CASE Rests(t, c)
  BY <1>1, GrownSame DEF Rests
<1>2. CASE Begins(t, c)
  <2>1. PICK w \in Seq(Char) : Scan(t, c).slots = Append(q, w)
    BY <1>2 DEF Begins
  <2>2. /\ Len(Append(q, w)) = Len(q) + 1 /\ Len(q) \in Nat
        /\ \A k \in 1 .. Len(q) : Append(q, w)[k] = q[k] /\ Len(q[k]) \in Nat
    BY Appends
  <2> QED
    BY <2>1, <2>2 DEF Grown, Ahead
<1>3. CASE Extends(t, c)
  <2>1. PICK w \in Seq(Char), mode \in Modes : Scan(t, c) = Extend(t, w, mode)
    BY <1>3 DEF Extends
  <2>2. PICK u \in Scanning : u = Extend(t, w, mode)
    BY <1>3, ExtendGrows DEF Extends
  <2>3. /\ Len(u.slots) = Len(q) /\ u.slots[Len(q)] = q[Len(q)] \o w
        /\ \A k \in 1 .. Len(q) - 1 : u.slots[k] = q[k]
    <3>1. /\ Len(u.slots) = Len(t.slots) /\ u.slots[Len(t.slots)] = t.slots[Len(t.slots)] \o w
          /\ \A k \in 1 .. Len(t.slots) - 1 : u.slots[k] = t.slots[k]
      BY <1>3, <2>2, ExtendGrows, ZenonT(60) DEF Extends
    <3> QED
      BY <3>1
  <2>4. Len(q) \in Nat /\ \A k \in 1 .. Len(q) : q[k] \in Seq(Char) /\ Len(q[k]) \in Nat
    OBVIOUS
  <2>5. ASSUME NEW k \in 1 .. Len(q) PROVE Ahead(q[k], u.slots[k])
    <3>1. CASE k = Len(q)
      <4>1. PICK x \in Seq(Char) : x = q[k]
        BY <2>4
      <4>2. Len(x \o w) = Len(x) + Len(w) /\ Len(w) \in Nat /\ \A i \in 1 .. Len(x) : (x \o w)[i] = x[i]
        BY Concatenated
      <4>3. u.slots[k] = x \o w
        BY <2>3, <3>1, <4>1
      <4> QED
        BY <2>4, <4>1, <4>2, <4>3 DEF Ahead
    <3>2. CASE k # Len(q)
      <4>1. u.slots[k] = q[k] /\ Len(q[k]) \in Nat
        BY <2>3, <2>4, <3>2
      <4> QED
        BY <4>1 DEF Ahead
    <3> QED
      BY <3>1, <3>2
  <2> QED
    BY <2>1, <2>2, <2>3, <2>4, <2>5 DEF Grown
<1> QED
  BY <1>1, <1>2, <1>3, ScanSlots

LEMMA ScannedGrows ==
    ASSUME NEW s \in Seq(Char), NEW w \in Seq(Char)
    PROVE  Grown(Scanned(s), Scanned(s \o w))
<1> DEFINE T == {u \in Seq(Char) : Grown(Scanned(s), Scanned(s \o u))}
<1>1. <<>> \in T
  <2>1. s \o <<>> = s /\ <<>> \in Seq(Char) /\ Scanned(s) \in Scanning
    BY Tuples, AppendAsConcat, ScannedSteps
  <2> QED
    BY <2>1, GrownSame
<1>2. ASSUME NEW u \in Seq(Char), NEW c \in Char, u \in T PROVE Append(u, c) \in T
  <2>1. s \o Append(u, c) = Append(s \o u, c) /\ s \o u \in Seq(Char)
    BY ConcatAppend, Concatenated
  <2>2. Scanned(Append(s \o u, c)) = Scan(Scanned(s \o u), c) /\ Scanned(s \o u) \in Scanning /\ Scanned(s) \in Scanning
    BY <2>1, ScannedSteps
  <2>3. Scan(Scanned(s \o u), c) \in Scanning /\ Grown(Scanned(s \o u), Scan(Scanned(s \o u), c))
    BY <2>2, ScanType, ScanGrows
  <2>4. Grown(Scanned(s), Scan(Scanned(s \o u), c))
    BY <1>2, <2>2, <2>3, GrownMore
  <2>5. Grown(Scanned(s), Scanned(s \o Append(u, c)))
    BY <2>1, <2>2, <2>4, Zenon
  <2> QED
    BY <2>5, Appends
<1>3. Seq(Char) \subseteq T
  <2> HIDE DEF T
  <2> QED
    BY <1>1, <1>2, EachSequence
<1> QED
  BY <1>3

\* The first slot once it is complete.
Firm(t, name) == /\ t.slots # <<>>
                 /\ t.slots[1] = name
                 /\ Len(t.slots) > 1 \/ t.mode \notin {"bare", "quoted", "escape"}

LEMMA FirmStep ==
    ASSUME NEW t \in Scanning, NEW name, Firm(t, name), NEW c \in Char
    PROVE  Firm(Scan(t, c), name)
<1> PICK q \in Seq(Seq(Char)) : q = t.slots
  BY DEF Scanning
<1>1. q # <<>> /\ q[1] = name /\ Len(q) \in Nat /\ Len(q) >= 1
  BY DEF Firm
<1>2. ASSUME NEW w \in Seq(Char)
      PROVE  Append(q, w) # <<>> /\ Append(q, w)[1] = name /\ Len(Append(q, w)) > 1
  <2>1. Append(q, w)[1] = q[1] /\ Len(Append(q, w)) = Len(q) + 1
    BY <1>1, Appends
  <2>2. Append(q, w) # <<>>
    OBVIOUS
  <2>3. Append(q, w)[1] = name /\ Len(Append(q, w)) > 1
    BY <1>1, <2>1
  <2> QED
    BY <2>2, <2>3
<1>3. CASE t.mode = "gap"
  <2>1. <<>> \in Seq(Char) /\ <<c>> \in Seq(Char)
    BY Tuples
  <2>2. CASE c \in Blank
    BY <1>3, <2>2 DEF Scan
  <2>3. CASE c \notin Blank /\ Len(q) > MaxArgs
    <3>1. Scan(t, c) = [t EXCEPT !.mode = "many"]
      BY <1>1, <1>3, <2>3 DEF Scan, BeginToken
    <3>2. Scan(t, c).slots = q /\ Scan(t, c).mode = "many"
      BY <3>1 DEF Scanning
    <3> QED
      BY <1>1, <3>2 DEF Firm
  <2>4. CASE c \notin Blank /\ ~(Len(q) > MaxArgs)
    <3>1. Scan(t, c).slots = Append(q, <<>>) \/ Scan(t, c).slots = Append(q, <<c>>)
      BY <1>1, <1>3, <2>4 DEF Scan, BeginToken
    <3> QED
      BY <1>2, <2>1, <3>1 DEF Firm
  <2> QED
    BY <2>2, <2>3, <2>4
<1>4. CASE t.mode \in {"bare", "quoted", "escape"}
  <2>1. Len(q) > 1
    BY <1>4 DEF Firm
  <2>2. CASE Rests(t, c)
    BY <1>1, <2>1, <2>2 DEF Rests, Firm
  <2>3. CASE Begins(t, c)
    BY <1>2, <2>3 DEF Begins, Firm
  <2>4. CASE Extends(t, c)
    <3>1. PICK w \in Seq(Char), mode \in Modes : Scan(t, c) = Extend(t, w, mode)
      BY <2>4 DEF Extends
    <3>2. PICK u : u = Extend(t, w, mode)
      OBVIOUS
    <3>3. /\ Len(u.slots) = Len(t.slots) /\ u.slots # <<>>
          /\ \A i \in 1 .. Len(t.slots) - 1 : u.slots[i] = t.slots[i]
      BY <1>1, <3>2, ExtendGrows
    <3>4. u.slots[1] = t.slots[1]
      BY <2>1, <3>3
    <3> QED
      BY <1>1, <2>1, <3>1, <3>2, <3>3, <3>4 DEF Firm
  <2> QED
    BY <2>2, <2>3, <2>4, ScanSlots
<1>5. CASE t.mode \in {"closed"} \cup Over
  BY <1>1, <1>5 DEF Scan, Firm, Over, Scanning
<1> QED
  BY <1>3, <1>4, <1>5 DEF Scanning, Modes, Over

LEMMA FirmScan ==
    ASSUME NEW s \in Seq(Char), NEW name, Firm(Scanned(s), name), NEW w \in Seq(Char)
    PROVE  Firm(Scanned(s \o w), name)
<1> DEFINE T == {u \in Seq(Char) : Firm(Scanned(s \o u), name)}
<1>1. <<>> \in T
  <2>1. s \o <<>> = s /\ <<>> \in Seq(Char)
    BY Tuples, AppendAsConcat
  <2> QED
    BY <2>1
<1>2. ASSUME NEW u \in Seq(Char), NEW c \in Char, u \in T PROVE Append(u, c) \in T
  <2>1. s \o Append(u, c) = Append(s \o u, c) /\ s \o u \in Seq(Char)
    BY ConcatAppend, Concatenated
  <2>2. Scanned(Append(s \o u, c)) = Scan(Scanned(s \o u), c) /\ Scanned(s \o u) \in Scanning
    BY <2>1, ScannedSteps
  <2>3. Firm(Scan(Scanned(s \o u), c), name)
    BY <1>2, <2>2, FirmStep
  <2>4. Firm(Scanned(s \o Append(u, c)), name)
    BY <2>1, <2>2, <2>3, Zenon
  <2> QED
    BY <2>4, Appends
<1>3. Seq(Char) \subseteq T
  <2> HIDE DEF T
  <2> QED
    BY <1>1, <1>2, EachSequence
<1> QED
  BY <1>3

\* The name of a call is its first slot, whatever follows.
NameFirst(name, t) == t.slots # <<>> /\ t.slots[1] = name

LEMMA CallName ==
    ASSUME NEW name, Bare(name), NEW args \in Seq(Value)
    PROVE  NameFirst(name, Scanned(Written(name, args)))
<1> DEFINE Named(t) == Firm(t, name) \/ t = Reading(<<>>, name, "bare")
           T == {u \in Seq(Value) : Named(Scanned(Written(name, u)))}
<1>1. name \in Seq(Clean) /\ name \in Seq(Char)
  BY Characters, MoreSeq DEF Bare
<1>2. <<>> \in T
  <2>1. Ready(<<>>, <<>>)
    <3>1. <<>> \in Seq(Char)
      BY Tuples
    <3>2. Scanned(<<>>) = [slots |-> <<>>, mode |-> "gap"]
      BY <3>1, ScannedSteps
    <3> QED
      BY <3>2, WireAssumption DEF Ready
  <2>2. Scanned(<<>> \o name) = Reading(<<>>, name, "bare")
    <3>1. <<>> \in Seq(Char) /\ <<>> \in Seq(Seq(Char))
      BY Tuples
    <3> QED
      BY <2>1, <3>1, BareScan
  <2>3. <<>> \o name = name
    BY <1>1, AppendAsConcat
  <2>4. Written(name, <<>>) = name /\ <<>> \in Seq(Value)
    BY <1>1, Tuples, WrittenSteps
  <2> QED
    BY <2>2, <2>3, <2>4
<1>3. ASSUME NEW u \in Seq(Value), NEW v \in Value, u \in T PROVE Append(u, v) \in T
  <2>1. PICK s \in Seq(Clean) : s = Written(name, u)
    BY <1>1, WrittenSteps
  <2>2. s \in Seq(Char) /\ " " \in Char
    BY Characters, MoreSeq
  <2>3. Written(name, Append(u, v)) = Append(s, " ") \o EncodeToken(v)
    BY <1>1, <2>1, WrittenSteps DEF Writing
  <2>4. Append(s, " ") \in Seq(Char) /\ Scanned(Append(s, " ")) = Scan(Scanned(s), " ") /\ Scanned(s) \in Scanning
    BY <2>2, Appends, ScannedSteps
  <2>5. EncodeToken(v) \in Seq(Char)
    BY TokenBegins
  <2>6. Named(Scanned(s))
    BY <1>3, <2>1
  <2> HIDE DEF T
  <2>7. Firm(Scan(Scanned(s), " "), name)
    <3>1. CASE Firm(Scanned(s), name)
      BY <2>2, <2>4, <3>1, FirmStep
    <3>2. CASE Scanned(s) = Reading(<<>>, name, "bare")
      <4>1. Scanned(s).slots = Append(<<>>, name) /\ Scanned(s).mode = "bare"
        BY <3>2 DEF Reading
      <4>2. Scan(Scanned(s), " ") = [slots |-> Append(<<>>, name), mode |-> "gap"]
        BY <2>4, <4>1, BlankScan
      <4>3. Append(<<>>, name) # <<>> /\ Append(<<>>, name)[1] = name
        OBVIOUS
      <4>4. PICK x : x = Append(<<>>, name)
        OBVIOUS
      <4>5. x # <<>> /\ x[1] = name
        BY <4>3, <4>4, Zenon
      <4>6. PICK y : y = Scan(Scanned(s), " ")
        OBVIOUS
      <4>7. y = [slots |-> x, mode |-> "gap"]
        BY <4>2, <4>4, <4>6, Zenon
      <4>8. y.slots = x /\ y.mode = "gap"
        BY <4>7
      <4>9. Firm(y, name)
        BY <4>5, <4>8 DEF Firm
      <4> QED
        BY <4>6, <4>9, Zenon
    <3> QED
      BY <2>6, <3>1, <3>2
  <2>8. Firm(Scanned(Append(s, " ") \o EncodeToken(v)), name)
    BY <2>4, <2>5, <2>7, FirmScan
  <2>9. Named(Scanned(Written(name, Append(u, v))))
    BY <2>3, <2>8, Zenon
  <2> QED
    BY <2>9, Appends DEF T
<1>4. Seq(Value) \subseteq T
  <2> HIDE DEF T
  <2> QED
    BY <1>2, <1>3, EachSequence
<1>5. Named(Scanned(Written(name, args)))
  BY <1>4
<1>6. CASE Firm(Scanned(Written(name, args)), name)
  BY <1>6 DEF Firm, NameFirst
<1>7. CASE Scanned(Written(name, args)) = Reading(<<>>, name, "bare")
  <2>1. Scanned(Written(name, args)).slots = Append(<<>>, name)
    BY <1>7 DEF Reading
  <2>2. Append(<<>>, name) # <<>> /\ Append(<<>>, name)[1] = name
    OBVIOUS
  <2> QED
    BY <2>1, <2>2 DEF NameFirst
<1> QED
  BY <1>5, <1>6, <1>7

\* A quoted word has a quote; a comment has no slot.
Quoting == {"quoted", "escape", "closed", "garbage"}
Occurs(c, s) == \E i \in 1 .. Len(s) : s[i] = c
Sighted(s) == /\ Scanned(s).mode \in Quoting => Occurs(Quote, s)
              /\ Scanned(s).mode = "comment" => Scanned(s).slots = <<>>

LEMMA OccursLater ==
    ASSUME NEW s \in Seq(Char), NEW c \in Char, NEW d
    PROVE  /\ Occurs(d, s) => Occurs(d, Append(s, c))
           /\ Occurs(c, Append(s, c))
           /\ d # c /\ Occurs(d, Append(s, c)) => Occurs(d, s)
<1>1. /\ Len(Append(s, c)) = Len(s) + 1 /\ Len(s) \in Nat /\ Append(s, c)[Len(s) + 1] = c
      /\ \A i \in 1 .. Len(s) : Append(s, c)[i] = s[i]
  BY Appends
<1> PICK x : x = Append(s, c)
  OBVIOUS
<1>2. Len(x) = Len(s) + 1 /\ Len(s) \in Nat /\ x[Len(s) + 1] = c /\ \A i \in 1 .. Len(s) : x[i] = s[i]
  BY <1>1
<1> QED
  BY <1>2 DEF Occurs

LEMMA QuoteSeen == ASSUME NEW s \in Seq(Char) PROVE Sighted(s)
<1> DEFINE T == {u \in Seq(Char) : Sighted(u)}
<1>1. <<>> \in T
  <2>1. <<>> \in Seq(Char)
    BY Tuples
  <2>2. Scanned(<<>>) = [slots |-> <<>>, mode |-> "gap"]
    BY <2>1, ScannedSteps
  <2> QED
    BY <2>1, <2>2 DEF Sighted, Quoting
<1>2. ASSUME NEW u \in Seq(Char), NEW c \in Char, u \in T PROVE Append(u, c) \in T
  <2>1. PICK t \in Scanning : t = Scanned(u)
    BY ScannedSteps
  <2>2. Scanned(Append(u, c)) = Scan(t, c)
    BY <2>1, ScannedSteps
  <2>3. /\ t.mode \in Quoting => Occurs(Quote, u)
        /\ t.mode = "comment" => t.slots = <<>>
    BY <1>2, <2>1 DEF Sighted
  <2>4. Scan(t, c).mode \in Quoting => t.mode \in Quoting \/ c = Quote
    BY DEF Scan, BeginToken, Extend, Quoting, Scanning
  <2>5. Scan(t, c).mode = "comment" => Scan(t, c).slots = <<>>
    BY <2>3 DEF Scan, BeginToken, Extend, Scanning
  <2>6. Scan(t, c).mode \in Quoting => Occurs(Quote, Append(u, c))
    BY <2>3, <2>4, OccursLater
  <2> HIDE DEF T
  <2>7. Sighted(Append(u, c))
    BY <2>2, <2>5, <2>6 DEF Sighted
  <2> QED
    BY <2>7, Appends DEF T
<1>3. Seq(Char) \subseteq T
  <2> HIDE DEF T
  <2> QED
    BY <1>1, <1>2, EachSequence
<1> QED
  BY <1>3

LEMMA KeptOccurs == ASSUME NEW s \in Seq(Char), Occurs(Quote, Kept(s)) PROVE Occurs(Quote, s)
<1> DEFINE T == {u \in Seq(Char) : Occurs(Quote, Kept(u)) => Occurs(Quote, u)}
<1>1. <<>> \in T
  <2>1. <<>> \in Seq(Char)
    BY Tuples
  <2>2. Kept(<<>>) = <<>>
    BY <2>1, KeptSteps
  <2> QED
    BY <2>1, <2>2
<1>2. ASSUME NEW u \in Seq(Char), NEW c \in Char, u \in T PROVE Append(u, c) \in T
  <2>1. PICK k \in Seq(Char) : k = Kept(u)
    BY KeptSteps
  <2>2. Kept(Append(u, c)) = Keep(k, c)
    BY <2>1, KeptSteps
  <2>3. Occurs(Quote, k) => Occurs(Quote, u)
    BY <1>2, <2>1
  <2>4. Occurs(Quote, Keep(k, c)) => c = Quote \/ Occurs(Quote, k)
    BY OccursLater DEF Keep
  <2>5. Occurs(Quote, Keep(k, c)) => Occurs(Quote, Append(u, c))
    BY <2>3, <2>4, OccursLater
  <2> HIDE DEF T
  <2> QED
    BY <2>2, <2>5, Appends DEF T
<1>3. Seq(Char) \subseteq T
  <2> HIDE DEF T
  <2> QED
    BY <1>1, <1>2, EachSequence
<1> QED
  BY <1>3

\* The part of a line that its buffer has kept.
LEMMA CutGrows ==
    ASSUME NEW k \in Seq(Char), NEW n \in Nat, n <= Len(k)
    PROVE  SubSeq(k, 1, n) \in Seq(Char) /\ Grown(Scanned(SubSeq(k, 1, n)), Scanned(k))
<1>1. PICK z \in Nat : z = Len(k)
  OBVIOUS
<1>2. /\ Slice(k, 0, n) \o Slice(k, n, z) = Slice(k, 0, z)
      /\ Slice(k, 0, n) \in Seq(Char) /\ Slice(k, n, z) \in Seq(Char)
  <2>1. 0 \in Nat /\ 0 <= n /\ n <= z /\ z <= Len(k)
    BY <1>1
  <2> QED
    BY <2>1, SliceJoin, SliceOf
<1>3. Slice(k, 0, z) = k
  BY <1>1, SliceEnds
<1>4. Grown(Scanned(Slice(k, 0, n)), Scanned(k))
  <2>1. Grown(Scanned(Slice(k, 0, n)), Scanned(Slice(k, 0, n) \o Slice(k, n, z)))
    BY <1>2, ScannedGrows
  <2> QED
    BY <1>2, <1>3, <2>1, Zenon
<1>5. Slice(k, 0, n) = SubSeq(k, 1, n)
  BY DEF Slice
<1> QED
  BY <1>2, <1>4, <1>5, Zenon

LEMMA AheadPrefix ==
    ASSUME NEW x \in Seq(Char), NEW y \in Seq(Char), Ahead(x, y)
    PROVE  IsPrefix(x, y)
<1>1. PICK n \in Nat : n = Len(x)
  OBVIOUS
<1>2. n <= Len(x) /\ n <= Len(y) /\ \A i \in 1 .. n : y[i] = x[i]
  BY <1>1 DEF Ahead
<1>3. PICK u \in Seq(Char) : u = SubSeq(x, 1, n)
  BY <1>2, FirstPart
<1>4. PICK v \in Seq(Char) : v = SubSeq(y, 1, n)
  BY <1>2, FirstPart
<1>5. Len(u) = n /\ Len(v) = n /\ \A i \in 1 .. n : u[i] = x[i] /\ v[i] = y[i]
  BY <1>2, <1>3, <1>4, FirstPart
<1>6. u = v
  BY <1>2, <1>5
<1> QED
  BY <1>1, <1>2, <1>3, <1>4, <1>6 DEF IsPrefix

-----------------------------------------------------------------------------
(* What a line that is complete does.                                      *)

Ran == {"unknown_cmd", "ok", "arg_count", "bad_args"}

LEMMA DispatchKind ==
    ASSUME NEW name, NEW args, NEW held
    PROVE  Dispatch(name, args, held).kind \in Ran /\ Dispatch(name, args, held).name = name
<1>1. CASE name \notin DOMAIN Commands
  BY <1>1 DEF Dispatch, Result, Ran
<1>2. CASE name \in DOMAIN Commands
  <2>1. Commands[name].does \in {"fn", "get", "set"}
    BY <1>2, CommandsAssumption
  <2> QED
    BY <1>2, <2>1 DEF Dispatch, Result, Ran
<1> QED
  BY <1>1, <1>2

\* What an answer tells of its line.
Tells(a, l) == LET t == Tokenize(l.buf) IN
  /\ a.kind = "overflow" <=> l.overflow
  /\ a.kind = "overflow" => a.name = t.name
  /\ a.kind = "syntax" => ~l.overflow /\ ~t.ok /\ a.name = t.name
  /\ a.kind \in Ran => /\ ~l.overflow /\ t.ok /\ t.name # None
                       /\ \E v : /\ a.kind = Dispatch(t.name, t.args, v).kind
                                 /\ a.name = Dispatch(t.name, t.args, v).name
                                 /\ a.ret = Dispatch(t.name, t.args, v).ret
  /\ a.kind \in Ran \cup {"overflow", "syntax"}

Outcome(a, r) == r.kind # "blank" /\ a.kind = r.kind /\ a.name = r.name /\ a.ret = r.ret

LEMMA HandleTells ==
    ASSUME NEW l \in Assembled, NEW v, NEW a, Outcome(a, Handle(l, v))
    PROVE  Tells(a, l)
<1> DEFINE t == Tokenize(l.buf)
<1>1. t.ok \in BOOLEAN /\ l.overflow \in BOOLEAN
  BY DEF Tokenize, Assembled
<1> HIDE DEF t
<1>2. CASE l.overflow
  <2>1. Handle(l, v) = Result("overflow", t.name, <<>>)
    BY <1>2 DEF Handle, t
  <2> QED
    BY <1>2, <2>1 DEF Result, Outcome, Tells, Ran, t
<1>3. CASE ~l.overflow /\ ~t.ok
  <2>1. Handle(l, v) = Result("syntax", t.name, <<>>)
    BY <1>3 DEF Handle, t
  <2> QED
    BY <1>3, <2>1 DEF Result, Outcome, Tells, Ran, t
<1>4. CASE ~l.overflow /\ t.ok /\ t.name = None
  <2>1. Handle(l, v) = Result("blank", None, <<>>)
    BY <1>4 DEF Handle, t
  <2> QED
    BY <2>1 DEF Result, Outcome
<1>5. CASE ~l.overflow /\ t.ok /\ t.name # None
  <2>1. Handle(l, v) = Dispatch(t.name, t.args, v)
    BY <1>5 DEF Handle, t
  <2>2. Dispatch(t.name, t.args, v).kind \in Ran
    BY DispatchKind
  <2>3. PICK d : d = Dispatch(t.name, t.args, v)
    OBVIOUS
  <2>4. a.kind = d.kind /\ a.name = d.name /\ a.ret = d.ret /\ d.kind \in Ran
    BY <2>1, <2>2, <2>3 DEF Outcome
  <2>5. a.kind \in Ran /\ a.kind # "overflow" /\ a.kind # "syntax"
    BY <2>4 DEF Ran
  <2>6. \E x : /\ a.kind = Dispatch(t.name, t.args, x).kind
               /\ a.name = Dispatch(t.name, t.args, x).name
               /\ a.ret = Dispatch(t.name, t.args, x).ret
    BY <2>3, <2>4, Zenon
  <2> QED
    BY <1>5, <2>5, <2>6, Zenon DEF Tells, t
<1> QED
  BY <1>1, <1>2, <1>3, <1>4, <1>5

LEMMA AnswerTells ==
    ASSUME IInv, NEW k \in DOMAIN answers, answers[k].to \notin cut
    PROVE  /\ answers[k].to \in {1, 2}
           /\ IsCall(reqs[answers[k].to]) \/ IsRaw(reqs[answers[k].to])
           /\ OneLine(reqs[answers[k].to].text)
           /\ Kept(reqs[answers[k].to].text) \in Seq(Char)
           /\ Tells(answers[k], Stored(Kept(reqs[answers[k].to].text)))
<1> PICK a : a = answers[k]
  OBVIOUS
<1>1. a.to \in {1, 2} /\ Faithful(a)
  BY DEF IInv, Progress, Behind
<1>2. (IsCall(reqs[a.to]) \/ IsRaw(reqs[a.to])) /\ OneLine(reqs[a.to].text)
  BY <1>1 DEF IInv, Sent
<1>3. PICK text \in Seq(Char) : text = reqs[a.to].text
  BY <1>2 DEF OneLine
<1>4. Feed(EmptyLine, text) = Stored(Kept(text)) /\ Kept(text) \in Seq(Char)
  BY LineStored, KeptSteps
<1>5. PICK l \in Assembled : l = Stored(Kept(text))
  BY <1>4, EmptyLineFed, FeedSteps
<1>7. PICK v : /\ Handle(Feed(EmptyLine, text), v).kind # "blank"
               /\ a.kind = Handle(Feed(EmptyLine, text), v).kind
               /\ a.name = Handle(Feed(EmptyLine, text), v).name
               /\ a.ret = Handle(Feed(EmptyLine, text), v).ret
  BY <1>1, <1>3, Zenon DEF Faithful
<1>8. Feed(EmptyLine, text) = l
  BY <1>4, <1>5
<1>9. Outcome(a, Handle(l, v))
  BY <1>7, <1>8, Zenon DEF Outcome
<1>10. Tells(a, l)
  BY <1>9, HandleTells, Zenon
<1> QED
  BY <1>1, <1>2, <1>3, <1>4, <1>5, <1>10, Zenon

LEMMA EmptyLength ==
    ASSUME NEW S, NEW q \in Seq(S)
    PROVE  Len(q) \in Nat /\ (q = <<>> <=> Len(q) = 0)
OBVIOUS

\* What an error may name.
LEMMA Nameable ==
    ASSUME NEW s \in Seq(Char)
    PROVE  \/ Tokenize(s).name = None
           \/ Scanned(s).slots # <<>> /\ Tokenize(s).name = Scanned(s).slots[1]
<1>1. Scanned(s) \in Scanning
  BY ScannedSteps
<1>2. Len(Scanned(s).slots) > 1 => Scanned(s).slots # <<>>
  BY <1>1 DEF Scanning
<1> QED
  BY <1>2 DEF Tokenize

-----------------------------------------------------------------------------
(* Where the characters of a line come to be.                              *)

\* The slots hold the line's characters, and backslashes.
LEMMA SlotsWithin ==
    ASSUME NEW X, X \subseteq Char, Backslash \in X, NEW s \in Seq(X)
    PROVE  Scanned(s).slots \in Seq(Seq(X))
<1> DEFINE T == {u \in Seq(X) : Scanned(u).slots \in Seq(Seq(X))}
<1>1. <<>> \in T
  <2>1. <<>> \in Seq(X) /\ <<>> \in Seq(Char) /\ <<>> \in Seq(Seq(X))
    BY Tuples
  <2>2. Scanned(<<>>) = [slots |-> <<>>, mode |-> "gap"]
    BY <2>1, ScannedSteps
  <2>3. Scanned(<<>>).slots = <<>>
    BY <2>2
  <2>4. Scanned(<<>>).slots \in Seq(Seq(X))
    BY <2>1, <2>3, Zenon
  <2> QED
    BY <2>1, <2>4, Zenon
<1>2. ASSUME NEW u \in Seq(X), NEW c \in X, u \in T PROVE Append(u, c) \in T
  <2>1. u \in Seq(Char) /\ c \in Char
    BY MoreSeq
  <2>2. PICK t \in Scanning : t = Scanned(u)
    BY <2>1, ScannedSteps
  <2>3. Scanned(Append(u, c)) = Scan(t, c)
    BY <2>1, <2>2, ScannedSteps
  <2>4. PICK q \in Seq(Seq(X)) : q = t.slots
    BY <1>2, <2>2
  <2> SUFFICES Scan(t, c).slots \in Seq(Seq(X))
    <3>1. Append(u, c) \in Seq(X)
      BY Appends
    <3> QED
      BY <2>3, <3>1
  <2> HIDE DEF T
  <2>5. <<>> \in Seq(X) /\ <<c>> \in Seq(X) /\ <<Backslash, c>> \in Seq(X)
    BY Tuples
  <2>6. CASE Rests(t, c)
    BY <2>4, <2>6 DEF Rests
  <2>7. CASE Begins(t, c)
    <3>1. PICK w \in Seq(Char) : /\ Scan(t, c).slots = Append(t.slots, w)
                                 /\ w = <<c>> \/ (w = <<>> /\ c = Quote)
      BY <2>7 DEF Begins
    <3>2. w \in Seq(X)
      BY <2>5, <3>1
    <3>3. Append(q, w) \in Seq(Seq(X))
      BY <3>2, Appends
    <3> QED
      BY <2>4, <3>1, <3>3
  <2>8. CASE Extends(t, c)
    <3>1. PICK w \in Seq(Char), mode \in Modes : /\ Scan(t, c) = Extend(t, w, mode)
                                                 /\ w = <<c>> \/ w = <<Backslash, c>>
      BY <2>8 DEF Extends
    <3>2. w \in Seq(X) /\ q # <<>>
      BY <2>4, <2>5, <2>8, <3>1 DEF Extends
    <3>3. q[Len(q)] \in Seq(X)
      BY <3>2, SetLast
    <3>4. PICK x \in Seq(X) : x = q[Len(q)] \o w
      BY <3>2, <3>3, Concatenated
    <3>5. [q EXCEPT ![Len(q)] = x] \in Seq(Seq(X))
      BY <3>2, SetLast
    <3>6. Extend(t, w, mode) = [slots |-> [q EXCEPT ![Len(q)] = x], mode |-> mode]
      BY <2>4, <3>4 DEF Extend
    <3> QED
      BY <3>1, <3>5, <3>6
  <2> QED
    BY <2>1, <2>6, <2>7, <2>8, ScanSlots
<1>3. Seq(X) \subseteq T
  <2> HIDE DEF T
  <2> QED
    BY <1>1, <1>2, EachSequence
<1> QED
  BY <1>3

LEMMA KeptWithin ==
    ASSUME NEW X, X \subseteq Char, NEW s \in Seq(X)
    PROVE  Kept(s) \in Seq(X \ {"\n", "\r"})
<1> DEFINE T == {u \in Seq(X) : Kept(u) \in Seq(X \ {"\n", "\r"})}
<1>1. <<>> \in T
  <2>1. <<>> \in Seq(X) /\ <<>> \in Seq(Char) /\ <<>> \in Seq(X \ {"\n", "\r"})
    BY Tuples
  <2> QED
    BY <2>1, KeptSteps
<1>2. ASSUME NEW u \in Seq(X), NEW c \in X, u \in T PROVE Append(u, c) \in T
  <2>1. u \in Seq(Char) /\ c \in Char
    BY MoreSeq
  <2>2. PICK k \in Seq(X \ {"\n", "\r"}) : k = Kept(u)
    BY <1>2
  <2>3. Kept(Append(u, c)) = Keep(k, c)
    BY <2>1, <2>2, KeptSteps
  <2> HIDE DEF T
  <2>4. Keep(k, c) \in Seq(X \ {"\n", "\r"})
    <3>1. CASE c \in {"\n", "\r"}
      BY <3>1 DEF Keep
    <3>2. CASE c \notin {"\n", "\r"}
      <4>1. Append(k, c) \in Seq(X \ {"\n", "\r"})
        BY <3>2, Appends
      <4> QED
        BY <3>2, <4>1 DEF Keep
    <3> QED
      BY <3>1, <3>2
  <2> QED
    BY <2>3, <2>4, Appends DEF T
<1>3. Seq(X) \subseteq T
  <2> HIDE DEF T
  <2> QED
    BY <1>1, <1>2, EachSequence
<1> QED
  BY <1>3

\* A tab in a slot was in the line; ends of lines are in no slot.
LEMMA TabsKnown ==
    ASSUME NEW s \in Seq(Char), NEW k \in 1 .. Len(Scanned(Kept(s)).slots),
           NEW m \in 1 .. Len(Scanned(Kept(s)).slots[k])
    PROVE  /\ Scanned(Kept(s)).slots[k][m] \notin {"\n", "\r"}
           /\ Scanned(Kept(s)).slots[k][m] = "\t" => Occurs("\t", s)
<1>1. ASSUME NEW X, X \subseteq Char, Backslash \in X, s \in Seq(X)
      PROVE  Scanned(Kept(s)).slots[k][m] \in X \ {"\n", "\r"}
  <2>1. PICK Y : Y = X \ {"\n", "\r"}
    OBVIOUS
  <2>2. Y \subseteq Char /\ Backslash \in Y
    BY <1>1, <2>1 DEF Backslash
  <2>3. Kept(s) \in Seq(Y)
    BY <1>1, <2>1, KeptWithin
  <2>4. PICK q \in Seq(Seq(Y)) : q = Scanned(Kept(s)).slots
    BY <2>2, <2>3, SlotsWithin
  <2>5. PICK x \in Seq(Y) : x = q[k]
    BY <2>4
  <2>6. x[m] \in Y
    BY <2>4, <2>5
  <2> QED
    BY <2>1, <2>4, <2>5, <2>6
<1>2. Scanned(Kept(s)).slots[k][m] \notin {"\n", "\r"}
  <2>1. Char \subseteq Char /\ Backslash \in Char
    BY Characters
  <2> QED
    BY <1>1, <2>1
<1>3. CASE ~Occurs("\t", s)
  <2>1. s \in Seq(Char \ {"\t"})
    <3>1. \A i \in 1 .. Len(s) : s[i] \in Char \ {"\t"}
      BY <1>3 DEF Occurs
    <3> QED
      BY <3>1
  <2>2. Char \ {"\t"} \subseteq Char /\ Backslash \in Char \ {"\t"}
    BY Characters DEF Backslash
  <2>3. Scanned(Kept(s)).slots[k][m] \in (Char \ {"\t"}) \ {"\n", "\r"}
    BY <1>1, <2>1, <2>2
  <2> QED
    BY <1>2, <2>3
<1> QED
  BY <1>2, <1>3

\* The minus at place i of a line is in a slot, and what precedes it there preceded it in the line.
Landed(q, s, i) == \E k \in 1 .. Len(q) : \E m \in 1 .. Len(q[k]) :
                      /\ q[k][m] = "-"
                      /\ (\E j \in 1 .. m - 1 : q[k][j] = "\t") => \E j \in 1 .. i - 1 : s[j] = "\t"

Landing(s) == Scanned(Kept(s)).mode \notin Over =>
                 \A i \in 1 .. Len(s) : s[i] = "-" => Landed(Scanned(Kept(s)).slots, s, i)

LEMMA LandedStays ==
    ASSUME NEW t \in Scanning, NEW u \in Scanning, Grown(t, u), NEW s \in Seq(Char), NEW c \in Char,
           NEW i \in 1 .. Len(s), Landed(t.slots, s, i)
    PROVE  Landed(u.slots, Append(s, c), i)
<1>1. PICK q \in Seq(Seq(Char)) : q = t.slots
  BY DEF Scanning
<1>2. PICK r \in Seq(Seq(Char)) : r = u.slots
  BY DEF Scanning
<1>3. Len(q) <= Len(r) /\ \A k \in 1 .. Len(q) : Ahead(q[k], r[k])
  BY <1>1, <1>2 DEF Grown
<1>4. PICK k \in 1 .. Len(q) : \E m \in 1 .. Len(q[k]) :
         /\ q[k][m] = "-"
         /\ (\E j \in 1 .. m - 1 : q[k][j] = "\t") => \E j \in 1 .. i - 1 : s[j] = "\t"
  BY <1>1 DEF Landed
<1>5. PICK m \in 1 .. Len(q[k]) :
         /\ q[k][m] = "-"
         /\ (\E j \in 1 .. m - 1 : q[k][j] = "\t") => \E j \in 1 .. i - 1 : s[j] = "\t"
  BY <1>4
<1>6. Len(q) \in Nat /\ Len(r) \in Nat /\ Len(s) \in Nat
  BY EmptyLength
<1>7. k \in 1 .. Len(r)
  BY <1>3, <1>6
<1>8. PICK x \in Seq(Char) : x = q[k]
  BY <1>6
<1>9. PICK y \in Seq(Char) : y = r[k]
  BY <1>7
<1>10. Len(x) \in Nat /\ Len(y) \in Nat
  BY EmptyLength
<1>11. Len(x) <= Len(y) /\ \A j \in 1 .. Len(x) : y[j] = x[j]
  BY <1>3, <1>8, <1>9 DEF Ahead
<1>12. m \in 1 .. Len(x) /\ m \in 1 .. Len(y)
  BY <1>8, <1>10, <1>11
<1>13. r[k][m] = "-"
  BY <1>5, <1>8, <1>9, <1>11, <1>12
<1>14. (\E j \in 1 .. m - 1 : r[k][j] = "\t") => (\E j \in 1 .. m - 1 : q[k][j] = "\t")
  <2>1. \A j \in 1 .. m - 1 : y[j] = x[j]
    <3>1. \A j \in 1 .. m - 1 : j \in 1 .. Len(x)
      BY <1>10, <1>12
    <3> QED
      BY <1>11, <3>1, Zenon
  <2> QED
    BY <1>8, <1>9, <2>1
<1>15. (\E j \in 1 .. i - 1 : s[j] = "\t") => \E j \in 1 .. i - 1 : Append(s, c)[j] = "\t"
  <2>1. \A j \in 1 .. Len(s) : Append(s, c)[j] = s[j]
    BY Appends
  <2>2. \A j \in 1 .. i - 1 : Append(s, c)[j] = s[j]
    BY <1>6, <2>1
  <2> QED
    BY <2>2
<1>16. m \in 1 .. Len(r[k])
  BY <1>9, <1>12
<1> QED
  BY <1>2, <1>5, <1>7, <1>13, <1>14, <1>15, <1>16, Zenon DEF Landed

LEMMA MinusLands ==
    ASSUME NEW s \in Seq(Char), NEW t \in Scanning, t = Scan(Scanned(Kept(s)), "-"), t.mode \notin Over
    PROVE  Landed(t.slots, Append(s, "-"), Len(s) + 1)
<1> PICK p \in Scanning : p = Scanned(Kept(s))
  <2>1. Kept(s) \in Seq(Char)
    BY KeptSteps
  <2> QED
    BY <2>1, ScannedSteps
<1> PICK q \in Seq(Seq(Char)) : q = p.slots
  BY DEF Scanning
<1> PICK r \in Seq(Seq(Char)) : r = t.slots
  BY DEF Scanning
<1>1. "-" \in Char /\ Len(q) \in Nat /\ Len(r) \in Nat /\ Len(s) \in Nat
  BY Characters, EmptyLength
<1>2. ~Rests(p, "-")
  BY DEF Rests
<1>3. CASE Begins(p, "-")
  <2>1. r = Append(q, <<"-">>)
    BY <1>3 DEF Begins, Quote
  <2>2. <<"-">> \in Seq(Char) /\ Len(<<"-">>) = 1 /\ <<"-">>[1] = "-"
    BY <1>1, Tuples
  <2>3. Len(r) = Len(q) + 1 /\ r[Len(q) + 1] = <<"-">>
    BY <2>1, <2>2, Appends
  <2>4. PICK k \in 1 .. Len(r) : k = Len(q) + 1
    BY <1>1, <2>3
  <2>5. 1 \in 1 .. Len(r[k]) /\ r[k][1] = "-"
    <3>1. PICK x : x = <<"-">>
      OBVIOUS
    <3>2. Len(x) = 1 /\ x[1] = "-" /\ r[k] = x
      BY <2>2, <2>3, <2>4, <3>1, Zenon
    <3>3. 1 \in 1 .. Len(x)
      BY <3>2
    <3> QED
      BY <3>2, <3>3, Zenon
  <2>6. ~ \E j \in 1 .. 1 - 1 : r[k][j] = "\t"
    OBVIOUS
  <2> QED
    BY <2>5, <2>6, Zenon DEF Landed
<1>4. CASE Extends(p, "-")
  <2>1. PICK w \in Seq(Char), mode \in Modes : /\ t = Extend(p, w, mode)
                                               /\ w = <<"-">> \/ w = <<Backslash, "-">>
    BY <1>4 DEF Extends
  <2>2. p.slots # <<>>
    BY <1>4 DEF Extends
  <2>3. Len(t.slots) = Len(p.slots) /\ t.slots[Len(p.slots)] = p.slots[Len(p.slots)] \o w
    <3>1. PICK u : u = Extend(p, w, mode)
      OBVIOUS
    <3>2. Len(u.slots) = Len(p.slots) /\ u.slots[Len(p.slots)] = p.slots[Len(p.slots)] \o w
      BY <2>2, <3>1, ExtendGrows, ZenonT(60)
    <3> QED
      BY <2>1, <3>1, <3>2
  <2>4. Len(r) = Len(q) /\ r[Len(q)] = q[Len(q)] \o w /\ Len(q) >= 1
    <3>1. Len(r) = Len(q) /\ r[Len(q)] = q[Len(q)] \o w
      BY <2>3, Zenon
    <3>2. q # <<>>
      BY <2>2
    <3>3. Len(q) # 0
      BY <3>2, EmptyLength
    <3>4. Len(q) >= 1
      BY <1>1, <3>3
    <3> QED
      BY <3>1, <3>4, Zenon
  <2>5. PICK k \in 1 .. Len(r) : k = Len(q)
    BY <1>1, <2>4
  <2>6. PICK x \in Seq(Char) : x = q[k]
    BY <2>4, <2>5
  <2>7. PICK y \in Seq(Char) : y = x \o w
    BY Concatenated
  <2>8. /\ Len(y) = Len(x) + Len(w) /\ Len(x) \in Nat /\ Len(w) \in Nat
        /\ \A j \in 1 .. Len(x) : y[j] = x[j]
        /\ \A j \in 1 .. Len(w) : y[Len(x) + j] = w[j]
    BY <2>7, Concatenated
  <2>9. Len(w) >= 1 /\ w[Len(w)] = "-" /\ \A j \in 1 .. Len(w) : w[j] # "\t"
    <3>1. CASE w = <<"-">>
      BY <3>1
    <3>2. CASE w = <<Backslash, "-">>
      BY <3>2 DEF Backslash
    <3> QED
      BY <2>1, <3>1, <3>2
  <2>10. PICK m \in 1 .. Len(y) : m = Len(x) + Len(w)
    BY <2>8, <2>9
  <2>11. y[m] = "-"
    <3>1. PICK z \in 1 .. Len(w) : z = Len(w)
      BY <2>8, <2>9
    <3>2. y[Len(x) + z] = w[z]
      BY <2>8, SMTT(30)
    <3> QED
      BY <2>9, <2>10, <3>1, <3>2
  <2>12. r[k] = y
    BY <2>4, <2>5, <2>6, <2>7
  <2>13. ASSUME NEW j \in 1 .. m - 1, y[j] = "\t" PROVE \E i \in 1 .. Len(s) : s[i] = "\t"
    <3>1. j \in 1 .. Len(x)
      <4> SUFFICES ASSUME j > Len(x) PROVE FALSE
        BY <2>8, <2>10
      <4>1. PICK i \in 1 .. Len(w) : j = Len(x) + i
        <5>1. j - Len(x) \in 1 .. Len(w) /\ j = Len(x) + (j - Len(x))
          BY <2>8, <2>10, SMTT(30)
        <5> QED
          BY <5>1
      <4>2. y[j] = w[i]
        BY <2>8, <4>1
      <4> QED
        BY <2>9, <2>13, <4>2
    <3>2. x[j] = "\t"
      BY <2>8, <2>13, <3>1
    <3>3. Scanned(Kept(s)).slots[k][j] = "\t" /\ k \in 1 .. Len(Scanned(Kept(s)).slots)
          /\ j \in 1 .. Len(Scanned(Kept(s)).slots[k])
      BY <2>4, <2>6, <3>1, <3>2
    <3>4. Occurs("\t", s)
      BY <3>3, TabsKnown
    <3> QED
      BY <3>4 DEF Occurs
  <2>14. (\E j \in 1 .. m - 1 : r[k][j] = "\t") =>
            \E j \in 1 .. (Len(s) + 1) - 1 : Append(s, "-")[j] = "\t"
    <3>1. \A i \in 1 .. Len(s) : Append(s, "-")[i] = s[i]
      BY <1>1, Appends
    <3>2. (Len(s) + 1) - 1 = Len(s)
      BY <1>1
    <3> QED
      BY <2>12, <2>13, <3>1, <3>2
  <2>15. m \in 1 .. Len(r[k]) /\ r[k][m] = "-"
    BY <2>11, <2>12
  <2> QED
    BY <2>14, <2>15, Zenon DEF Landed
<1> QED
  BY <1>1, <1>2, <1>3, <1>4, ScanSlots

LEMMA AllLand == ASSUME NEW s \in Seq(Char) PROVE Landing(s)
<1> DEFINE T == {u \in Seq(Char) : Landing(u)}
<1>1. <<>> \in T
  <2>1. <<>> \in Seq(Char) /\ Len(<<>>) = 0
    BY Tuples
  <2> QED
    BY <2>1 DEF Landing
<1>2. ASSUME NEW u \in Seq(Char), NEW c \in Char, u \in T PROVE Append(u, c) \in T
  <2>1. PICK w \in Seq(Char) : w = Kept(u)
    BY KeptSteps
  <2>2. PICK p \in Scanning : p = Scanned(w)
    BY ScannedSteps
  <2>3. PICK t \in Scanning : t = Scanned(Kept(Append(u, c)))
    <3>1. Append(u, c) \in Seq(Char)
      BY Appends
    <3>2. Kept(Append(u, c)) \in Seq(Char)
      BY <3>1, KeptSteps
    <3> QED
      BY <3>2, ScannedSteps
  <2>4. t = IF c \in {"\n", "\r"} THEN p ELSE Scan(p, c)
    <3>1. Kept(Append(u, c)) = Keep(w, c)
      BY <2>1, KeptSteps
    <3>2. CASE c \in {"\n", "\r"}
      BY <2>2, <2>3, <3>1, <3>2 DEF Keep
    <3>3. CASE c \notin {"\n", "\r"}
      <4>1. Kept(Append(u, c)) = Append(w, c)
        BY <3>1, <3>3 DEF Keep
      <4>2. Scanned(Append(w, c)) = Scan(p, c)
        BY <2>2, ScannedSteps
      <4> QED
        BY <2>3, <3>3, <4>1, <4>2
    <3> QED
      BY <3>2, <3>3
  <2>5. Grown(p, t)
    BY <2>4, ScanGrows, GrownSame
  <2>6. t.mode \notin Over => p.mode \notin Over
    BY <2>4 DEF Scan, Over
  <2>7. Landing(u)
    BY <1>2
  <2> HIDE DEF T
  <2>8. Landing(Append(u, c))
    <3> SUFFICES ASSUME t.mode \notin Over, NEW i \in 1 .. Len(Append(u, c)), Append(u, c)[i] = "-"
                 PROVE  Landed(t.slots, Append(u, c), i)
      BY <2>3 DEF Landing
    <3>1. /\ Len(Append(u, c)) = Len(u) + 1 /\ Len(u) \in Nat /\ Append(u, c)[Len(u) + 1] = c
          /\ \A j \in 1 .. Len(u) : Append(u, c)[j] = u[j]
      BY Appends
    <3>2. CASE i \in 1 .. Len(u)
      <4>1. u[i] = "-"
        BY <3>1, <3>2
      <4>2. Landed(p.slots, u, i)
        BY <2>1, <2>2, <2>6, <2>7, <3>2, <4>1 DEF Landing
      <4> QED
        BY <2>5, <3>2, <4>2, LandedStays
    <3>3. CASE i = Len(u) + 1
      <4>1. c = "-"
        BY <3>1, <3>3
      <4>2. t = Scan(Scanned(Kept(u)), "-")
        BY <2>1, <2>2, <2>4, <4>1
      <4>3. Landed(t.slots, Append(u, "-"), Len(u) + 1)
        BY <4>2, MinusLands
      <4> QED
        BY <3>3, <4>1, <4>3
    <3> QED
      BY <3>1, <3>2, <3>3
  <2> QED
    BY <2>8, Appends DEF T
<1>3. Seq(Char) \subseteq T
  <2> HIDE DEF T
  <2> QED
    BY <1>1, <1>2, EachSequence
<1> QED
  BY <1>3

\* What is left when leading characters are skipped.
Skipped(s, chars) ==
    \/ /\ \A i \in 1 .. Len(s) : s[i] \in chars
       /\ Without(s, chars) = <<>>
    \/ \E p \in 1 .. Len(s) : /\ s[p] \notin chars
                              /\ \A i \in 1 .. p - 1 : s[i] \in chars
                              /\ Without(s, chars) = SubSeq(s, p, Len(s))

LEMMA SkipLeading ==
    ASSUME NEW S, NEW s \in Seq(S), NEW chars
    PROVE  Skipped(s, chars)
<1> DEFINE others == {i \in DOMAIN s : s[i] \notin chars}
<1>1. DOMAIN s = 1 .. Len(s) /\ Len(s) \in Nat
  OBVIOUS
<1>2. Without(s, chars) = IF others = {} THEN <<>> ELSE SubSeq(s, Min(others), Len(s))
  BY DEF Without
<1>3. CASE others = {}
  <2>1. \A i \in 1 .. Len(s) : s[i] \in chars
    BY <1>1, <1>3
  <2> QED
    BY <1>2, <1>3, <2>1 DEF Skipped
<1>4. CASE others # {}
  <2>1. others \in SUBSET Nat /\ others # {}
    BY <1>1, <1>4
  <2>2. PICK p \in others : \A i \in others : p <= i
    <3> HIDE DEF others
    <3> QED
      BY <2>1, LeastNumber
  <2>3. Min(others) = p
    <3> HIDE DEF others
    <3>1. Min(others) \in others /\ \A i \in others : Min(others) <= i
      BY <2>2 DEF Min
    <3>2. Min(others) \in Nat /\ p \in Nat /\ Min(others) <= p /\ p <= Min(others)
      BY <2>1, <2>2, <3>1
    <3> QED
      BY <3>2
  <2>4. p \in 1 .. Len(s) /\ s[p] \notin chars
    BY <1>1, <2>2
  <2>5. \A i \in 1 .. p - 1 : s[i] \in chars
    <3> SUFFICES ASSUME NEW i \in 1 .. p - 1, s[i] \notin chars PROVE FALSE
      OBVIOUS
    <3>1. i \in others /\ i < p
      BY <1>1, <2>4
    <3> QED
      BY <2>2, <2>4, <3>1
  <2>6. Without(s, chars) = SubSeq(s, p, Len(s))
    BY <1>2, <1>4, <2>3
  <2> QED
    BY <2>4, <2>5, <2>6, Zenon DEF Skipped
<1> QED
  BY <1>3, <1>4

\* A number has no minus after its sign.
LEMMA NoSign ==
    ASSUME NEW S, NEW x \in Seq(S), Unsigned(x) # {}, NEW i \in 1 .. Len(x)
    PROVE  x[i] # "-"
<1> DEFINE digits == IF Base(x) = 16 THEN SubSeq(x, 3, Len(x)) ELSE x
<1>1. \A j \in DOMAIN digits : Weight(digits[j]) \cap 0 .. (Base(x) - 1) # {}
  BY DEF Unsigned
<1>2. Weight("-") = {}
  <2>1. \A d \in 0 .. 15 : Digits[d + 1] # "-" /\ Capitals[d + 1] # "-"
    BY SMTT(30) DEF Digits, Capitals
  <2> QED
    BY <2>1 DEF Weight
<1>3. \A j \in DOMAIN digits : digits[j] # "-"
  <2> HIDE DEF digits
  <2> QED
    BY <1>1, <1>2
<1>4. CASE Base(x) # 16
  <2>1. digits = x /\ DOMAIN x = 1 .. Len(x)
    BY <1>4
  <2> QED
    BY <1>3, <2>1
<1>5. CASE Base(x) = 16
  <2>1. Len(x) > 2 /\ x[1] = "0" /\ x[2] \in {"x", "X"}
    BY <1>5 DEF Base
  <2>2. digits = SubSeq(x, 3, Len(x))
    BY <1>5
  <2>3. CASE i \in {1, 2}
    BY <2>1, <2>3
  <2>4. CASE i \notin {1, 2}
    <3>1. PICK z \in Nat : z = Len(x)
      OBVIOUS
    <3>2. PICK j \in Nat : j = i - 2
      BY <2>4
    <3>3. j \in 1 .. z - 2 /\ 2 \in Nat /\ 2 <= z /\ z <= Len(x)
      BY <2>1, <2>4, <3>1, <3>2
    <3>4. /\ Slice(x, 2, z) \in Seq(S) /\ Len(Slice(x, 2, z)) = z - 2
          /\ \A n \in 1 .. z - 2 : Slice(x, 2, z)[n] = x[2 + n]
      BY <3>3, SliceOf, ZenonT(60)
    <3>5. digits = Slice(x, 2, z)
      BY <2>2, <3>1 DEF Slice
    <3>6. 2 + j = i
      BY <3>2
    <3>7. j \in DOMAIN Slice(x, 2, z) /\ Slice(x, 2, z)[j] = x[i]
      BY <3>3, <3>4, <3>6
    <3> HIDE DEF digits
    <3> QED
      BY <1>3, <3>5, <3>7
  <2> QED
    BY <2>3, <2>4
<1> QED
  BY <1>4, <1>5

LEMMA NegativeRefused ==
    ASSUME NEW tok \in Seq(Char), \A i \in 1 .. Len(tok) : tok[i] \notin {"\n", "\r"},
           ParseUnsigned(tok) # {}, NEW m \in 1 .. Len(tok), tok[m] = "-"
    PROVE  \E j \in 1 .. m - 1 : tok[j] = "\t"
<1> DEFINE plain == Without(tok, {" "})
           body == Without(tok, Spaces)
           signed == body # <<>> /\ body[1] \in {"-", "+"}
<1>1. ~(plain # <<>> /\ plain[1] = "-") /\ Number(tok) # {}
  BY DEF ParseUnsigned
<1>2. Unsigned(IF signed THEN Tail(body) ELSE body) # {}
  BY <1>1 DEF Number
<1> PICK z \in Nat : z = Len(tok)
  BY EmptyLength
<1>3. "-" \notin Spaces /\ " " \in Spaces /\ Spaces = {" ", "\t", "\n", "\r"}
  BY DEF Spaces, Blank
<1>4. PICK p \in 1 .. z : /\ tok[p] \notin Spaces
                          /\ \A i \in 1 .. p - 1 : tok[i] \in Spaces
                          /\ body = SubSeq(tok, p, z)
  <2>1. Skipped(tok, Spaces)
    BY SkipLeading
  <2> QED
    BY <1>3, <2>1, Zenon DEF Skipped
<1>5. PICK q \in 1 .. z : /\ tok[q] # " "
                          /\ \A i \in 1 .. q - 1 : tok[i] = " "
                          /\ plain = SubSeq(tok, q, z)
  <2>1. Skipped(tok, {" "})
    BY SkipLeading
  <2>2. "-" # " "
    OBVIOUS
  <2>3. \A x : x \in {" "} <=> x = " "
    OBVIOUS
  <2> HIDE DEF plain
  <2>4. Without(tok, {" "}) = plain
    BY DEF plain
  <2> QED
    BY <2>1, <2>2, <2>3, <2>4, Zenon DEF Skipped
<1> HIDE DEF plain, body
<1>6. ASSUME NEW n \in 1 .. z
      PROVE  /\ SubSeq(tok, n, z) \in Seq(Char) /\ SubSeq(tok, n, z) # <<>>
             /\ Len(SubSeq(tok, n, z)) = z - n + 1
             /\ \A i \in 1 .. z - n + 1 : SubSeq(tok, n, z)[i] = tok[n + i - 1]
  <2>1. \A i \in n .. z : tok[i] \in Char
    OBVIOUS
  <2>2. SubSeq(tok, n, z) \in Seq(Char) /\ Len(SubSeq(tok, n, z)) = z - n + 1
    BY <2>1
  <2>3. \A i \in 1 .. z - n + 1 : SubSeq(tok, n, z)[i] = tok[n + i - 1]
    BY <2>1
  <2>4. SubSeq(tok, n, z) # <<>>
    <3>1. PICK x \in Seq(Char) : x = SubSeq(tok, n, z)
      BY <2>2
    <3>2. Len(x) # 0
      BY <2>2, <3>1
    <3>3. x # <<>>
      BY <3>2, EmptyLength
    <3> QED
      BY <3>1, <3>3
  <2> QED
    BY <2>2, <2>3, <2>4
<1>7. m = p
  <2>1. p <= m
    <3> SUFFICES ASSUME m < p PROVE FALSE
      OBVIOUS
    <3>1. m \in 1 .. p - 1
      OBVIOUS
    <3> QED
      BY <1>3, <1>4, <3>1
  <2>2. ASSUME p < m PROVE FALSE
    <3>1. PICK i \in Nat : i = m - p
      BY <2>2
    <3>2. PICK x \in Seq(Char) : x = body
      BY <1>4, <1>6
    <3>3. x # <<>> /\ Len(x) = z - p + 1 /\ \A n \in 1 .. z - p + 1 : x[n] = tok[p + n - 1]
      BY <1>4, <1>6, <3>2
    <3>4. i \in 1 .. Len(x) - 1 /\ i + 1 \in 1 .. Len(x) /\ p + (i + 1) - 1 = m /\ i + 1 \in 1 .. z - p + 1
      BY <2>2, <3>1, <3>3
    <3>5. x[i + 1] = "-"
      BY <3>3, <3>4
    <3>6. Tail(x) \in Seq(Char) /\ Len(Tail(x)) = Len(x) - 1 /\ \A n \in 1 .. Len(x) - 1 : Tail(x)[n] = x[n + 1]
      BY <3>3
    <3>7. i \in 1 .. Len(Tail(x)) /\ Tail(x)[i] = "-"
      BY <3>4, <3>5, <3>6
    <3>8. Unsigned(x) = {}
      BY <3>4, <3>5, NoSign
    <3>9. Unsigned(Tail(x)) = {}
      BY <3>6, <3>7, NoSign
    <3> QED
      BY <1>2, <3>2, <3>8, <3>9
  <2> QED
    BY <2>1, <2>2
<1>8. q < m
  <2>1. q <= m
    <3> SUFFICES ASSUME m < q PROVE FALSE
      OBVIOUS
    <3>1. m \in 1 .. q - 1
      OBVIOUS
    <3>2. tok[m] = " "
      BY <1>5, <3>1
    <3> QED
      BY <3>2
  <2>2. plain # <<>> /\ plain[1] = tok[q]
    <3>1. 1 \in 1 .. z - q + 1 /\ q + 1 - 1 = q
      OBVIOUS
    <3>2. SubSeq(tok, q, z)[1] = tok[q + 1 - 1]
      BY <1>6, <3>1
    <3> QED
      BY <1>5, <1>6, <3>1, <3>2
  <2>3. tok[q] # "-"
    BY <1>1, <2>2
  <2>4. q # m
    BY <2>3
  <2> QED
    BY <2>1, <2>4
<1>9. tok[q] = "\t"
  <2>1. q \in 1 .. p - 1
    BY <1>7, <1>8
  <2>2. tok[q] \in Spaces
    BY <1>4, <2>1
  <2> QED
    BY <1>3, <1>5, <2>2
<1> QED
  BY <1>8, <1>9

\* What a line leaves that is well formed and names a command.
LEMMA WellFormed ==
    ASSUME NEW s \in Seq(Char), Tokenize(s).ok, Tokenize(s).name # None
    PROVE  /\ Scanned(s).slots # <<>> /\ Scanned(s).mode \notin Over
           /\ Tokenize(s).name = Scanned(s).slots[1]
           /\ Tokenize(s).args = Tail(Scanned(s).slots)
<1>1. Scanned(s).slots # <<>> /\ Scanned(s).mode \notin {"many", "garbage", "quoted", "escape"}
  BY DEF Tokenize
<1>2. Sighted(s)
  BY QuoteSeen
<1>3. Scanned(s).mode # "comment"
  BY <1>1, <1>2 DEF Sighted
<1> QED
  BY <1>1, <1>3 DEF Tokenize, Over

LEMMA TailOf ==
    ASSUME NEW S, NEW q \in Seq(S), q # <<>>
    PROVE  /\ Tail(q) \in Seq(S) /\ Len(Tail(q)) = Len(q) - 1 /\ Len(q) \in Nat /\ Len(q) >= 1
           /\ \A i \in 1 .. Len(q) - 1 : Tail(q)[i] = q[i + 1]
OBVIOUS

LEMMA Singles == \A x : Len(<<x>>) = 1 /\ <<x>>[1] = x /\ DOMAIN <<x>> = 1 .. 1
OBVIOUS

-----------------------------------------------------------------------------
(* Powers of two.                                                          *)

Doubles(n, f) == f \in [0 .. n -> Nat] /\ f[0] = 1 /\ \A i \in 1 .. n : f[i] = 2 * f[i - 1]

LEMMA DoublesExist == ASSUME NEW n \in Nat PROVE \E f : Doubles(n, f)
<1> DEFINE G == [p \in (1 .. n) \X Nat |-> 2 * p[2]]
<1>1. G \in [(1 .. n) \X Nat -> Nat]
  OBVIOUS
<1>2. PICK F \in [(1 .. n) \X Nat -> Nat] : F = G
  BY <1>1
<1>3. PICK f \in [0 .. n -> Nat] : f[0] = 1 /\ \A i \in 1 .. n : f[i] = F[<<i, f[i - 1]>>]
  <2>1. Recursive(n, Nat, 1, F)
    <3>1. 1 \in Nat
      OBVIOUS
    <3> QED
      BY <3>1, Recursion, Zenon
  <2> QED
    BY <2>1, Zenon DEF Recursive
<1>4. ASSUME NEW i \in 1 .. n PROVE f[i] = 2 * f[i - 1]
  <2>1. PICK x \in Nat : x = f[i - 1]
    OBVIOUS
  <2>2. F[<<i, x>>] = 2 * x
    BY <1>2
  <2> QED
    BY <1>3, <2>1, <2>2
<1> QED
  BY <1>3, <1>4 DEF Doubles

LEMMA PowerSteps ==
    /\ Power[0] = 1
    /\ \A n \in Nat \ {0} : Power[n] = 2 * Power[n - 1]
    /\ \A n \in Nat : Power[n] \in Nat \ {0}
<1> DEFINE Recurs(f) == f = [n \in Nat |-> IF n = 0 THEN 1 ELSE 2 * f[n - 1]]
           Upto(n) == CHOOSE f : Doubles(n, f)
           all == [n \in Nat |-> Upto(n)[n]]
<1>1. \A n \in Nat : Doubles(n, Upto(n))
  BY DoublesExist
<1>2. ASSUME NEW n \in Nat PROVE all[n] = IF n = 0 THEN 1 ELSE 2 * all[n - 1]
  <2>1. all[n] = Upto(n)[n] /\ Doubles(n, Upto(n))
    BY <1>1
  <2>2. CASE n = 0
    BY <2>1, <2>2 DEF Doubles
  <2>3. CASE n # 0
    <3>1. PICK m \in Nat : m = n - 1
      BY <2>3
    <3>2. all[m] = Upto(m)[m] /\ Doubles(m, Upto(m))
      BY <1>1
    <3> HIDE DEF Upto, all
    <3>3. PICK f : f = Upto(n)
      OBVIOUS
    <3>4. PICK g : g = Upto(m)
      OBVIOUS
    <3>5. /\ f[0] = 1 /\ g[0] = 1 /\ f[n] = 2 * f[n - 1]
          /\ \A i \in 1 .. m : f[i] = 2 * f[i - 1] /\ g[i] = 2 * g[i - 1]
      <4>1. Doubles(n, f) /\ Doubles(m, g)
        BY <2>1, <3>2, <3>3, <3>4
      <4>2. f[0] = 1 /\ g[0] = 1 /\ (\A i \in 1 .. n : f[i] = 2 * f[i - 1]) /\ \A i \in 1 .. m : g[i] = 2 * g[i - 1]
        BY <4>1 DEF Doubles
      <4>3. n \in 1 .. n /\ \A i \in 1 .. m : i \in 1 .. n
        BY <2>3, <3>1
      <4> QED
        BY <4>2, <4>3, Zenon
    <3>6. InStep(m, f, g)
      BY <3>5 DEF InStep
    <3>7. f[m] = g[m]
      <4>1. Alike(m, f, g)
        BY <3>6, Agree
      <4> QED
        BY <4>1 DEF Alike
    <3> QED
      BY <2>1, <2>3, <3>1, <3>2, <3>3, <3>4, <3>5, <3>7
  <2> QED
    BY <2>2, <2>3
<1>3. Recurs(all)
  <2>1. DOMAIN all = Nat /\ all = [n \in Nat |-> all[n]]
    OBVIOUS
  <2> HIDE DEF all
  <2> QED
    BY <1>2, <2>1
<1>4. Recurs(Power)
  <2> HIDE DEF all
  <2>1. Recurs(CHOOSE f : Recurs(f))
    BY <1>3
  <2> QED
    BY <2>1 DEF Power
<1>5. Power[0] = 1 /\ \A n \in Nat \ {0} : Power[n] = 2 * Power[n - 1]
  BY <1>4
<1>6. ASSUME NEW n \in Nat PROVE Power[n] \in Nat \ {0}
  <2> DEFINE T == {i \in 0 .. n : Power[i] \in Nat \ {0}}
  <2>1. 0 \in T
    BY <1>5
  <2>2. ASSUME NEW i \in 1 .. n, i - 1 \in T PROVE i \in T
    BY <1>5, <2>2
  <2>3. 0 .. n \subseteq T
    <3> HIDE DEF T
    <3> QED
      BY <2>1, <2>2, UpTo
  <2> QED
    BY <2>3
<1> QED
  BY <1>5, <1>6

LEMMA PowerGrows ==
    ASSUME NEW m \in Nat, NEW n \in Nat, m <= n
    PROVE  Power[m] <= Power[n]
<1> DEFINE T == {d \in 0 .. n - m : Power[m] <= Power[m + d]}
<1>1. 0 \in T
  <2>1. Power[m] \in Nat /\ m + 0 = m
    BY PowerSteps
  <2> QED
    BY <2>1
<1>2. ASSUME NEW d \in 1 .. n - m, d - 1 \in T PROVE d \in T
  <2>1. PICK k \in Nat \ {0} : k = m + d
    OBVIOUS
  <2>2. Power[k] = 2 * Power[k - 1] /\ Power[k - 1] \in Nat /\ Power[m] \in Nat
    BY <2>1, PowerSteps
  <2>3. m + (d - 1) = k - 1
    BY <2>1
  <2>4. Power[m] <= Power[k - 1]
    BY <1>2, <2>3
  <2>5. Power[m] <= Power[k]
    BY <2>2, <2>4
  <2> QED
    BY <2>1, <2>5
<1>3. n - m \in T
  <2> HIDE DEF T
  <2>1. 0 .. n - m \subseteq T
    BY <1>1, <1>2, UpTo
  <2> QED
    BY <2>1
<1>4. m + (n - m) = n
  OBVIOUS
<1> QED
  BY <1>3, <1>4

-----------------------------------------------------------------------------
(* What a parameter gets for a value is what it is to get.                 *)

\* A number as the host writes it.
Numeral(n) == IF n < 0 THEN <<"-">> \o Decimal[-n] ELSE Decimal[n]

Signs == {"-", "+"}
Scaled(b, U) == {[negative |-> b, size |-> n] : n \in U}

LEMMA NumberOf ==
    ASSUME NEW x, Without(x, Spaces) = x, x # <<>>
    PROVE  /\ x[1] \notin Signs => Number(x) = Scaled(FALSE, Unsigned(x))
           /\ x[1] = "-" => Number(x) = Scaled(TRUE, Unsigned(Tail(x)))
<1> DEFINE signed == x # <<>> /\ x[1] \in {"-", "+"}
<1>1. Number(x) = Scaled(signed /\ x[1] = "-", Unsigned(IF signed THEN Tail(x) ELSE x))
  BY DEF Number, Scaled
<1>2. CASE x[1] \notin Signs
  <2>1. signed = FALSE /\ (signed /\ x[1] = "-") = FALSE
    BY <1>2 DEF Signs
  <2>2. (IF signed THEN Tail(x) ELSE x) = x
    BY <2>1
  <2> QED
    BY <1>1, <1>2, <2>1, <2>2, Zenon DEF Signs
<1>3. CASE x[1] = "-"
  <2>1. signed = TRUE /\ (signed /\ x[1] = "-") = TRUE
    BY <1>3
  <2>2. (IF signed THEN Tail(x) ELSE x) = Tail(x)
    BY <2>1
  <2> QED
    BY <1>1, <1>3, <2>1, <2>2, Zenon DEF Signs
<1>4. x[1] = "-" => x[1] \in Signs
  BY DEF Signs
<1> QED
  BY <1>2, <1>3, <1>4

LEMMA NaturalRead ==
    ASSUME NEW n \in Nat
    PROVE  /\ Number(Numeral(n)) = Scaled(FALSE, {n})
           /\ Without(Numeral(n), {" "}) = Numeral(n) /\ Numeral(n) # <<>> /\ Numeral(n)[1] # "-"
<1>1. PICK x : x = Decimal[n]
  OBVIOUS
<1>2. x \in Seq(Digit) /\ Len(x) >= 1
  BY <1>1, DecimalShape
<1>3. x # <<>> /\ x[1] \in Digit
  BY <1>2
<1>4. x[1] \notin Spaces /\ x[1] \notin Signs /\ x[1] \notin {" "} /\ x[1] # "-"
  BY <1>3, Digital DEF Spaces, Blank, Signs
<1>5. Without(x, Spaces) = x /\ Without(x, {" "}) = x
  BY <1>2, <1>3, <1>4, NothingSkipped
<1>6. Unsigned(x) = {n}
  BY <1>1, DecimalRead
<1>7. Number(x) = Scaled(FALSE, Unsigned(x))
  BY <1>3, <1>4, <1>5, NumberOf, Zenon
<1>8. Numeral(n) = x
  <2>1. ~(n < 0)
    OBVIOUS
  <2> QED
    BY <1>1, <2>1 DEF Numeral
<1> QED
  BY <1>3, <1>4, <1>5, <1>6, <1>7, <1>8, Zenon

LEMMA NegativeRead ==
    ASSUME NEW n \in Int, n < 0
    PROVE  /\ Number(Numeral(n)) = Scaled(TRUE, {-n})
           /\ Without(Numeral(n), {" "}) = Numeral(n) /\ Numeral(n) # <<>> /\ Numeral(n)[1] = "-"
<1>1. PICK m \in Nat : m = -n
  OBVIOUS
<1>2. PICK d \in Seq(Char) : d = Decimal[m]
  <2>1. Decimal[m] \in Seq(Digit) /\ Digit \subseteq Char
    BY DecimalShape, Digital, Characters
  <2> QED
    BY <2>1, MoreSeq
<1>3. PICK x \in Seq(Char) : x = <<"-">> \o d
  BY Tuples, Characters, Concatenated
<1>4. x # <<>> /\ x[1] = "-" /\ Tail(x) = d
  BY <1>3
<1>5. Without(x, Spaces) = x /\ Without(x, {" "}) = x
  <2>1. x[1] \notin Spaces /\ x[1] \notin {" "}
    BY <1>4 DEF Spaces, Blank
  <2> QED
    BY <1>4, <2>1, NothingSkipped
<1>6. Unsigned(d) = {m}
  BY <1>2, DecimalRead
<1>7. Number(x) = Scaled(TRUE, Unsigned(Tail(x)))
  BY <1>4, <1>5, NumberOf, Zenon
<1>8. Numeral(n) = x
  BY <1>1, <1>2, <1>3, Zenon DEF Numeral
<1> QED
  BY <1>1, <1>4, <1>5, <1>6, <1>7, <1>8, Zenon

LEMMA SignedRead ==
    ASSUME NEW n \in Int
    PROVE  ParseSigned(Numeral(n)) = {v \in {n} : v \in -(Power[Wide-1]) .. (Power[Wide-1] - 1)}
<1>1. {IF m.negative THEN -m.size ELSE m.size : m \in Number(Numeral(n))} = {n}
  <2>1. CASE n < 0
    <3>1. Number(Numeral(n)) = {[negative |-> TRUE, size |-> -n]}
      BY <2>1, NegativeRead DEF Scaled
    <3>2. -(-n) = n
      OBVIOUS
    <3> QED
      BY <3>1, <3>2
  <2>2. CASE n \in Nat
    <3>1. Number(Numeral(n)) = {[negative |-> FALSE, size |-> n]}
      BY <2>2, NaturalRead DEF Scaled
    <3> QED
      BY <3>1
  <2> QED
    BY <2>1, <2>2
<1> QED
  BY <1>1, Zenon DEF ParseSigned

LEMMA UnsignedRead ==
    ASSUME NEW n \in Int
    PROVE  ParseUnsigned(Numeral(n)) = {v \in {n} : v \in 0 .. (Power[Wide] - 1)}
<1>1. Power[Wide] \in Nat
  BY PowerSteps, WireAssumption
<1>2. CASE n < 0
  <2>1. Without(Numeral(n), {" "}) # <<>> /\ Without(Numeral(n), {" "})[1] = "-"
    BY <1>2, NegativeRead
  <2>2. ParseUnsigned(Numeral(n)) = {}
    BY <2>1, Zenon DEF ParseUnsigned
  <2> QED
    BY <1>2, <2>2
<1>3. CASE n \in Nat
  <2>1. Number(Numeral(n)) = {[negative |-> FALSE, size |-> n]}
    BY <1>3, NaturalRead DEF Scaled
  <2>2. ~(Without(Numeral(n), {" "}) # <<>> /\ Without(Numeral(n), {" "})[1] = "-")
    BY <1>3, NaturalRead
  <2>3. ParseUnsigned(Numeral(n)) =
           {IF m.negative THEN (Power[Wide] - m.size) % Power[Wide] ELSE m.size :
              m \in {x \in Number(Numeral(n)) : x.size < Power[Wide]}}
    BY <2>2, Zenon DEF ParseUnsigned
  <2>4. CASE n < Power[Wide]
    <3>1. {x \in Number(Numeral(n)) : x.size < Power[Wide]} = {[negative |-> FALSE, size |-> n]}
      BY <2>1, <2>4
    <3>2. {IF m.negative THEN (Power[Wide] - m.size) % Power[Wide] ELSE m.size :
              m \in {[negative |-> FALSE, size |-> n]}} = {n}
      OBVIOUS
    <3>3. {v \in {n} : v \in 0 .. (Power[Wide] - 1)} = {n}
      BY <1>1, <1>3, <2>4
    <3> QED
      BY <2>3, <3>1, <3>2, <3>3, Zenon
  <2>5. CASE ~(n < Power[Wide])
    <3>1. {x \in Number(Numeral(n)) : x.size < Power[Wide]} = {}
      BY <2>1, <2>5
    <3> QED
      BY <1>1, <1>3, <2>3, <2>5, <3>1
  <2> QED
    BY <2>4, <2>5
<1> QED
  BY <1>2, <1>3

\* The ranges of the narrow types are within those of the wide ones.
LEMMA Ranges ==
    /\ Power[Narrow] \in Nat /\ Power[Narrow] <= Power[Wide] /\ Power[Wide] \in Nat
    /\ Power[Narrow-1] \in Nat /\ Power[Narrow-1] <= Power[Wide-1] /\ Power[Wide-1] \in Nat
<1>1. Narrow \in Nat /\ Wide \in Nat /\ Narrow - 1 \in Nat /\ Wide - 1 \in Nat /\ Narrow < Wide
  BY WireAssumption
<1>2. PICK a \in Nat : a = Narrow - 1
  BY <1>1
<1>3. PICK b \in Nat : b = Wide - 1
  BY <1>1
<1>4. a <= b /\ Narrow <= Wide
  BY <1>1, <1>2, <1>3
<1>5. Power[a] \in Nat /\ Power[b] \in Nat /\ Power[a] <= Power[b]
  BY <1>4, PowerSteps, PowerGrows
<1>6. Power[Narrow] \in Nat /\ Power[Wide] \in Nat /\ Power[Narrow] <= Power[Wide]
  BY <1>1, <1>4, PowerSteps, PowerGrows
<1> QED
  BY <1>2, <1>3, <1>5, <1>6

Integral == {"uint8_t", "uint64_t", "int8_t", "int64_t"}

LEMMA IntegerParsed ==
    ASSUME NEW n \in Int, NEW type \in Integral
    PROVE  Parse(type, Numeral(n)) = IF n \in Values(type) THEN {Integer(n)} ELSE {}
<1> PICK s \in SUBSET Int : s = {v \in {n} : v \in 0 .. (Power[Wide] - 1)}
  OBVIOUS
<1> PICK i \in SUBSET Int : i = {v \in {n} : v \in -(Power[Wide-1]) .. (Power[Wide-1] - 1)}
  OBVIOUS
<1>1. ParseUnsigned(Numeral(n)) = s /\ ParseSigned(Numeral(n)) = i
  BY SignedRead, UnsignedRead
<1>2. CASE type = "uint8_t"
  <2>1. Parse(type, Numeral(n)) = {Integer(v) : v \in {u \in s : u < Power[Narrow]}}
    BY <1>1, <1>2 DEF Parse, InRange
  <2>2. {u \in s : u < Power[Narrow]} = IF n \in 0 .. (Power[Narrow] - 1) THEN {n} ELSE {}
    BY Ranges
  <2> QED
    BY <1>2, <2>1, <2>2 DEF Values
<1>3. CASE type = "uint64_t"
  <2>1. Parse(type, Numeral(n)) = {Integer(v) : v \in s}
    BY <1>1, <1>3 DEF Parse, InRange
  <2>2. s = IF n \in 0 .. (Power[Wide] - 1) THEN {n} ELSE {}
    BY Ranges
  <2> QED
    BY <1>3, <2>1, <2>2 DEF Values
<1>4. CASE type = "int8_t"
  <2>1. Parse(type, Numeral(n)) = {Integer(v) : v \in {u \in i : u \in -(Power[Narrow-1]) .. (Power[Narrow-1] - 1)}}
    BY <1>1, <1>4 DEF Parse, InRange
  <2>2. {u \in i : u \in -(Power[Narrow-1]) .. (Power[Narrow-1] - 1)} =
           IF n \in -(Power[Narrow-1]) .. (Power[Narrow-1] - 1) THEN {n} ELSE {}
    BY Ranges
  <2> QED
    BY <1>4, <2>1, <2>2 DEF Values
<1>5. CASE type = "int64_t"
  <2>1. Parse(type, Numeral(n)) = {Integer(v) : v \in i}
    BY <1>1, <1>5 DEF Parse, InRange
  <2>2. i = IF n \in -(Power[Wide-1]) .. (Power[Wide-1] - 1) THEN {n} ELSE {}
    BY Ranges
  <2> QED
    BY <1>5, <2>1, <2>2 DEF Values
<1> QED
  BY <1>2, <1>3, <1>4, <1>5 DEF Integral

LEMMA TruthParsed ==
    ASSUME NEW v \in Value, v[1] = "bool"
    PROVE  Parse("bool", EncodeToken(v)) = {v}
<1>1. v = Truth(v[2]) /\ v[2] \in BOOLEAN /\ EncodeToken(v) = IF v[2] THEN <<"true">> ELSE <<"false">>
  BY Kinds, TokenOf
<1>2. <<"true">> # <<"false">>
  <2>1. <<"true">>[1] = "true" /\ <<"false">>[1] = "false" /\ "true" # "false"
    BY Singles
  <2> QED
    BY <2>1
<1>3. \A tok : tok \in {<<"true">>, <<"false">>} => Parse("bool", tok) = {Truth(tok = <<"true">>)}
  BY DEF Parse
<1>4. CASE v[2] = TRUE
  <2>1. EncodeToken(v) = <<"true">>
    BY <1>1, <1>4, Zenon
  <2>2. (<<"true">> = <<"true">>) = TRUE
    OBVIOUS
  <2>3. Parse("bool", <<"true">>) = {Truth(TRUE)}
    BY <1>3, <2>2
  <2> QED
    BY <1>1, <1>4, <2>1, <2>3, Zenon
<1>5. CASE v[2] = FALSE
  <2>1. EncodeToken(v) = <<"false">>
    BY <1>1, <1>5, Zenon
  <2>2. (<<"false">> = <<"true">>) = FALSE
    BY <1>2
  <2>3. Parse("bool", <<"false">>) = {Truth(FALSE)}
    BY <1>3, <2>2
  <2> QED
    BY <1>1, <1>5, <2>1, <2>3, Zenon
<1> QED
  BY <1>1, <1>4, <1>5

LEMMA StringParsed ==
    ASSUME NEW v \in Value, v[1] = "str"
    PROVE  Parse("str", v[2]) = Meant("str", v)
<1>1. PICK s \in Seq(Clean) : s = v[2]
  BY Kinds
<1>2. Parse("str", s) = {Text(IF Len(s) >= StrArg THEN SubSeq(s, 1, StrArg - 1) ELSE s)}
  BY DEF Parse
<1>3. Meant("str", v) = {Text(SubSeq(s, 1, IF Len(s) < StrArg THEN Len(s) ELSE StrArg - 1))}
  BY <1>1 DEF Meant
<1>4. SubSeq(s, 1, Len(s)) = s
  BY Beginnings
<1>5. (Len(s) >= StrArg) <=> ~(Len(s) < StrArg)
  BY WireAssumption
<1>6. (IF Len(s) >= StrArg THEN SubSeq(s, 1, StrArg - 1) ELSE s)
       = SubSeq(s, 1, IF Len(s) < StrArg THEN Len(s) ELSE StrArg - 1)
  BY <1>4, <1>5
<1> QED
  BY <1>1, <1>2, <1>3, <1>6, Zenon

LEMMA ValueParsed ==
    ASSUME NEW type \in Types, NEW v \in Value, Suits(type, v)
    PROVE  Parse(type, Word(v)) = Meant(type, v)
<1>1. CASE type = "bool"
  <2>1. v[1] = "bool"
    BY <1>1 DEF Suits
  <2>2. Word(v) = EncodeToken(v)
    BY <2>1 DEF Word
  <2>3. Meant(type, v) = {v}
    BY <1>1 DEF Meant
  <2> QED
    BY <1>1, <2>1, <2>2, <2>3, TruthParsed
<1>2. CASE type = "str"
  <2>1. v[1] = "str"
    BY <1>2 DEF Suits
  <2>2. Word(v) = v[2]
    BY <2>1 DEF Word
  <2> QED
    BY <1>2, <2>1, <2>2, StringParsed
<1>3. CASE type \in Integral
  <2>1. v[1] = "int"
    BY <1>3 DEF Suits, Integral
  <2>2. PICK n \in Int : n = v[2] /\ v = Integer(n)
    BY <2>1, Kinds
  <2>3. Word(v) = Numeral(n)
    <3>1. EncodeToken(v) = IF v[2] < 0 THEN <<"-">> \o Decimal[-v[2]] ELSE Decimal[v[2]]
      BY <2>1, TokenOf
    <3>2. Word(v) = EncodeToken(v)
      BY <2>1 DEF Word
    <3> QED
      BY <2>2, <3>1, <3>2, Zenon DEF Numeral
  <2>4. Meant(type, v) = IF n \in Values(type) THEN {Integer(n)} ELSE {}
    BY <1>3, <2>2 DEF Meant, Integral
  <2> QED
    BY <1>3, <2>3, <2>4, IntegerParsed
<1> QED
  BY <1>1, <1>2, <1>3 DEF Types, Integral

-----------------------------------------------------------------------------
(* A call that arrives whole.                                              *)

Tokens(args, toks) == /\ toks \in Seq(Seq(Char)) /\ Len(toks) = Len(args)
                      /\ \A i \in 1 .. Len(args) : toks[i] = Word(args[i])

LEMMA CallTokens ==
    ASSUME NEW r, IsCall(r), Len(r.args) <= MaxArgs
    PROVE  /\ r.args \in Seq(Value) /\ r.kind = "call"
           /\ Tokenize(Kept(r.text)).ok
           /\ Tokenize(Kept(r.text)).name = r.name
           /\ Tokens(r.args, Tokenize(Kept(r.text)).args)
<1>1. /\ Bare(r.name) /\ r.args \in Seq(Value) /\ r.kind = "call" /\ Written(r.name, r.args) \in Seq(Clean)
      /\ r.text = Append(Written(r.name, r.args), "\n")
  BY CallText
<1>2. PICK w \in Seq(Char) : w = Kept(r.text)
  <2>1. Kept(r.text) = Written(r.name, r.args)
    BY <1>1, KeptClean
  <2>2. Clean \subseteq Char
    BY Characters
  <2>3. Written(r.name, r.args) \in Seq(Char)
    BY <1>1, <2>2, MoreSeq
  <2> QED
    BY <2>1, <2>3
<1>3. w = Written(r.name, r.args)
  BY <1>1, <1>2, KeptClean
<1>4. PICK u \in Scanning : u = Scanned(w)
  BY ScannedSteps
<1>5. PICK q \in Seq(Seq(Char)) : q = u.slots
  BY DEF Scanning
<1>6. PICK n \in Nat : n = Len(r.args)
  BY <1>1
<1>7. ~(Len(r.args) > MaxArgs)
  BY <1>6, WireAssumption
<1>8. Heard(r.name, r.args, u)
  BY <1>1, <1>3, <1>4, CallScanned
<1>9. /\ u.mode \in {"bare", "closed"} /\ Len(q) = n + 1 /\ q[1] = r.name
      /\ \A i \in 1 .. n : q[i + 1] = Word(r.args[i])
  BY <1>5, <1>6, <1>7, <1>8 DEF Heard
<1>10. q # <<>>
  <2>1. Len(q) # 0
    BY <1>9
  <2> QED
    BY <2>1, EmptyLength
<1>11. u.mode \notin {"many", "garbage", "quoted", "escape"}
  BY <1>9
<1>12. Tokenize(w).ok /\ Tokenize(w).name = q[1] /\ Tokenize(w).args = Tail(q)
  BY <1>4, <1>5, <1>10, <1>11 DEF Tokenize
<1>13. Tokens(r.args, Tail(q))
  <2>1. Tail(q) \in Seq(Seq(Char)) /\ Len(Tail(q)) = Len(q) - 1 /\ \A i \in 1 .. Len(q) - 1 : Tail(q)[i] = q[i + 1]
    BY <1>10, TailOf
  <2>2. Len(Tail(q)) = n /\ \A i \in 1 .. n : Tail(q)[i] = q[i + 1]
    BY <1>9, <2>1
  <2>3. \A i \in 1 .. Len(r.args) : Tail(q)[i] = Word(r.args[i])
    BY <1>6, <1>9, <2>2
  <2> QED
    BY <1>6, <2>1, <2>2, <2>3 DEF Tokens
<1> QED
  BY <1>1, <1>2, <1>9, <1>12, <1>13

\* What the answer of a command is to be.
Unmeant(types, args) == {i \in DOMAIN types : Meant(types[i], args[i]) = {}}

Right(name, args, kind, ret) ==
    LET types == Commands[name].types
    IN  IF types = Variadic
        THEN ret = [i \in DOMAIN args |-> IF args[i][1] = "str" THEN args[i] ELSE Text(EncodeToken(args[i]))]
        ELSE IF Len(types) # Len(args) THEN kind = "arg_count"
        ELSE (\A i \in DOMAIN types : Suits(types[i], args[i])) =>
             IF Unmeant(types, args) # {}
             THEN kind = "bad_args" /\ ret = <<Integer(Min(Unmeant(types, args)) - 1)>>
             ELSE kind = "ok" /\ \A i \in DOMAIN types : ret[i] \in Meant(types[i], args[i])

LEMMA DispatchRight ==
    ASSUME NEW name \in DOMAIN Commands, NEW args \in Seq(Value), NEW toks, Tokens(args, toks), NEW v, NEW d,
           d = Dispatch(name, toks, v)
    PROVE  Right(name, args, d.kind, d.ret)
<1> PICK types : types = Commands[name].types
  OBVIOUS
<1> PICK does : does = Commands[name].does
  OBVIOUS
<1>1. /\ does \in {"fn", "get", "set"}
      /\ types \in Seq(Types) \/ (types = Variadic /\ does = "fn")
      /\ does = "get" => types = <<>>
  BY CommandsAssumption
<1>2. PICK n \in Nat : n = Len(args)
  OBVIOUS
<1>3. /\ DOMAIN args = 1 .. n /\ DOMAIN toks = 1 .. n /\ Len(toks) = n
      /\ \A i \in 1 .. n : toks[i] = Word(args[i]) /\ args[i] \in Value
  BY <1>2 DEF Tokens
<1>4. CASE types = Variadic
  <2>1. d = Result("ok", name, [i \in DOMAIN toks |-> Text(toks[i])])
    BY <1>4 DEF Dispatch
  <2>2. d.ret = [i \in 1 .. n |-> Text(toks[i])]
    BY <1>3, <2>1 DEF Result
  <2>3. ASSUME NEW i \in 1 .. n
        PROVE  Text(toks[i]) = IF args[i][1] = "str" THEN args[i] ELSE Text(EncodeToken(args[i]))
    <3>1. PICK x \in Value : x = args[i]
      BY <1>3
    <3>2. toks[i] = Word(x)
      BY <1>3, <3>1
    <3>3. CASE x[1] = "str"
      <4>1. x = Text(x[2]) /\ Word(x) = x[2]
        BY <3>3, Kinds DEF Word
      <4> QED
        BY <3>1, <3>2, <3>3, <4>1, Zenon
    <3>4. CASE x[1] # "str"
      <4>1. Word(x) = EncodeToken(x)
        BY <3>4 DEF Word
      <4> QED
        BY <3>1, <3>2, <3>4, <4>1, Zenon
    <3> QED
      BY <3>3, <3>4
  <2>4. d.ret = [i \in DOMAIN args |-> IF args[i][1] = "str" THEN args[i] ELSE Text(EncodeToken(args[i]))]
    BY <1>3, <2>2, <2>3, Zenon
  <2> QED
    BY <1>4, <2>4, Zenon DEF Right
<1>5. CASE types # Variadic /\ Len(types) # Len(args)
  <2>1. d.kind = "arg_count"
    BY <1>2, <1>3, <1>5 DEF Dispatch, Result
  <2> QED
    BY <1>5, <2>1 DEF Right
<1>6. CASE types # Variadic /\ Len(types) = Len(args) /\ ~ \A i \in DOMAIN types : Suits(types[i], args[i])
  BY <1>6, Zenon DEF Right
<1>7. CASE types # Variadic /\ Len(types) = Len(args) /\ \A i \in DOMAIN types : Suits(types[i], args[i])
  <2>1. types \in Seq(Types) /\ Len(types) = n
    BY <1>1, <1>2, <1>7
  <2>2. DOMAIN types = 1 .. n /\ \A i \in 1 .. n : types[i] \in Types
    BY <2>1
  <2>3. \A i \in DOMAIN types : Parse(types[i], toks[i]) = Meant(types[i], args[i])
    BY <1>3, <1>7, <2>2, ValueParsed
  <2>4. Refused(types, toks) = Unmeant(types, args)
    BY <2>3 DEF Refused, Unmeant
  <2>5. CASE Unmeant(types, args) # {}
    <3>1. d = Result("bad_args", name, <<Integer(Min(Refused(types, toks)) - 1)>>)
      BY <1>2, <1>3, <1>7, <2>4, <2>5 DEF Dispatch
    <3>2. d.kind = "bad_args" /\ d.ret = <<Integer(Min(Unmeant(types, args)) - 1)>>
      BY <2>4, <3>1 DEF Result
    <3> QED
      BY <1>7, <2>5, <3>2, Zenon DEF Right
  <2>6. CASE Unmeant(types, args) = {}
    <3>1. d = IF does = "get" THEN Result("ok", name, <<v>>) ELSE Result("ok", name, Parsed(types, toks))
      BY <1>1, <1>2, <1>3, <1>7, <2>4, <2>6 DEF Dispatch
    <3>2. d.kind = "ok"
      BY <3>1 DEF Result
    <3>3. \A i \in DOMAIN types : d.ret[i] \in Meant(types[i], args[i])
      <4>1. CASE does = "get"
        <5>1. DOMAIN types = {}
          BY <1>1, <4>1
        <5> QED
          BY <5>1
      <4>2. CASE does # "get"
        <5>1. d.ret = [i \in DOMAIN types |-> CHOOSE x \in Parse(types[i], toks[i]) : TRUE]
          BY <3>1, <4>2 DEF Result, Parsed
        <5>2. ASSUME NEW i \in DOMAIN types PROVE d.ret[i] \in Meant(types[i], args[i])
          <6>1. PICK M : M = Meant(types[i], args[i])
            OBVIOUS
          <6>2. M # {} /\ Parse(types[i], toks[i]) = M
            BY <2>3, <2>6, <6>1 DEF Unmeant
          <6>3. d.ret[i] = CHOOSE x \in M : TRUE
            BY <5>1, <6>2
          <6> QED
            BY <6>1, <6>2, <6>3, Zenon
        <5> QED
          BY <5>2
      <4> QED
        BY <4>1, <4>2
    <3> QED
      BY <1>7, <2>6, <3>2, <3>3, Zenon DEF Right
  <2> QED
    BY <2>5, <2>6
<1> QED
  BY <1>4, <1>5, <1>6, <1>7

-----------------------------------------------------------------------------
(* The theorems.                                                           *)

(***************************************************************************)
(* The line buffer is never filled beyond the byte kept for the NUL, the   *)
(* ring never beyond its depth, and rig_run() is under way only while the  *)
(* pump runs, for a buffer of any size and a ring of any depth.            *)
(***************************************************************************)
THEOREM TypeCorrect == Spec => []TypeOK
<1>1. IInv => TypeOK
  BY DEF IInv, TypeInv, TypeOK, Fits, Assembled
<1> QED
  BY <1>1, Invariance, PTL

(***************************************************************************)
(* The exposed variable holds what the last answered set has given it: a   *)
(* refused or malformed set leaves it alone, however its bytes arrive.     *)
(***************************************************************************)
THEOREM VariableIsLastSet == Spec => []VariableHolds
<1>1. IInv => VariableHolds
  <2> SUFFICES ASSUME IInv PROVE VariableHolds
    OBVIOUS
  <2> DEFINE sets == {k \in DOMAIN answers :
                        answers[k].kind = "ok" /\ Commands[answers[k].name].does = "set"}
  <2>1. CASE /\ \A k \in DOMAIN answers : ~Sets(answers[k])
             /\ var = Integer(0)
    BY <2>1 DEF VariableHolds, Sets
  <2>2. CASE \E m \in DOMAIN answers : LastSet(m) /\ var = answers[m].ret[1]
    <3>1. PICK m \in DOMAIN answers : LastSet(m) /\ var = answers[m].ret[1]
      BY <2>2
    <3>2. m \in sets /\ \A k \in sets : k <= m
      BY <3>1 DEF LastSet, Sets
    <3>3. sets \subseteq Int
      <4>1. AnySeq(answers)
        BY DEF IInv
      <4>2. DOMAIN answers = 1 .. Len(answers) /\ Len(answers) \in Nat
        BY <4>1, AppendAnySeq
      <4> QED
        BY <4>2
    <3>4. Max(sets) = m
      <4> HIDE DEF sets
      <4>1. Max(sets) \in sets /\ \A k \in sets : Max(sets) >= k
        BY <3>2, <3>3 DEF Max
      <4> QED
        BY <3>2, <3>3, <4>1
    <3> QED
      BY <3>1, <3>2, <3>4 DEF VariableHolds
  <2> QED
    BY <2>1, <2>2 DEF IInv, VarInv
<1> QED
  BY <1>1, Invariance, PTL

(***************************************************************************)
(* A line that does not fit runs nothing: it is answered by the error of   *)
(* an overflow, which names at most the beginning of its own name, and     *)
(* only such lines are, for a buffer of any size and any lines.            *)
(***************************************************************************)
THEOREM LongLinesRefused == Spec => []TooLongRefused
<1>1. IInv => TooLongRefused
  <2> SUFFICES ASSUME IInv, NEW k \in DOMAIN answers, answers[k].to \notin cut
               PROVE  /\ answers[k].kind = "overflow" <=> Long(reqs[answers[k].to])
                      /\ answers[k].kind = "overflow" =>
                           \/ answers[k].name = None
                           \/ IsPrefix(answers[k].name, reqs[answers[k].to].name)
                           \/ /\ reqs[answers[k].to].name = None
                              /\ \E i \in DOMAIN reqs[answers[k].to].text : reqs[answers[k].to].text[i] = Quote
    BY DEF TooLongRefused
  <2> PICK a : a = answers[k]
    OBVIOUS
  <2> PICK r : r = reqs[a.to]
    OBVIOUS
  <2>1. IsCall(r) \/ IsRaw(r)
    BY AnswerTells
  <2>2. r.text \in Seq(Char) /\ Kept(r.text) \in Seq(Char)
    BY AnswerTells DEF OneLine
  <2>3. Tells(a, Stored(Kept(r.text)))
    BY AnswerTells
  <2>4. PICK w \in Seq(Char) : w = Kept(r.text)
    BY <2>2
  <2>5. a.kind = "overflow" <=> Long(r)
    <3>1. a.kind = "overflow" <=> Stored(w).overflow
      BY <2>3, <2>4 DEF Tells
    <3>2. Stored(w).overflow <=> Len(w) >= LineBuf
      <4>1. CASE Len(w) < LineBuf
        BY <4>1, WireAssumption DEF Stored
      <4>2. CASE Len(w) >= LineBuf
        BY <4>2, WireAssumption DEF Stored
      <4>3. Len(w) \in Nat /\ LineBuf \in Nat
        BY WireAssumption
      <4> QED
        BY <4>1, <4>2, <4>3
    <3> QED
      BY <2>4, <3>1, <3>2, SMTT(30) DEF Long
  <2>6. ASSUME a.kind = "overflow"
        PROVE  \/ a.name = None
               \/ IsPrefix(a.name, r.name)
               \/ r.name = None /\ \E i \in DOMAIN r.text : r.text[i] = Quote
    <3>1. PICK n \in Nat : n = LineBuf - 1
      BY WireAssumption
    <3>2. Len(w) >= LineBuf
      BY <2>4, <2>5, <2>6 DEF Long
    <3>3. Stored(w).buf = SubSeq(w, 1, n) /\ n <= Len(w)
      BY <3>1, <3>2, WireAssumption DEF Stored
    <3>4. PICK b \in Seq(Char) : b = SubSeq(w, 1, n)
      BY <3>3, CutGrows, SMTT(30)
    <3>5. Grown(Scanned(b), Scanned(w))
      BY <3>3, <3>4, CutGrows
    <3>6. a.name = Tokenize(b).name
      BY <2>3, <2>4, <2>6, <3>3, <3>4 DEF Tells
    <3>7. \/ a.name = None
          \/ Scanned(b).slots # <<>> /\ a.name = Scanned(b).slots[1]
      BY <3>6, Nameable
    <3> SUFFICES ASSUME Scanned(b).slots # <<>>, a.name = Scanned(b).slots[1]
                 PROVE  \/ IsPrefix(a.name, r.name)
                        \/ r.name = None /\ \E i \in DOMAIN r.text : r.text[i] = Quote
      BY <3>7
    <3>8. PICK t \in Scanning : t = Scanned(b)
      BY ScannedSteps
    <3>9. PICK u \in Scanning : u = Scanned(w)
      BY ScannedSteps
    <3>10. u.slots # <<>> /\ Ahead(a.name, u.slots[1]) /\ a.name \in Seq(Char) /\ u.slots[1] \in Seq(Char)
      <4>1. Len(t.slots) >= 1 /\ Len(t.slots) <= Len(u.slots) /\ Len(u.slots) \in Nat /\ Len(t.slots) \in Nat
        BY <3>5, <3>8, <3>9 DEF Grown, Scanning
      <4>2. 1 \in 1 .. Len(t.slots) /\ 1 \in 1 .. Len(u.slots)
        BY <4>1
      <4>3. Ahead(t.slots[1], u.slots[1])
        BY <3>5, <3>8, <3>9, <4>2 DEF Grown
      <4>4. t.slots[1] \in Seq(Char) /\ u.slots[1] \in Seq(Char)
        BY <4>2 DEF Scanning
      <4> QED
        BY <3>8, <4>1, <4>3, <4>4
    <3>11. IsPrefix(a.name, u.slots[1])
      BY <3>10, AheadPrefix
    <3>12. CASE IsCall(r)
      <4>1. /\ Bare(r.name) /\ r.args \in Seq(Value) /\ Written(r.name, r.args) \in Seq(Clean)
            /\ r.text = Append(Written(r.name, r.args), "\n")
        BY <3>12, CallText
      <4>2. w = Written(r.name, r.args)
        BY <2>4, <4>1, KeptClean
      <4>3. NameFirst(r.name, Scanned(Written(r.name, r.args)))
        BY <4>1, CallName
      <4>4. u.slots[1] = r.name
        BY <3>9, <4>2, <4>3 DEF NameFirst
      <4> QED
        BY <3>11, <4>4
    <3>13. CASE IsRaw(r)
      <4> DEFINE whole == u.slots # <<>> /\ (Len(u.slots) = 1 => u.mode \in {"gap", "bare", "closed", "many"})
      <4>1. r.name = IF whole THEN u.slots[1] ELSE None
        BY <2>4, <3>9, <3>13 DEF IsRaw
      <4>2. CASE whole
        BY <3>11, <4>1, <4>2
      <4>3. CASE ~whole
        <5>1. u.mode \in Quoting
          <6>1. u.mode # "comment"
            <7>1. Sighted(w)
              BY QuoteSeen
            <7> QED
              BY <3>9, <3>10, <7>1 DEF Sighted
          <6> QED
            BY <3>10, <4>3, <6>1 DEF Scanning, Modes, Quoting
        <5>2. Occurs(Quote, w)
          BY <3>9, <5>1, QuoteSeen DEF Sighted
        <5>3. Occurs(Quote, r.text)
          BY <2>2, <2>4, <5>2, KeptOccurs
        <5>4. \E i \in DOMAIN r.text : r.text[i] = Quote
          <6>1. DOMAIN r.text = 1 .. Len(r.text)
            BY <2>2
          <6> QED
            BY <5>3, <6>1 DEF Occurs
        <5> QED
          BY <4>1, <4>3, <5>4
      <4> QED
        BY <4>2, <4>3
    <3> QED
      BY <2>1, <3>12, <3>13
  <2> QED
    BY <2>5, <2>6
<1> QED
  BY <1>1, Invariance, PTL

(***************************************************************************)
(* The error of a malformed line names the command exactly when its name   *)
(* was read whole, wherever the quoting goes wrong and whatever the line;  *)
(* of a line with too many arguments nothing is said.                      *)
(***************************************************************************)
THEOREM ErrorsNameCommand == Spec => []ErrorsNamed
<1>1. IInv => ErrorsNamed
  <2> SUFFICES ASSUME IInv, NEW k \in DOMAIN answers, Whole(answers[k]), answers[k].kind = "syntax",
                      ~TooMany(reqs[answers[k].to])
               PROVE  answers[k].name = reqs[answers[k].to].name
    BY DEF ErrorsNamed
  <2> PICK a : a = answers[k]
    OBVIOUS
  <2> PICK r : r = reqs[a.to]
    OBVIOUS
  <2>1. answers[k].to \notin cut /\ ~Long(r)
    BY DEF Whole
  <2>2. IsCall(r) \/ IsRaw(r)
    BY <2>1, AnswerTells
  <2>3. PICK w \in Seq(Char) : w = Kept(r.text)
    BY <2>1, AnswerTells
  <2>4. Tells(a, Stored(w))
    BY <2>1, <2>3, AnswerTells
  <2>5. Stored(w).buf = w
    <3>1. Len(w) < LineBuf
      <4>1. Len(w) \in Nat /\ LineBuf \in Nat /\ ~(Len(w) >= LineBuf)
        BY <2>1, <2>3, WireAssumption DEF Long
      <4> QED
        BY <4>1
    <3> QED
      BY <3>1 DEF Stored
  <2>6. ~Tokenize(w).ok /\ a.name = Tokenize(w).name
    BY <2>4, <2>5 DEF Tells
  <2>7. PICK u \in Scanning : u = Scanned(w)
    BY ScannedSteps
  <2>8. /\ u.mode \in {"many", "garbage", "quoted", "escape"}
        /\ a.name = IF u.mode # "many" /\ Len(u.slots) > 1 THEN u.slots[1] ELSE None
    BY <2>6, <2>7 DEF Tokenize
  <2>9. CASE IsCall(r)
    <3>1. /\ r.kind = "call" /\ Bare(r.name) /\ r.args \in Seq(Value) /\ Written(r.name, r.args) \in Seq(Clean)
          /\ r.text = Append(Written(r.name, r.args), "\n")
      BY <2>9, CallText
    <3>2. w = Written(r.name, r.args)
      BY <2>3, <3>1, KeptClean
    <3>3. Heard(r.name, r.args, u)
      BY <2>7, <3>1, <3>2, CallScanned
    <3>4. Len(r.args) > MaxArgs
      BY <2>8, <3>3 DEF Heard
    <3>5. u.mode = "many"
      BY <3>3, <3>4 DEF Heard
    <3>6. TooMany(r)
      BY <3>1, <3>4 DEF TooMany
    <3> QED
      BY <2>8, <3>5, <3>6
  <2>10. CASE IsRaw(r)
    <3>1. r.kind = "raw"
      BY <2>10 DEF IsRaw
    <3>2. TooMany(r) <=> u.mode = "many"
      BY <2>3, <2>7, <3>1 DEF TooMany
    <3>3. r.name = IF u.slots # <<>> /\ (Len(u.slots) = 1 => u.mode \in {"gap", "bare", "closed", "many"})
                   THEN u.slots[1] ELSE None
      BY <2>3, <2>7, <2>10 DEF IsRaw
    <3> PICK q \in Seq(Seq(Char)) : q = u.slots
      BY DEF Scanning
    <3>4. Len(q) \in Nat /\ (q = <<>> <=> Len(q) = 0)
      BY EmptyLength
    <3>5. PICK n \in Nat : n = Len(q)
      BY <3>4
    <3>6. n = 0 \/ n = 1 \/ n > 1
      OBVIOUS
    <3>7. u.slots = <<>> <=> n = 0
      BY <3>4, <3>5
    <3>8. a.name = IF u.mode # "many" /\ n > 1 THEN u.slots[1] ELSE None
      BY <2>8, <3>5
    <3>9. r.name = IF n # 0 /\ (n = 1 => u.mode \in {"gap", "bare", "closed", "many"})
                   THEN u.slots[1] ELSE None
      BY <3>3, <3>5, <3>7
    <3>10. u.mode # "many" => u.mode \notin {"gap", "bare", "closed", "many"}
      BY <2>8
    <3>11. CASE u.mode = "many"
      BY <3>2, <3>8, <3>11
    <3>12. CASE u.mode # "many" /\ n > 1
      <4>1. a.name = r.name
        BY <3>8, <3>9, <3>12
      <4> QED
        BY <3>2, <3>12, <4>1
    <3>13. CASE u.mode # "many" /\ n \in {0, 1}
      <4>1. a.name = None /\ r.name = None
        BY <3>8, <3>9, <3>10, <3>13
      <4> QED
        BY <3>2, <3>13, <4>1
    <3> QED
      BY <3>6, <3>11, <3>12, <3>13
  <2> QED
    BY <2>2, <2>9, <2>10
<1> QED
  BY <1>1, Invariance, PTL

(***************************************************************************)
(* A negative number is taken for no unsigned parameter, unless a tab      *)
(* stands before the minus: rig_parse_u64() looks for the sign behind      *)
(* blanks only.  For any line, name and quoting.                           *)
(***************************************************************************)
THEOREM NegativesRefused == Spec => []MinusRefused
<1>1. IInv => MinusRefused
  <2> SUFFICES ASSUME IInv, NEW k \in DOMAIN answers, answers[k].kind = "ok",
                      Commands[answers[k].name].types \in {<<"uint8_t">>, <<"uint64_t">>}, answers[k].to \notin cut,
                      NEW i \in DOMAIN reqs[answers[k].to].text, reqs[answers[k].to].text[i] = "-"
               PROVE  \E j \in 1 .. (i - 1) : reqs[answers[k].to].text[j] = "\t"
    BY DEF MinusRefused
  <2> PICK a : a = answers[k]
    OBVIOUS
  <2>1. OneLine(reqs[a.to].text)
    BY AnswerTells
  <2> PICK s \in Seq(Char) : s = reqs[a.to].text
    BY <2>1 DEF OneLine
  <2>2. PICK w \in Seq(Char) : w = Kept(s)
    BY KeptSteps
  <2>3. Tells(a, Stored(w))
    BY <2>2, AnswerTells
  <2>4. a.kind \in Ran
    BY DEF Ran
  <2>5. Stored(w).buf = w
    <3>1. ~Stored(w).overflow
      BY <2>3, <2>4 DEF Tells
    <3> QED
      BY <3>1 DEF Stored
  <2> PICK t : t = Tokenize(w)
    OBVIOUS
  <2>6. t.ok /\ t.name # None
    BY <2>3, <2>4, <2>5 DEF Tells
  <2>7. PICK v : a.kind = Dispatch(t.name, t.args, v).kind /\ a.name = Dispatch(t.name, t.args, v).name
    BY <2>3, <2>4, <2>5 DEF Tells
  <2>8. a.name = t.name
    BY <2>7, DispatchKind
  <2> PICK types : types = Commands[t.name].types
    OBVIOUS
  <2>9. types = <<"uint8_t">> \/ types = <<"uint64_t">>
    BY <2>8
  <2>10. Len(types) = 1 /\ types[1] \in {"uint8_t", "uint64_t"} /\ types # Variadic /\ DOMAIN types = 1 .. 1
    <3>1. PICK x : types = <<x>> /\ x \in {"uint8_t", "uint64_t"}
      BY <2>9
    <3>2. Len(types) = 1 /\ types[1] = x /\ DOMAIN types = 1 .. 1
      BY <3>1, Singles, Zenon
    <3>3. Variadic[1] = "..."
      BY Singles DEF Variadic
    <3>4. x # "..."
      BY <3>1
    <3>5. types # Variadic
      BY <3>2, <3>3, <3>4, Zenon
    <3> QED
      BY <3>1, <3>2, <3>5, Zenon
  <2>11. t.name \in DOMAIN Commands /\ Len(t.args) = 1 /\ Refused(types, t.args) = {}
    BY <2>7, <2>10 DEF Dispatch, Result
  <2>12. ParseUnsigned(t.args[1]) # {}
    <3>1. Parse(types[1], t.args[1]) # {}
      BY <2>10, <2>11 DEF Refused
    <3> QED
      BY <2>10, <3>1 DEF Parse
  <2>13. PICK q \in Seq(Seq(Char)) : q = Scanned(Kept(s)).slots
    BY <2>2, ScannedSteps DEF Scanning
  <2>14. q # <<>> /\ Scanned(Kept(s)).mode \notin Over /\ t.name = q[1] /\ t.args = Tail(q)
    BY <2>2, <2>6, <2>13, WellFormed
  <2>15. Len(q) = 2 /\ t.args[1] = q[2]
    <3>1. Len(Tail(q)) = Len(q) - 1 /\ Len(q) \in Nat /\ \A n \in 1 .. Len(q) - 1 : Tail(q)[n] = q[n + 1]
      BY <2>14, TailOf
    <3>2. Len(q) = 2
      BY <2>11, <2>14, <3>1
    <3>3. 1 \in 1 .. Len(q) - 1 /\ 1 + 1 = 2
      BY <3>2
    <3>4. Tail(q)[1] = q[2]
      BY <3>1, <3>3
    <3> QED
      BY <2>14, <3>2, <3>4, Zenon
  <2>16. Landed(q, s, i)
    <3>1. i \in 1 .. Len(s) /\ s[i] = "-"
      OBVIOUS
    <3> QED
      BY <2>13, <2>14, <3>1, AllLand DEF Landing
  <2>17. PICK n \in 1 .. Len(q) : \E m \in 1 .. Len(q[n]) :
            /\ q[n][m] = "-"
            /\ (\E j \in 1 .. m - 1 : q[n][j] = "\t") => \E j \in 1 .. i - 1 : s[j] = "\t"
    BY <2>16 DEF Landed
  <2>18. PICK m \in 1 .. Len(q[n]) :
            /\ q[n][m] = "-"
            /\ (\E j \in 1 .. m - 1 : q[n][j] = "\t") => \E j \in 1 .. i - 1 : s[j] = "\t"
    BY <2>17
  <2>19. PICK tok \in Seq(Char) : tok = q[n]
    OBVIOUS
  <2>20. n # 1
    <3> SUFFICES ASSUME n = 1 PROVE FALSE
      OBVIOUS
    <3>1. m \in DOMAIN t.name /\ t.name[m] = "-"
      BY <2>14, <2>18, <2>19
    <3>2. \A x \in DOMAIN t.name : t.name[x] # "-"
      BY <2>11, CommandsAssumption, ZenonT(60)
    <3> QED
      BY <3>1, <3>2, Zenon
  <2>21. n = 2
    BY <2>15, <2>20
  <2>22. \A j \in 1 .. Len(tok) : tok[j] \notin {"\n", "\r"}
    BY <2>13, <2>19, TabsKnown, ZenonT(60)
  <2>23. ParseUnsigned(tok) # {}
    BY <2>12, <2>15, <2>19, <2>21
  <2>24. m \in 1 .. Len(tok) /\ tok[m] = "-"
    BY <2>18, <2>19
  <2>25. \E j \in 1 .. m - 1 : tok[j] = "\t"
    BY <2>22, <2>23, <2>24, NegativeRefused
  <2> QED
    BY <2>18, <2>19, <2>25
<1> QED
  BY <1>1, Invariance, PTL

(***************************************************************************)
(* A call whose line fits runs the command that it names with the values   *)
(* that it was given, and is refused for the first one that is out of its  *)
(* type's range; lines are answered at most once, in order.  For any       *)
(* commands, values, widths of the integers and sizes of the buffers,      *)
(* however the bytes arrive and whatever rig_init() cuts.                  *)
(***************************************************************************)
THEOREM CallsDelivered == Spec => []Delivered
<1>1. IInv => Delivered
  <2> SUFFICES ASSUME IInv, NEW k \in DOMAIN answers
               PROVE  /\ k > 1 => answers[k-1].to < answers[k].to
                      /\ Whole(answers[k]) /\ reqs[answers[k].to].kind = "call"
                         /\ Len(reqs[answers[k].to].args) <= MaxArgs /\ reqs[answers[k].to].name \in DOMAIN Commands =>
                           /\ answers[k].name = reqs[answers[k].to].name
                           /\ Right(reqs[answers[k].to].name, reqs[answers[k].to].args, answers[k].kind, answers[k].ret)
    BY Zenon DEF Delivered, Right, Unmeant
  <2>1. k > 1 => answers[k-1].to < answers[k].to
    BY DEF IInv, Progress, Behind
  <2>2. ASSUME Whole(answers[k]), reqs[answers[k].to].kind = "call",
               Len(reqs[answers[k].to].args) <= MaxArgs, reqs[answers[k].to].name \in DOMAIN Commands
        PROVE  /\ answers[k].name = reqs[answers[k].to].name
               /\ Right(reqs[answers[k].to].name, reqs[answers[k].to].args, answers[k].kind, answers[k].ret)
    <3> PICK a : a = answers[k]
      OBVIOUS
    <3> PICK r : r = reqs[a.to]
      OBVIOUS
    <3>1. answers[k].to \notin cut /\ ~Long(r)
      BY <2>2 DEF Whole
    <3>2. IsCall(r)
      <4>1. IsCall(r) \/ IsRaw(r)
        BY <3>1, AnswerTells
      <4> QED
        BY <2>2, <4>1 DEF IsRaw
    <3>3. PICK w \in Seq(Char) : w = Kept(r.text)
      BY <3>1, AnswerTells
    <3>4. Tells(a, Stored(w))
      BY <3>1, <3>3, AnswerTells
    <3>5. Stored(w).buf = w /\ ~Stored(w).overflow
      <4>1. Len(w) < LineBuf
        <5>1. Len(w) \in Nat /\ LineBuf \in Nat /\ ~(Len(w) >= LineBuf)
          BY <3>1, <3>3, WireAssumption DEF Long
        <5> QED
          BY <5>1
      <4> QED
        BY <4>1 DEF Stored
    <3> PICK t : t = Tokenize(w)
      OBVIOUS
    <3>6. r.args \in Seq(Value) /\ t.ok /\ t.name = r.name /\ Tokens(r.args, t.args)
      BY <2>2, <3>2, <3>3, CallTokens
    <3>7. a.kind \in Ran
      BY <3>4, <3>5, <3>6 DEF Tells
    <3>8. PICK v : /\ a.kind = Dispatch(t.name, t.args, v).kind
                   /\ a.name = Dispatch(t.name, t.args, v).name
                   /\ a.ret = Dispatch(t.name, t.args, v).ret
      BY <3>4, <3>5, <3>7 DEF Tells
    <3>9. PICK d : d = Dispatch(t.name, t.args, v)
      OBVIOUS
    <3>10. a.kind = d.kind /\ a.name = d.name /\ a.ret = d.ret
      BY <3>8, <3>9, Zenon
    <3>11. d.name = r.name
      BY <3>6, <3>9, DispatchKind
    <3>12. r.name \in DOMAIN Commands /\ d = Dispatch(r.name, t.args, v)
      BY <2>2, <3>6, <3>9
    <3>13. Right(r.name, r.args, d.kind, d.ret)
      BY <3>6, <3>12, DispatchRight
    <3> QED
      BY <3>10, <3>11, <3>13
  <2> QED
    BY <2>1, <2>2
<1> QED
  BY <1>1, Invariance, PTL
=============================================================================
