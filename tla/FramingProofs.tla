--------------------------- MODULE FramingProofs ---------------------------
(***************************************************************************)
(* Theorems about Framing, for any number of messages of any sizes, cut    *)
(* into any chunks, and any chunk size of the socket's stream.             *)
(***************************************************************************)
EXTENDS Framing, FiniteSetTheorems, SequenceTheorems, WellFoundedInduction, TLAPS

-----------------------------------------------------------------------------
(* Induction and recursion, with sets and functions for operators *)

LEMMA NatSetInduction ==
    ASSUME NEW T, 0 \in T, \A n \in Nat : n \in T => n + 1 \in T PROVE Nat \subseteq T
<1> DEFINE U == Nat \ T
<1> SUFFICES ASSUME U # {} PROVE FALSE
  OBVIOUS
<1>1. \E n \in U : \A k \in U : <<k, n>> \notin OpToRel(<, Nat)
  BY NatLessThanWellFounded, WFMin
<1>2. \A k, n \in Nat : k < n => <<k, n>> \in OpToRel(<, Nat)
  BY DEF OpToRel
<1>3. PICK n \in U : \A k \in U : ~(k < n)
  BY <1>1, <1>2
<1>4. n \in Nat /\ n # 0
  BY <1>3
<1>5. n - 1 \in Nat /\ n - 1 < n /\ (n - 1) + 1 = n
  BY <1>4
<1>6. n - 1 \in T
  BY <1>3, <1>5
<1> QED
  BY <1>3, <1>5, <1>6

\* f has the value s at a, and follows from one number to the next, up to a + m.
IsRecursion(f, S, s, a, m, next) ==
    /\ f \in [a .. (a + m) -> S]
    /\ f[a] = s
    /\ \A k \in (a + 1) .. (a + m) : f[k] = next[k][f[k - 1]]

LEMMA RecursionExists ==
    ASSUME NEW S, NEW s \in S, NEW a \in Int, NEW m \in Nat, NEW next \in [Int -> [S -> S]]
    PROVE  \E f : IsRecursion(f, S, s, a, m, next)
<1> DEFINE T == {n \in Nat : \E f : IsRecursion(f, S, s, a, n, next)}
<1>1. 0 \in T
  <2>1. IsRecursion([k \in a .. (a + 0) |-> s], S, s, a, 0, next)
    BY DEF IsRecursion
  <2> QED
    BY <2>1
<1>2. ASSUME NEW n \in Nat, n \in T PROVE n + 1 \in T
  <2>1. PICK f : IsRecursion(f, S, s, a, n, next)
    BY <1>2
  <2>2. PICK b, last : b = a + (n + 1) /\ last = next[b][f[a + n]]
    OBVIOUS
  <2>3. b \in Int /\ b - 1 = a + n /\ a + n \in a .. (a + n) /\ b \notin a .. (a + n)
        /\ a .. b = (a .. (a + n)) \cup {b} /\ a \in a .. (a + n)
    BY <2>2
  <2>4. f \in [a .. (a + n) -> S] /\ f[a + n] \in S
    BY <2>1, <2>3 DEF IsRecursion
  <2>5. last \in S
    BY <2>2, <2>3, <2>4
  <2>6. PICK g : g = [k \in a .. b |-> IF k = b THEN last ELSE f[k]]
    OBVIOUS
  <2>7. /\ g \in [a .. b -> S] /\ g[b] = last
        /\ \A k \in a .. (a + n) : g[k] = f[k]
    BY <2>3, <2>4, <2>5, <2>6
  <2>8. ASSUME NEW k \in (a + 1) .. b PROVE g[k] = next[k][g[k - 1]]
    <3>1. k - 1 \in a .. (a + n) /\ g[k - 1] = f[k - 1]
      BY <2>2, <2>7
    <3>2. CASE k = b
      BY <2>2, <2>3, <2>7, <3>1, <3>2
    <3>3. CASE k # b
      <4>1. k \in (a + 1) .. (a + n) /\ k \in a .. (a + n)
        BY <2>2, <3>3
      <4>2. f[k] = next[k][f[k - 1]]
        BY <2>1, <4>1 DEF IsRecursion
      <4> QED
        BY <2>7, <3>1, <4>1, <4>2
    <3> QED
      BY <3>2, <3>3
  <2>9. g[a] = s
    BY <2>1, <2>3, <2>7 DEF IsRecursion
  <2>10. IsRecursion(g, S, s, a, n + 1, next) /\ n + 1 \in Nat
    BY <2>2, <2>7, <2>8, <2>9 DEF IsRecursion
  <2> QED
    BY <2>10
<1>3. m \in T
  <2> HIDE DEF T
  <2> QED
    BY <1>1, <1>2, NatSetInduction
<1> QED
  BY <1>3

-----------------------------------------------------------------------------
(* Where messages begin *)

LEMMA HeaderSizeType == \A size : HeaderSize(size) \in Nat /\ HeaderSize(size) >= 21
<1> SUFFICES ASSUME NEW size PROVE HeaderSize(size) \in Nat /\ HeaderSize(size) >= 21
  OBVIOUS
<1> DEFINE more == {k \in 1 .. 9 : size >= 10^k}
<1>1. IsFiniteSet(1 .. 9)
  <2>1. 1 \in Int /\ 9 \in Int
    OBVIOUS
  <2> QED
    BY <2>1, FS_Interval
<1>2. Cardinality(more) \in Nat
  <2> HIDE DEF more
  <2>1. more \subseteq 1 .. 9
    BY DEF more
  <2> QED
    BY <1>1, <2>1, FS_Subset, FS_CardinalityType
<1>3. HeaderSize(size) = 16 + (1 + Cardinality(more)) + 4
  BY DEF HeaderSize, Digits
<1> QED
  BY <1>2, <1>3

LEMMA BeginIsSum ==
    ASSUME NEW sizes \in Seq(Nat)
    PROVE  /\ Begin(sizes) \in [1 .. Len(sizes) + 1 -> Nat]
           /\ Begin(sizes)[1] = 0
           /\ \A k \in DOMAIN sizes :
                Begin(sizes)[k + 1] = Begin(sizes)[k] + HeaderSize(sizes[k]) + sizes[k]
<1> DEFINE Last == Len(sizes) + 1
           Define(f) == [k \in 1 .. Last |->
                           IF k = 1 THEN 0
                           ELSE f[k - 1] + HeaderSize(sizes[k - 1]) + sizes[k - 1]]
           next == [k \in Int |-> [v \in Nat |->
                      IF k - 1 \in DOMAIN sizes
                      THEN v + HeaderSize(sizes[k - 1]) + sizes[k - 1] ELSE 0]]
<1>1. Len(sizes) \in Nat /\ DOMAIN sizes = 1 .. Len(sizes) /\ \A k \in DOMAIN sizes : sizes[k] \in Nat
  OBVIOUS
<1>2. next \in [Int -> [Nat -> Nat]]
  BY <1>1, HeaderSizeType
<1>3. PICK f : IsRecursion(f, Nat, 0, 1, Len(sizes), next)
  <2> HIDE DEF next
  <2>1. 1 \in Int /\ 0 \in Nat
    OBVIOUS
  <2> QED
    BY <1>1, <1>2, <2>1, RecursionExists
<1>3a. /\ f \in [1 .. Last -> Nat] /\ f[1] = 0
       /\ \A k \in 2 .. Last : f[k] = next[k][f[k - 1]]
  <2> HIDE DEF next
  <2> QED
    BY <1>1, <1>3 DEF IsRecursion
<1>4. \A k \in 2 .. Last : f[k] = f[k - 1] + HeaderSize(sizes[k - 1]) + sizes[k - 1]
  <2> SUFFICES ASSUME NEW k \in 2 .. Last
               PROVE  f[k] = f[k - 1] + HeaderSize(sizes[k - 1]) + sizes[k - 1]
    OBVIOUS
  <2>1. k - 1 \in DOMAIN sizes /\ k - 1 \in 1 .. Last /\ k \in Int
    BY <1>1
  <2>2. f[k] = next[k][f[k - 1]] /\ f[k - 1] \in Nat
    BY <1>3a, <2>1
  <2> QED
    BY <2>1, <2>2
<1>5. f = Define(f)
  <2>1. DOMAIN f = 1 .. Last
    BY <1>1, <1>3a
  <2>2. ASSUME NEW k \in 1 .. Last PROVE f[k] = Define(f)[k]
    BY <1>1, <1>3a, <1>4
  <2> QED
    BY <1>3a, <2>1, <2>2
<1>6. Begin(sizes) = CHOOSE g : g = Define(g)
  BY DEF Begin
<1>7. PICK g : g = Begin(sizes)
  OBVIOUS
<1>8. g = Define(g)
  <2> HIDE DEF Define
  <2> QED
    BY <1>5, <1>6, <1>7
<1>9. /\ DOMAIN g = 1 .. Last /\ g[1] = 0
      /\ \A k \in DOMAIN sizes : g[k + 1] = g[k] + HeaderSize(sizes[k]) + sizes[k]
  <2>1. DOMAIN g = 1 .. Last /\ g[1] = 0
    BY <1>1, <1>8
  <2>2. ASSUME NEW k \in DOMAIN sizes
        PROVE  g[k + 1] = g[k] + HeaderSize(sizes[k]) + sizes[k]
    <3>1. k + 1 \in 1 .. Last /\ k + 1 # 1 /\ (k + 1) - 1 = k
      BY <1>1
    <3> QED
      BY <1>8, <3>1
  <2> QED
    BY <2>1, <2>2
<1>10. \A k \in 1 .. Last : g[k] \in Nat
  <2> DEFINE T == {k \in Nat : k + 1 \in 1 .. Last => g[k + 1] \in Nat}
  <2>1. 0 \in T
    BY <1>9
  <2>2. ASSUME NEW k \in Nat, k \in T PROVE k + 1 \in T
    <3> SUFFICES ASSUME (k + 1) + 1 \in 1 .. Last PROVE g[(k + 1) + 1] \in Nat
      OBVIOUS
    <3>1. k + 1 \in DOMAIN sizes /\ k + 1 \in 1 .. Last
      BY <1>1
    <3>2. g[k + 1] \in Nat /\ sizes[k + 1] \in Nat
      BY <1>1, <2>2, <3>1
    <3>3. g[(k + 1) + 1] = g[k + 1] + HeaderSize(sizes[k + 1]) + sizes[k + 1]
      BY <1>9, <3>1
    <3>4. HeaderSize(sizes[k + 1]) \in Nat
      BY HeaderSizeType
    <3> QED
      BY <3>2, <3>3, <3>4
  <2>3. Nat \subseteq T
    <3> HIDE DEF T
    <3> QED
      BY <2>1, <2>2, NatSetInduction
  <2>4. ASSUME NEW k \in 1 .. Last PROVE g[k] \in Nat
    <3>1. PICK m \in Nat : k = m + 1
      <4>1. k - 1 \in Nat /\ k = (k - 1) + 1
        BY <1>1
      <4> QED
        BY <4>1
    <3>2. m \in T
      BY <2>3
    <3> QED
      BY <3>1, <3>2
  <2> QED
    BY <2>4
<1>11. g \in [1 .. Last -> Nat]
  BY <1>8, <1>9, <1>10
<1> QED
  BY <1>7, <1>9, <1>11

\* Where the source's messages begin, which is in their order.
LEMMA SourceType ==
    /\ N \in Nat /\ DOMAIN Bodies = 1 .. N
    /\ \A k \in 1 .. N : Bodies[k] \in Nat \ {0}
    /\ \A k \in 1 .. N + 1 : Source[k] \in Nat
    /\ Source[1] = 0
    /\ \A k \in 1 .. N : Source[k + 1] = Source[k] + HeaderSize(Bodies[k]) + Bodies[k]
<1>1. Bodies \in Seq(Nat \ {0}) /\ N = Len(Bodies)
  BY SizeAssumption DEF N
<1>2. Bodies \in Seq(Nat) /\ N \in Nat /\ DOMAIN Bodies = 1 .. N
  BY <1>1
<1>3. \A k \in 1 .. N : Bodies[k] \in Nat \ {0}
  BY <1>1, <1>2
<1> QED
  BY <1>1, <1>2, <1>3, BeginIsSum DEF Source

LEMMA SourceGrows == \A j, k \in 1 .. N + 1 : j < k => Source[j] + 21 < Source[k]
<1> DEFINE T == {m \in Nat : \A j \in 1 .. N + 1 : j + m + 1 \in 1 .. N + 1 =>
                                Source[j] + 21 < Source[j + m + 1]}
<1>1. ASSUME NEW k \in 1 .. N PROVE Source[k] + 21 < Source[k + 1]
  BY SourceType, HeaderSizeType, SMTT(30)
<1>2. 0 \in T
  BY <1>1, SourceType
<1>3. ASSUME NEW m \in Nat, m \in T PROVE m + 1 \in T
  <2> SUFFICES ASSUME NEW j \in 1 .. N + 1, j + (m + 1) + 1 \in 1 .. N + 1
               PROVE  Source[j] + 21 < Source[j + (m + 1) + 1]
    OBVIOUS
  <2>1. j + m + 1 \in 1 .. N /\ j + m + 1 \in 1 .. N + 1 /\ j + (m + 1) + 1 = (j + m + 1) + 1
    BY SourceType
  <2>2. /\ Source[j] + 21 < Source[j + m + 1]
        /\ Source[j + m + 1] + 21 < Source[(j + m + 1) + 1]
    BY <1>1, <1>3, <2>1
  <2>3. /\ Source[j] \in Nat /\ Source[j + m + 1] \in Nat /\ Source[(j + m + 1) + 1] \in Nat
    BY <2>1, SourceType
  <2> QED
    BY <2>1, <2>2, <2>3
<1>4. Nat \subseteq T
  <2> HIDE DEF T
  <2> QED
    BY <1>2, <1>3, NatSetInduction
<1>5. ASSUME NEW j \in 1 .. N + 1, NEW k \in 1 .. N + 1, j < k PROVE Source[j] + 21 < Source[k]
  <2>1. PICK m \in Nat : k = j + m + 1
    <3>1. (k - j) - 1 \in Nat /\ k = j + ((k - j) - 1) + 1
      BY <1>5, SourceType
    <3> QED
      BY <3>1
  <2>2. m \in T
    BY <1>4
  <2> QED
    BY <2>1, <2>2
<1> QED
  BY <1>5

LEMMA AnnouncedIsBody == \A k \in 1 .. N : Announced(Source[k]) = Bodies[k]
<1> SUFFICES ASSUME NEW k \in 1 .. N PROVE Announced(Source[k]) = Bodies[k]
  OBVIOUS
<1>1. ASSUME NEW j \in 1 .. N, Source[j] = Source[k] PROVE j = k
  <2>1. j \in 1 .. N + 1 /\ k \in 1 .. N + 1 /\ Source[j] \in Nat /\ Source[k] \in Nat
    BY SourceType
  <2>2. ~(j < k) /\ ~(k < j)
    BY <1>1, <2>1, SourceGrows
  <2> QED
    BY <2>1, <2>2, SourceType
<1>2. (CHOOSE j \in 1 .. N : Source[j] = Source[k]) = k
  BY <1>1
<1> QED
  BY <1>2 DEF Announced

-----------------------------------------------------------------------------
(* ToLSTransform *)

\* What the parser has pushed, and where it stands in the source, when it was
\* given r bytes: before a header, between a header and its body, or behind a
\* part of a header that it took for all of it.
Right(p, r) ==
    /\ p \in Parser
    /\ Len(p.pushed) <= N
    /\ \A k \in DOMAIN p.pushed : p.pushed[k] = BodyOf(k)
    /\ p.state = "content-length" => p.begin = Source[Len(p.pushed) + 1] /\ p.begin <= r
    /\ p.state = "jsonrpc" =>
         /\ Len(p.pushed) < N
         /\ p.begin = Source[Len(p.pushed) + 1] + HeaderSize(Bodies[Len(p.pushed) + 1])
         /\ p.length = Bodies[Len(p.pushed) + 1]
         /\ p.begin <= r
    /\ p.state = "failed" =>
         /\ Len(p.pushed) < N
         /\ Source[Len(p.pushed) + 1] + 21 <= r
         /\ r < Source[Len(p.pushed) + 1] + HeaderSize(Bodies[Len(p.pushed) + 1])

\* Headers and bodies that were taken; a bad header ends it all.
Taken(p) == 2 * Len(p.pushed) + (CASE p.state = "content-length" -> 0
                                   [] p.state = "jsonrpc" -> 1
                                   [] OTHER -> 2)

Still(p, r) == Round(p, r) = p

LEMMA TakenBound == ASSUME NEW p, NEW r, Right(p, r) PROVE Taken(p) \in 0 .. 2 * N
<1>1. Len(p.pushed) \in Nat /\ p.state \in {"content-length", "jsonrpc", "failed"}
  BY DEF Right, Parser
<1>2. N \in Nat /\ Len(p.pushed) <= N /\ (p.state # "content-length" => Len(p.pushed) < N)
  BY <1>1, SourceType DEF Right
<1>3. CASE p.state = "content-length"
  BY <1>1, <1>2, <1>3 DEF Taken
<1>4. CASE p.state = "jsonrpc"
  BY <1>1, <1>2, <1>4 DEF Taken
<1>5. CASE p.state = "failed"
  BY <1>1, <1>2, <1>5 DEF Taken
<1> QED
  BY <1>1, <1>3, <1>4, <1>5

\* A round takes something more, or nothing ever comes of it.
LEMMA RoundRight ==
    ASSUME NEW r \in 0 .. Source[N + 1], NEW p, Right(p, r)
    PROVE  /\ Right(Round(p, r), r)
           /\ Len(Round(p, r).pushed) >= Len(p.pushed)
           /\ Still(p, r) \/ Taken(Round(p, r)) > Taken(p)
<1> DEFINE n == Len(p.pushed)
<1>1. /\ n \in Nat /\ n <= N /\ p \in Parser /\ r \in Nat /\ n + 1 \in 1 .. N + 1
      /\ p.begin \in Nat /\ p.length \in Nat /\ p.pushed \in Seq(Interval)
      /\ Source[n + 1] \in Nat
  <2>1. p \in Parser /\ n <= N
    BY DEF Right
  <2>2. n \in Nat /\ p.begin \in Nat /\ p.length \in Nat /\ p.pushed \in Seq(Interval)
    BY <2>1 DEF Parser
  <2>3. Source[N + 1] \in Nat /\ n + 1 \in 1 .. N + 1
    BY <2>1, <2>2, SourceType
  <2> QED
    BY <2>1, <2>2, <2>3, SourceType
<1>2. CASE p.state = "content-length" /\ r >= p.begin + MinLength
  <2>1. p.begin = Source[n + 1] /\ MinLength = 21
    BY <1>2 DEF Right, MinLength, PrefixMinLength
  <2>2. n < N
    BY <1>1, <1>2, <2>1, SourceType
  <2>3. n + 1 \in 1 .. N /\ Announced(p.begin) = Bodies[n + 1]
    BY <1>1, <2>1, <2>2, SourceType, AnnouncedIsBody
  <2>4. Bodies[n + 1] \in Nat /\ HeaderSize(Bodies[n + 1]) \in Nat
    BY <2>3, SourceType, HeaderSizeType
  <2>5. Round(p, r) = ParseHeader(p, r)
    BY <1>2 DEF Round
  <2>6. CASE Complete(p, r)
    <3> DEFINE q == [p EXCEPT !.state = "jsonrpc", !.length = Announced(p.begin),
                              !.begin = @ + HeaderSize(Announced(p.begin))]
    <3>1. Round(p, r) = q
      BY <2>5, <2>6 DEF ParseHeader
    <3>2. /\ q \in Parser /\ q.state = "jsonrpc" /\ q.length = Bodies[n + 1]
          /\ q.begin = Source[n + 1] + HeaderSize(Bodies[n + 1]) /\ q.pushed = p.pushed
      <4>1. p.begin + HeaderSize(Announced(p.begin)) = Source[n + 1] + HeaderSize(Bodies[n + 1])
        BY <2>1, <2>3
      <4>2. Source[n + 1] + HeaderSize(Bodies[n + 1]) \in Nat
        BY <1>1, <2>4
      <4> QED
        BY <1>1, <2>3, <2>4, <4>1, <4>2 DEF Parser
    <3>3. q.begin <= r
      BY <2>1, <2>3, <2>6, <3>2 DEF Complete
    <3>4. Right(q, r)
      BY <1>1, <2>2, <3>2, <3>3 DEF Right
    <3>5. Taken(q) > Taken(p)
      BY <1>1, <1>2, <3>2 DEF Taken
    <3> QED
      BY <1>1, <3>1, <3>2, <3>4, <3>5
  <2>7. CASE ~Complete(p, r)
    <3> DEFINE q == [p EXCEPT !.state = "failed"]
    <3>1. Round(p, r) = q
      BY <2>5, <2>7 DEF ParseHeader
    <3>2. q \in Parser /\ q.state = "failed" /\ q.pushed = p.pushed
      BY <1>1 DEF Parser
    <3>3. Source[n + 1] + 21 <= r /\ r < Source[n + 1] + HeaderSize(Bodies[n + 1])
      BY <1>1, <1>2, <2>1, <2>3, <2>4, <2>7 DEF Complete
    <3>4. Right(q, r)
      BY <1>1, <2>2, <3>2, <3>3 DEF Right
    <3>5. Taken(q) > Taken(p)
      BY <1>1, <1>2, <3>2 DEF Taken
    <3> QED
      BY <1>1, <3>1, <3>2, <3>4, <3>5
  <2> QED
    BY <2>6, <2>7
<1>3. CASE p.state = "jsonrpc" /\ r >= p.begin + p.length
  <2> DEFINE body == <<p.begin, p.begin + p.length>>
             q == [p EXCEPT !.state = "content-length", !.begin = @ + p.length,
                            !.pushed = Append(@, body)]
  <2>1. Round(p, r) = q
    BY <1>3 DEF Round, Push
  <2>2. /\ n < N /\ p.length = Bodies[n + 1]
        /\ p.begin = Source[n + 1] + HeaderSize(Bodies[n + 1])
    BY <1>3 DEF Right
  <2>3. n + 1 \in 1 .. N /\ Bodies[n + 1] \in Nat /\ HeaderSize(Bodies[n + 1]) \in Nat
    BY <1>1, <2>2, SourceType, HeaderSizeType, SMTT(30)
  <2>4. /\ p.begin + p.length = Source[(n + 1) + 1] /\ Source[(n + 1) + 1] \in Nat
        /\ body = BodyOf(n + 1)
    <3>1. Source[(n + 1) + 1] = Source[n + 1] + HeaderSize(Bodies[n + 1]) + Bodies[n + 1]
      BY <2>3, SourceType
    <3>2. p.begin + p.length = Source[(n + 1) + 1]
      BY <1>1, <2>2, <2>3, <3>1
    <3>3. Source[(n + 1) + 1] - Bodies[n + 1] = p.begin /\ Source[(n + 1) + 1] \in Nat
      BY <1>1, <2>2, <2>3, <3>2
    <3> QED
      BY <3>2, <3>3 DEF BodyOf
  <2>5. body \in Interval
    BY <1>1 DEF Interval
  <2>6. /\ q \in Parser /\ q.state = "content-length" /\ q.begin = Source[(n + 1) + 1]
        /\ q.pushed = Append(p.pushed, body) /\ Len(q.pushed) = n + 1
    <3> HIDE DEF body
    <3>1. Append(p.pushed, body) \in Seq(Interval) /\ Len(Append(p.pushed, body)) = n + 1
      BY <1>1, <2>5
    <3>2. p.begin + p.length \in Nat
      BY <1>1
    <3> QED
      BY <1>1, <2>4, <3>1, <3>2 DEF Parser
  <2>7. \A k \in DOMAIN q.pushed : q.pushed[k] = BodyOf(k)
    <3> SUFFICES ASSUME NEW k \in 1 .. n + 1 PROVE q.pushed[k] = BodyOf(k)
      BY <1>1, <2>6
    <3> HIDE DEF body
    <3>1. CASE k = n + 1
      BY <1>1, <2>4, <2>6, <3>1
    <3>2. CASE k # n + 1
      <4>1. k \in DOMAIN p.pushed /\ q.pushed[k] = p.pushed[k]
        BY <1>1, <2>6, <3>2
      <4> QED
        BY <4>1 DEF Right
    <3> QED
      BY <3>1, <3>2
  <2>8. q.begin <= r
    BY <1>3, <2>4, <2>6
  <2>9. Right(q, r)
    <3> HIDE DEF q, body
    <3>1. Len(q.pushed) <= N
      <4>1. N \in Nat
        BY SourceType
      <4> QED
        BY <1>1, <2>2, <2>6, <4>1
    <3>2. q.begin = Source[Len(q.pushed) + 1]
      BY <2>6
    <3>3. q.state # "jsonrpc" /\ q.state # "failed"
      BY <2>6
    <3> QED
      BY <2>6, <2>7, <2>8, <3>1, <3>2, <3>3 DEF Right
  <2>10. Taken(q) > Taken(p)
    BY <1>1, <1>3, <2>6 DEF Taken
  <2> QED
    BY <1>1, <2>1, <2>6, <2>9, <2>10
<1>4. CASE /\ ~(p.state = "content-length" /\ r >= p.begin + MinLength)
           /\ ~(p.state = "jsonrpc" /\ r >= p.begin + p.length)
  BY <1>1, <1>4 DEF Round, Still
<1> QED
  BY <1>2, <1>3, <1>4

\* The loop ends before it has done all its rounds, with all that can be taken.
LEMMA ParseRight ==
    ASSUME NEW r \in 0 .. Source[N + 1], NEW p, Right(p, r)
    PROVE  /\ Right(Parse(p, r), r)
           /\ Len(Parse(p, r).pushed) >= Len(p.pushed)
           /\ Still(Parse(p, r), r)
<1> DEFINE S == {q \in Parser : Right(q, r)}
           Last == 2 * N
           Define(f) == [k \in 0 .. Last |-> IF k = 0 THEN p ELSE Round(f[k - 1], r)]
           next == [k \in Int |-> [q \in S |-> Round(q, r)]]
<1>1. Last \in Nat /\ N \in Nat
  BY SourceType
<1>2. \A q : q \in S <=> Right(q, r)
  BY DEF Right
<1>3. next \in [Int -> [S -> S]]
  <2>1. \A q \in S : Round(q, r) \in S
    <3> SUFFICES ASSUME NEW q \in S PROVE Round(q, r) \in S
      OBVIOUS
    <3>1. Right(q, r)
      BY <1>2
    <3>2. Right(Round(q, r), r)
      BY <3>1, RoundRight
    <3> QED
      BY <1>2, <3>2
  <2> QED
    BY <2>1
<1>4. PICK f : IsRecursion(f, S, p, 0, Last, next)
  <2> HIDE DEF next, S, Last
  <2>1. p \in S
    BY <1>2
  <2>2. 0 \in Int
    OBVIOUS
  <2> QED
    BY <1>1, <1>3, <2>1, <2>2, RecursionExists
<1>5. /\ f \in [0 .. Last -> S] /\ f[0] = p
      /\ \A k \in 1 .. Last : f[k] = Round(f[k - 1], r)
  <2>1. /\ f \in [0 .. 0 + Last -> S] /\ f[0] = p
        /\ \A k \in 0 + 1 .. 0 + Last : f[k] = next[k][f[k - 1]]
    <3> HIDE DEF next, S, Last
    <3> QED
      BY <1>4 DEF IsRecursion
  <2>2. ASSUME NEW k \in 1 .. Last PROVE f[k] = Round(f[k - 1], r)
    <3>1. k \in 0 + 1 .. 0 + Last /\ k - 1 \in 0 .. 0 + Last /\ k \in Int
      BY <1>1
    <3>2. f[k - 1] \in S /\ f[k] = next[k][f[k - 1]]
      <4> HIDE DEF next, S, Last
      <4> QED
        BY <2>1, <3>1
    <3> QED
      BY <3>1, <3>2
  <2> QED
    BY <1>1, <2>1, <2>2
<1>6. f = Define(f)
  <2> HIDE DEF S
  <2> QED
    BY <1>1, <1>5
<1>7. Parse(p, r) = (CHOOSE g : g = Define(g))[Last]
  BY DEF Parse
<1>8. PICK g : g = (CHOOSE h : h = Define(h))
  OBVIOUS
<1>9. g = Define(g)
  <2> HIDE DEF Define
  <2> QED
    BY <1>6, <1>8
<1>10. g[0] = p /\ \A k \in 1 .. Last : g[k] = Round(g[k - 1], r)
  BY <1>1, <1>9
<1> DEFINE Good(q, k) == /\ Right(q, r)
                         /\ Len(q.pushed) >= Len(p.pushed)
                         /\ Still(q, r) \/ Taken(q) >= k
           T == {k \in Nat : k \in 0 .. Last => Good(g[k], k)}
<1>11. 0 \in T
  <2>1. Len(p.pushed) \in Nat
    BY DEF Right, Parser
  <2>2. Taken(p) \in 0 .. 2 * N
    BY TakenBound
  <2>3. Taken(p) >= 0
    BY <1>1, <2>2
  <2> QED
    BY <1>10, <2>1, <2>3
<1>12. ASSUME NEW k \in Nat, k \in T PROVE k + 1 \in T
  <2> SUFFICES ASSUME k + 1 \in 0 .. Last PROVE Good(g[k + 1], k + 1)
    OBVIOUS
  <2>1. k \in 0 .. Last /\ k + 1 \in 1 .. Last /\ (k + 1) - 1 = k
    BY <1>1
  <2>2. PICK q : q = g[k]
    OBVIOUS
  <2>3. g[k + 1] = Round(q, r)
    BY <1>10, <2>1, <2>2
  <2>4. Right(q, r) /\ Len(q.pushed) >= Len(p.pushed) /\ (Still(q, r) \/ Taken(q) >= k)
    BY <1>12, <2>1, <2>2
  <2>5. /\ Right(Round(q, r), r) /\ Len(Round(q, r).pushed) >= Len(q.pushed)
        /\ Still(q, r) \/ Taken(Round(q, r)) > Taken(q)
    BY <2>4, RoundRight
  <2>5a. Len(Round(q, r).pushed) >= Len(p.pushed)
    <3>1. /\ Len(p.pushed) \in Nat /\ Len(q.pushed) \in Nat
          /\ Len(Round(q, r).pushed) \in Nat
      BY <2>4, <2>5 DEF Right, Parser
    <3> QED
      BY <2>4, <2>5, <3>1
  <2>6. CASE Still(q, r)
    BY <2>3, <2>4, <2>6 DEF Still
  <2>7. CASE ~Still(q, r)
    <3>1. Taken(q) \in Nat /\ Taken(Round(q, r)) \in Nat
      BY <1>1, <2>4, <2>5, TakenBound
    <3>2. Taken(Round(q, r)) >= k + 1
      BY <2>4, <2>5, <2>7, <3>1
    <3> QED
      BY <2>3, <2>5, <2>5a, <3>2
  <2> QED
    BY <2>6, <2>7
<1>13. Last \in T
  <2> HIDE DEF T
  <2> QED
    BY <1>1, <1>11, <1>12, NatSetInduction
<1>14. PICK q : q = g[Last]
  OBVIOUS
<1>15. Right(q, r) /\ Len(q.pushed) >= Len(p.pushed) /\ (Still(q, r) \/ Taken(q) >= Last)
  BY <1>1, <1>13, <1>14
<1>16. Still(q, r)
  <2> SUFFICES ASSUME Taken(q) >= Last, Taken(Round(q, r)) > Taken(q) PROVE FALSE
    BY <1>15, RoundRight
  <2>1. Right(Round(q, r), r)
    BY <1>15, RoundRight
  <2>2. Taken(q) \in 0 .. Last /\ Taken(Round(q, r)) \in 0 .. Last
    BY <1>15, <2>1, TakenBound
  <2> QED
    BY <1>1, <2>2
<1> QED
  BY <1>7, <1>8, <1>14, <1>15, <1>16

-----------------------------------------------------------------------------
(* WebSocketWritableStream *)

\* chunkByteArray's pieces end where the bytes end, and none is empty.
LEMMA Ceiling ==
    ASSUME NEW C \in Nat \ {0}, NEW size \in Nat \ {0},
           NEW n, n = (size + C - 1) \div C
    PROVE  n \in Nat \ {0} /\ (n - 1) * C < size /\ size <= n * C
<1> DEFINE a == size + C - 1
<1>1. a \in Nat
  OBVIOUS
<1>2. n \in Nat /\ n * C <= a /\ a < n * C + C
  <2>1. \A x \in Nat : \A y \in Nat \ {0} :
          x \div y \in Nat /\ (x \div y) * y <= x /\ x < (x \div y) * y + y
    OBVIOUS
  <2> QED
    BY <1>1, <2>1
<1>3. n * C \in Nat /\ (n - 1) * C = n * C - C
  BY <1>2
<1>4. n # 0
  BY <1>1, <1>2
<1> QED
  BY <1>2, <1>3, <1>4

LEMMA TimesGrows == \A C, i, j \in Nat : i <= j => i * C <= j * C
  OBVIOUS

Piece(b) == b[2] - b[1] \in 1 .. ChunkSize /\ b[2] > b[1]

\* The bytes from b[1] + 1 to b[2] in pieces, each behind the one before it.
LEMMA PiecesInOrder ==
    ASSUME NEW b \in Interval, b[1] < b[2]
    PROVE  /\ Pieces(b) \in Seq(Interval) /\ Len(Pieces(b)) >= 1
           /\ Pieces(b)[1][1] = b[1] /\ Pieces(b)[Len(Pieces(b))][2] = b[2]
           /\ \A i \in DOMAIN Pieces(b) :
                /\ Piece(Pieces(b)[i])
                /\ i # 1 => Pieces(b)[i][1] = Pieces(b)[i - 1][2]
<1> DEFINE C == ChunkSize
           n == (b[2] - b[1] + C - 1) \div C
           from(i) == b[1] + (i - 1) * C
           to(i) == IF b[2] < b[1] + i * C THEN b[2] ELSE b[1] + i * C
           P == Pieces(b)
<1>1. C \in Nat \ {0} /\ b[1] \in Nat /\ b[2] \in Nat /\ b[2] - b[1] \in Nat \ {0}
  BY SizeAssumption DEF Interval
<1>2. n \in Nat \ {0} /\ (n - 1) * C < b[2] - b[1] /\ b[2] - b[1] <= n * C
  BY <1>1, Ceiling
<1>3. P = [i \in 1 .. n |-> <<from(i), to(i)>>]
  BY DEF Pieces
<1>4. ASSUME NEW i \in 1 .. n
      PROVE  /\ from(i) \in Nat /\ to(i) \in Nat /\ i * C \in Nat
             /\ to(i) - from(i) \in 1 .. C
             /\ i # n => to(i) = b[1] + i * C
  <2>1. i \in Nat /\ i - 1 \in Nat /\ i <= n /\ n - 1 \in Nat
    BY <1>2
  <2>2. i * C \in Nat /\ (i - 1) * C \in Nat /\ (n - 1) * C \in Nat /\ n * C \in Nat
    BY <1>1, <1>2, <2>1
  <2>3. (i - 1) * C <= (n - 1) * C
    BY <1>1, <2>1, TimesGrows
  <2>4. i * C = (i - 1) * C + C
    BY <1>1, <2>1
  <2>5. i # n => i * C <= (n - 1) * C
    <3>1. i # n => i <= n - 1
      BY <1>2, <2>1
    <3> QED
      BY <1>1, <2>1, <3>1, TimesGrows
  <2>6. PICK x, y, z \in Nat : x = (i - 1) * C /\ y = (n - 1) * C /\ z = i * C
    BY <2>2
  <2>7. from(i) = b[1] + x /\ to(i) = (IF b[2] < b[1] + z THEN b[2] ELSE b[1] + z)
    BY <2>6
  <2> HIDE DEF from, to, C, n
  <2>8. x <= y /\ z = x + C /\ y < b[2] - b[1] /\ (i # n => z <= y)
    BY <1>2, <2>3, <2>4, <2>5, <2>6
  <2> QED
    BY <1>1, <2>6, <2>7, <2>8
<1>5. Len(P) = n /\ DOMAIN P = 1 .. n
  BY <1>2, <1>3
<1>6. P \in Seq(Interval)
  <2> HIDE DEF from, to, n, C, P
  <2>1. P \in [1 .. n -> Interval]
    BY <1>3, <1>4 DEF Interval
  <2> QED
    BY <1>2, <2>1
<1>7. from(1) = b[1] /\ to(n) = b[2]
  BY <1>1, <1>2
<1>8. ASSUME NEW i \in 1 .. n, i # 1 PROVE from(i) = to(i - 1)
  <2>1. i - 1 \in 1 .. n /\ i - 1 # n
    BY <1>2, <1>8
  <2> QED
    BY <1>4, <2>1
<1>9. 1 \in 1 .. n /\ n \in 1 .. n
  BY <1>2
<1>10. \A i \in 1 .. n : /\ P[i][1] = from(i) /\ P[i][2] = to(i)
                         /\ i # 1 => i - 1 \in 1 .. n /\ P[i - 1][2] = to(i - 1)
  <2> HIDE DEF from, to, C, P
  <2> QED
    BY <1>2, <1>3
<1>11. ASSUME NEW i \in 1 .. n
       PROVE  Piece(P[i]) /\ (i # 1 => P[i][1] = P[i - 1][2])
  <2> HIDE DEF from, to, P, n
  <2>1. to(i) > from(i) /\ to(i) - from(i) \in 1 .. ChunkSize
    BY <1>1, <1>4
  <2>2. i # 1 => from(i) = to(i - 1)
    BY <1>8
  <2> QED
    BY <1>10, <2>1, <2>2 DEF Piece
<1>12. Len(P) >= 1 /\ P[1][1] = b[1] /\ P[Len(P)][2] = b[2]
  <2> HIDE DEF from, to, P, n
  <2> QED
    BY <1>2, <1>5, <1>7, <1>9, <1>10
<1>13. \A i \in DOMAIN P : Piece(P[i]) /\ (i # 1 => P[i][1] = P[i - 1][2])
  <2> HIDE DEF from, to, P, n
  <2> QED
    BY <1>5, <1>11
<1> QED
  BY <1>6, <1>12, <1>13

\* Where the bytes that were sent end.
SentEnd(fs) == IF fs = << >> THEN 0 ELSE fs[Len(fs)][2]

Chained(fs) ==
    \A i \in DOMAIN fs :
      /\ Piece(fs[i])
      /\ fs[i][1] = IF i = 1 THEN 0 ELSE fs[i - 1][2]

LEMMA SendPieces ==
    ASSUME NEW fs \in Seq(Interval), Chained(fs), NEW b \in Interval,
           b[1] = SentEnd(fs), b[1] < b[2]
    PROVE  /\ fs \o Pieces(b) \in Seq(Interval)
           /\ Chained(fs \o Pieces(b))
           /\ SentEnd(fs \o Pieces(b)) = b[2]
<1> DEFINE n == Len(fs)
<1>1. PICK P : P = Pieces(b)
  OBVIOUS
<1>2. /\ P \in Seq(Interval) /\ Len(P) >= 1
      /\ P[1][1] = b[1] /\ P[Len(P)][2] = b[2]
      /\ \A i \in DOMAIN P : /\ Piece(P[i])
                              /\ i # 1 => P[i][1] = P[i - 1][2]
  BY <1>1, PiecesInOrder
<1>3. PICK g : g = fs \o P
  OBVIOUS
<1>4. /\ g \in Seq(Interval) /\ n \in Nat /\ Len(P) \in Nat /\ Len(g) = n + Len(P)
      /\ DOMAIN g = 1 .. n + Len(P) /\ DOMAIN fs = 1 .. n /\ DOMAIN P = 1 .. Len(P)
      /\ \A i \in 1 .. n : g[i] = fs[i]
      /\ \A i \in n + 1 .. n + Len(P) : g[i] = P[i - n]
  BY <1>2, <1>3
<1>4a. \A i \in DOMAIN P : Piece(P[i]) /\ (i # 1 => P[i][1] = P[i - 1][2])
  <2>1. DOMAIN P = DOMAIN Pieces(b)
    BY <1>1
  <2> QED
    BY <1>1, <2>1, PiecesInOrder, Zenon
<1>5. SentEnd(g) = b[2]
  <2>1. Len(g) \in n + 1 .. n + Len(P) /\ Len(g) - n = Len(P) /\ g # << >>
    BY <1>2, <1>4
  <2>2. g[Len(g)] = P[Len(P)]
    BY <1>4, <2>1
  <2> QED
    BY <1>2, <2>1, <2>2 DEF SentEnd
<1>6. ASSUME NEW i \in DOMAIN g
      PROVE  /\ Piece(g[i])
             /\ g[i][1] = IF i = 1 THEN 0 ELSE g[i - 1][2]
  <2>1. CASE i <= n
    <3>1. i \in DOMAIN fs /\ g[i] = fs[i] /\ (i # 1 => g[i - 1] = fs[i - 1])
      BY <1>4, <2>1
    <3> QED
      BY <3>1 DEF Chained
  <2>2. CASE i = n + 1
    <3>1. g[i] = P[1] /\ 1 \in DOMAIN P
      BY <1>2, <1>4, <2>2
    <3>2. /\ Piece(g[i])
          /\ g[i][1] = SentEnd(fs)
      <4>1. Piece(P[1])
        BY <1>4a, <3>1, Zenon
      <4> QED
        BY <1>2, <3>1, <4>1
    <3>3. CASE n = 0
      <4>1. i = 1 /\ fs = << >>
        BY <1>4, <2>2, <3>3
      <4> QED
        BY <3>2, <4>1 DEF SentEnd
    <3>4. CASE n # 0
      <4>1. i - 1 = n /\ g[i - 1] = fs[n] /\ fs # << >> /\ i # 1
        BY <1>4, <2>2, <3>4
      <4>2. SentEnd(fs) = g[i - 1][2]
        BY <4>1 DEF SentEnd
      <4> QED
        BY <3>2, <4>1, <4>2
    <3> QED
      BY <3>3, <3>4
  <2>3. CASE i > n + 1
    <3>1. i - n \in DOMAIN P /\ i - n # 1 /\ i # 1 /\ g[i] = P[i - n] /\ g[i - 1] = P[(i - n) - 1]
      <4>1. i \in n + 1 .. n + Len(P) /\ i - 1 \in n + 1 .. n + Len(P)
            /\ (i - 1) - n = (i - n) - 1 /\ i - n \in 1 .. Len(P) /\ i - n # 1 /\ i # 1
        BY <1>4, <2>3
      <4> QED
        BY <1>4, <4>1
    <3>2. /\ Piece(P[i - n])
          /\ P[i - n][1] = P[(i - n) - 1][2]
      BY <1>4a, <3>1, Zenon
    <3> QED
      BY <3>1, <3>2
  <2> QED
    BY <1>4, <2>1, <2>2, <2>3
<1> QED
  BY <1>1, <1>3, <1>4, <1>5, <1>6 DEF Chained

-----------------------------------------------------------------------------
(* The invariant *)

ParserInv ==
    /\ Right(parser, received)
    /\ parser.state # "failed" => Still(parser, received)

FramesInv ==
    /\ Chained(frames)
    /\ socket # "closed" =>
         buffer = <<SentEnd(frames), written>> /\ SentEnd(frames) <= written

Inv == TypeOK /\ ParserInv /\ FramesInv

LEMMA InitInv == Init => Inv
<1> SUFFICES ASSUME Init PROVE Inv
  OBVIOUS
<1>1. N \in Nat /\ Source[N + 1] \in Nat /\ Source[1] = 0
  <2>1. N \in Nat
    BY SourceType
  <2>2. N + 1 \in 1 .. N + 1
    BY <2>1
  <2> QED
    BY <2>1, <2>2, SourceType
<1>2. /\ parser.state = "content-length" /\ parser.begin = 0 /\ parser.length = 0
      /\ parser.pushed = << >> /\ parser \in Parser
  BY DEF Init, Parser
<1>3. TypeOK
  BY <1>1, <1>2 DEF Init, TypeOK, Interval
<1>4. Right(parser, received)
  BY <1>1, <1>2 DEF Init, Right
<1>5. Still(parser, received)
  BY <1>2 DEF Init, Still, Round, MinLength, PrefixMinLength
<1>6. FramesInv
  BY DEF Init, FramesInv, Chained, SentEnd
<1> QED
  BY <1>3, <1>4, <1>5, <1>6 DEF Inv, ParserInv

LEMMA TransformInv == Inv /\ Transform => Inv'
<1> SUFFICES ASSUME Inv, Transform PROVE Inv'
  OBVIOUS
<1>1. PICK r : r = received'
  OBVIOUS
<1>2. r \in 0 .. Source[N + 1] /\ received <= r /\ received \in Nat
  <2>1. N \in Nat
    BY SourceType
  <2>2. N + 1 \in 1 .. N + 1
    BY <2>1
  <2>3. Source[N + 1] \in Nat /\ received \in 0 .. Source[N + 1] /\ r \in received + 1 .. Source[N + 1]
    BY <1>1, <2>2, SourceType DEF Transform, Inv, TypeOK
  <2> QED
    BY <2>3
<1>3. Right(parser, r)
  <2>1. Right(parser, received) /\ parser.state # "failed" /\ parser \in Parser
    BY DEF Inv, ParserInv, Transform, TypeOK
  <2>2. parser.begin \in Nat
    BY <2>1 DEF Parser
  <2> QED
    BY <1>2, <2>1, <2>2 DEF Right
<1>4. parser' = Parse(parser, r)
  BY <1>1 DEF Transform
<1>5. /\ Right(parser', r) /\ Still(parser', r)
      /\ Len(parser'.pushed) >= Len(parser.pushed)
  BY <1>2, <1>3, <1>4, ParseRight
<1>6. ParserInv'
  BY <1>1, <1>5 DEF ParserInv
<1>7. TypeOK'
  <2>1. parser' \in Parser /\ parser \in Parser
    BY <1>3, <1>5 DEF Right
  <2>2. Len(parser'.pushed) \in Nat /\ Len(parser.pushed) \in Nat
    BY <2>1 DEF Parser
  <2>3. passed' \in 0 .. Len(parser'.pushed)
    BY <1>5, <2>2 DEF Inv, TypeOK, Transform
  <2> QED
    BY <1>1, <1>2, <2>1, <2>3 DEF Inv, TypeOK, Transform
<1>8. FramesInv'
  BY DEF Inv, FramesInv, Transform
<1> QED
  BY <1>6, <1>7, <1>8 DEF Inv

LEMMA MiddlewareInv == Inv /\ Middleware => Inv'
<1> SUFFICES ASSUME Inv, Middleware PROVE Inv'
  OBVIOUS
<1>1. ParserInv'
  BY DEF Inv, ParserInv, Middleware
<1>2. /\ received \in 0 .. Source[N + 1] /\ parser \in Parser /\ written \in Nat
      /\ socket \in {"connecting", "open", "closed"} /\ frames \in Seq(Interval)
      /\ buffer \in Interval /\ ended \in {"no", "yes", "final", "failed"}
      /\ passed \in 0 .. Len(parser.pushed) /\ passed < Len(parser.pushed)
      /\ passed' = passed + 1
      /\ UNCHANGED <<received, parser, socket, ended>>
  BY DEF Inv, TypeOK, Middleware, Unpassed
<1>3. passed' \in 0 .. Len(parser.pushed) /\ passed' \in 1 .. N
  <2>1. Len(parser.pushed) \in Nat /\ Len(parser.pushed) <= N /\ N \in Nat
    BY <1>2, SourceType DEF Inv, ParserInv, Right, Parser
  <2> QED
    BY <1>2, <2>1
<1>4. CASE UNCHANGED <<written, buffer, frames>>
  <2>1. TypeOK'
    BY <1>2, <1>3, <1>4 DEF TypeOK
  <2>2. FramesInv'
    BY <1>2, <1>4 DEF Inv, FramesInv
  <2> QED
    BY <1>1, <2>1, <2>2 DEF Inv
<1>5. CASE Write(HeaderSize(Rewritten[passed']) + Rewritten[passed'])
  <2>1. PICK size : size = HeaderSize(Rewritten[passed']) + Rewritten[passed']
    OBVIOUS
  <2>2. size \in Nat \ {0}
    <3>1. \A m \in 1 .. N : Rewritten[m] \in Nat
      <4>1. Rewritten \in Seq(Nat \ {0}) /\ Len(Rewritten) = N
        BY SizeAssumption
      <4> QED
        BY <4>1
    <3>2. Rewritten[passed'] \in Nat
      BY <1>3, <3>1
    <3>3. HeaderSize(Rewritten[passed']) \in Nat /\ HeaderSize(Rewritten[passed']) >= 21
      BY HeaderSizeType
    <3> QED
      BY <2>1, <3>2, <3>3
  <2>3. PICK w : w = written + size
    OBVIOUS
  <2>4. w \in Nat /\ written' = w /\ written < w
    BY <1>2, <1>5, <2>1, <2>2, <2>3 DEF Write
  <2>5. buffer[1] \in Nat
    BY <1>2 DEF Interval
  <2>6. CASE socket = "open"
    <3> DEFINE b == <<buffer[1], w>>
    <3>1. b \in Interval /\ b[1] = buffer[1] /\ b[2] = w
      BY <2>4, <2>5 DEF Interval
    <3>2. buffer[1] = SentEnd(frames) /\ SentEnd(frames) <= written /\ Chained(frames)
      BY <2>6 DEF Inv, FramesInv
    <3>3. frames' = frames \o Pieces(b) /\ buffer' = <<w, w>>
      BY <1>5, <2>4, <2>6 DEF Write, ClearBuffer
    <3>4. b[1] = SentEnd(frames) /\ b[1] < b[2]
      BY <1>2, <2>4, <2>5, <3>1, <3>2
    <3>5. frames' \in Seq(Interval) /\ Chained(frames') /\ SentEnd(frames') = w
      <4> HIDE DEF b
      <4> QED
        BY <1>2, <3>1, <3>2, <3>3, <3>4, SendPieces
    <3>6. TypeOK'
      BY <1>2, <1>3, <2>4, <3>3, <3>5 DEF TypeOK, Interval
    <3>7. FramesInv'
      BY <2>4, <3>3, <3>5 DEF FramesInv
    <3> QED
      BY <1>1, <3>6, <3>7 DEF Inv
  <2>7. CASE socket # "open"
    <3>1. buffer' = <<buffer[1], w>> /\ frames' = frames
      BY <1>5, <2>4, <2>7 DEF Write
    <3>2. TypeOK'
      BY <1>2, <1>3, <2>4, <2>5, <3>1 DEF TypeOK, Interval
    <3>3. FramesInv'
      <4>1. Chained(frames)
        BY DEF Inv, FramesInv
      <4>2. ASSUME socket # "closed"
            PROVE  buffer' = <<SentEnd(frames), w>> /\ SentEnd(frames) <= w
        <5>1. buffer[1] = SentEnd(frames) /\ SentEnd(frames) <= written
          BY <4>2 DEF Inv, FramesInv
        <5> QED
          BY <1>2, <2>4, <2>5, <3>1, <5>1
      <4> QED
        BY <1>2, <2>4, <3>1, <4>1, <4>2 DEF FramesInv
    <3> QED
      BY <1>1, <3>2, <3>3 DEF Inv
  <2> QED
    BY <2>6, <2>7
<1> QED
  BY <1>4, <1>5 DEF Middleware

LEMMA FinalInv == Inv /\ Final => Inv'
<1> SUFFICES ASSUME Inv, Final PROVE Inv'
  OBVIOUS
<1>1. ParserInv'
  BY DEF Inv, ParserInv, Final
<1>2. CASE UNCHANGED <<buffer, frames>>
  <2>1. TypeOK'
    BY <1>2 DEF Inv, TypeOK, Final
  <2>2. FramesInv'
    BY <1>2 DEF Inv, FramesInv, Final
  <2> QED
    BY <1>1, <2>1, <2>2 DEF Inv
<1>3. CASE buffer[1] # buffer[2] /\ socket = "open"
  <2>1. /\ buffer = <<SentEnd(frames), written>> /\ SentEnd(frames) <= written
        /\ Chained(frames) /\ buffer \in Interval /\ frames \in Seq(Interval) /\ written \in Nat
    BY <1>3 DEF Inv, FramesInv, TypeOK
  <2>2. SentEnd(frames) \in Nat /\ buffer[1] = SentEnd(frames) /\ buffer[2] = written
        /\ buffer[1] < buffer[2]
    BY <1>3, <2>1 DEF Interval
  <2>3. frames' = frames \o Pieces(buffer) /\ buffer' = <<written, written>>
    BY <1>3, <2>2 DEF Final, ClearBuffer
  <2>4. frames' \in Seq(Interval) /\ Chained(frames') /\ SentEnd(frames') = written
    BY <2>1, <2>2, <2>3, SendPieces
  <2>5. TypeOK'
    BY <1>3, <2>1, <2>3, <2>4 DEF Inv, TypeOK, Final, Interval
  <2>6. FramesInv'
    BY <2>1, <2>3, <2>4 DEF Final, FramesInv
  <2> QED
    BY <1>1, <2>5, <2>6 DEF Inv
<1>4. CASE buffer[1] # buffer[2] /\ socket = "closed"
  <2>1. buffer' = <<buffer[2], buffer[2]>> /\ frames' = frames /\ socket' = "closed"
    BY <1>4 DEF Final, ClearBuffer
  <2>2. TypeOK'
    BY <1>4, <2>1 DEF Inv, TypeOK, Final, Interval
  <2>3. FramesInv'
    BY <2>1 DEF Inv, FramesInv
  <2> QED
    BY <1>1, <2>2, <2>3 DEF Inv
<1> QED
  BY <1>2, <1>3, <1>4 DEF Final

LEMMA NextInv == Inv /\ [Next]_vars => Inv'
<1> SUFFICES ASSUME Inv, [Next]_vars PROVE Inv'
  OBVIOUS
<1>1. CASE End \/ Open \/ Close
  <2>1. TypeOK'
    BY <1>1 DEF Inv, TypeOK, End, Open, Close
  <2>2. ParserInv'
    BY <1>1 DEF Inv, ParserInv, End, Open, Close
  <2>3. FramesInv'
    BY <1>1 DEF Inv, FramesInv, End, Open, Close
  <2> QED
    BY <2>1, <2>2, <2>3 DEF Inv
<1>2. CASE UNCHANGED vars
  BY <1>2 DEF Inv, TypeOK, ParserInv, FramesInv, vars
<1> QED
  BY <1>1, <1>2, TransformInv, MiddlewareInv, FinalInv DEF Next

-----------------------------------------------------------------------------
(* Theorems *)

\* The stream's variables have their types, whatever the sizes and the chunks.
THEOREM TypeCorrect == Spec => []TypeOK
<1>1. Inv => TypeOK
  BY DEF Inv
<1> QED
  BY <1>1, InitInv, NextInv, PTL DEF Spec

\* However the source is cut, ToLSTransform pushes the bodies of its messages in
\* order, and leaves none that has come in _curChunk (LSTransform.ts:46-142).
THEOREM BodiesInOrder == Spec => []PushedInOrder
<1>1. Inv => PushedInOrder
  <2> SUFFICES ASSUME Inv PROVE PushedInOrder
    OBVIOUS
  <2> DEFINE n == Len(parser.pushed)
  <2>1. /\ Right(parser, received) /\ parser \in Parser /\ received \in Nat
        /\ parser.begin \in Nat /\ n \in Nat /\ n <= N /\ N \in Nat
    <3>1. N + 1 \in 1 .. N + 1 /\ N \in Nat
      <4>1. N \in Nat
        BY SourceType
      <4> QED
        BY <4>1
    <3>2. Source[N + 1] \in Nat
      BY <3>1, SourceType
    <3> QED
      BY <3>1, <3>2 DEF Inv, TypeOK, ParserInv, Right, Parser
  <2>2. ASSUME parser.state # "failed", NEW k \in 1 .. N, Source[k + 1] <= received, ~(k <= n)
        PROVE  FALSE
    <3>1. n + 1 \in 1 .. N /\ n + 1 \in 1 .. N + 1 /\ (n + 1) + 1 \in 1 .. N + 1
          /\ k + 1 \in 1 .. N + 1 /\ ((n + 1) + 1 = k + 1 \/ (n + 1) + 1 < k + 1)
      BY <2>1, <2>2
    <3>2. Source[n + 1] \in Nat /\ Source[(n + 1) + 1] \in Nat /\ Source[k + 1] \in Nat
      BY <3>1, SourceType
    <3>3. Source[(n + 1) + 1] <= received
      BY <2>1, <2>2, <3>1, <3>2, SourceGrows, SMTT(30)
    <3>4. Source[(n + 1) + 1] = Source[n + 1] + HeaderSize(Bodies[n + 1]) + Bodies[n + 1]
      BY <3>1, SourceType
    <3>5. HeaderSize(Bodies[n + 1]) \in Nat /\ HeaderSize(Bodies[n + 1]) >= 21 /\ Bodies[n + 1] \in Nat
      BY <3>1, SourceType, HeaderSizeType
    <3>6. Still(parser, received)
      BY <2>2 DEF Inv, ParserInv
    <3>7. CASE parser.state = "content-length"
      <4>1. parser.begin = Source[n + 1]
        BY <2>1, <3>7 DEF Right
      <4>2. PICK a, h, b, e, r : a = Source[n + 1] /\ h = HeaderSize(Bodies[n + 1]) /\ b = Bodies[n + 1]
                                   /\ e = Source[(n + 1) + 1] /\ r = received
        OBVIOUS
      <4>3. /\ a \in Nat /\ h \in Nat /\ b \in Nat /\ e \in Nat /\ r \in Nat
             /\ h >= 21 /\ e = a + h + b /\ e <= r
        BY <2>1, <3>2, <3>3, <3>4, <3>5, <4>2
      <4>4. r >= a + 21
        BY <4>3
      <4>5. received >= parser.begin + MinLength
        BY <4>1, <4>2, <4>4 DEF MinLength, PrefixMinLength
      <4>6. Round(parser, received) = ParseHeader(parser, received)
        BY <3>7, <4>5 DEF Round
      <4>7. ParseHeader(parser, received).state # "content-length"
        BY <2>1 DEF ParseHeader, Parser
      <4> QED
        BY <3>6, <3>7, <4>6, <4>7 DEF Still
    <3>8. CASE parser.state = "jsonrpc"
      <4>1. received >= parser.begin + parser.length
        BY <2>1, <3>2, <3>3, <3>4, <3>5, <3>8 DEF Right
      <4>2. Round(parser, received) = Push(parser)
        BY <3>8, <4>1 DEF Round
      <4>3. Push(parser).state = "content-length"
        BY <2>1 DEF Push, Parser
      <4> QED
        BY <3>6, <3>8, <4>2, <4>3 DEF Still
    <3> QED
      BY <2>1, <2>2, <3>7, <3>8 DEF Parser
  <2> QED
    BY <2>1, <2>2 DEF PushedInOrder, Right
<1> QED
  BY <1>1, InitInv, NextInv, PTL DEF Spec

\* The only source of well-formed messages that makes the stream fail is one whose
\* chunk ends inside a header, after its 21st byte (LSTransform.ts:74, 102-117).
THEOREM OnlyCutHeaderFails == Spec => []FailsOnCutHeader
<1>1. Inv => FailsOnCutHeader
  <2> SUFFICES ASSUME Inv, parser.state = "failed"
               PROVE  \E k \in 1 .. N : /\ received - Source[k] \in 21 .. HeaderSize(Bodies[k]) - 1
                                        /\ received >= Source[k]
    BY DEF FailsOnCutHeader
  <2> DEFINE k == Len(parser.pushed) + 1
  <2>1. /\ Len(parser.pushed) < N /\ parser \in Parser
        /\ Source[k] + 21 <= received /\ received < Source[k] + HeaderSize(Bodies[k])
    BY DEF Inv, ParserInv, Right
  <2>2. N \in Nat /\ Len(parser.pushed) \in Nat
    BY <2>1, SourceType DEF Parser
  <2>3. k \in 1 .. N /\ k \in 1 .. N + 1 /\ N + 1 \in 1 .. N + 1
    BY <2>1, <2>2
  <2>4. Source[k] \in Nat /\ Source[N + 1] \in Nat /\ HeaderSize(Bodies[k]) \in Nat
    BY <2>3, SourceType, HeaderSizeType
  <2>5. received \in Nat
    BY <2>4 DEF Inv, TypeOK
  <2> HIDE DEF k
  <2> QED
    BY <2>1, <2>3, <2>4, <2>5
<1> QED
  BY <1>1, InitInv, NextInv, PTL DEF Spec

\* What goes over the socket is what was written, each byte once and in order, in
\* pieces of at most chunkSize, and the rest is buffered (WSStream.ts:144-170, 252-262).
THEOREM SentInOrder == Spec => []FramesInOrder
<1>1. Inv => FramesInOrder
  BY DEF Inv, FramesInv, FramesInOrder, Chained, Piece, SentEnd
<1> QED
  BY <1>1, InitInv, NextInv, PTL DEF Spec

-----------------------------------------------------------------------------
(* Messages at the other side of the WebSocket *)

LEMMA SizeType == \A k \in 1 .. N : Size(k) \in Nat /\ (k \notin Dropped => Size(k) > 0)
<1> SUFFICES ASSUME NEW k \in 1 .. N PROVE Size(k) \in Nat /\ (k \notin Dropped => Size(k) > 0)
  OBVIOUS
<1>1. Rewritten \in Seq(Nat \ {0}) /\ Len(Rewritten) = N
  BY SizeAssumption
<1>2. Rewritten[k] \in Nat
  BY <1>1
<1>3. HeaderSize(Rewritten[k]) \in Nat /\ HeaderSize(Rewritten[k]) >= 21
  BY HeaderSizeType
<1> QED
  BY <1>2, <1>3 DEF Size

LEMMA TargetIsSum ==
    /\ Target[0] = 0
    /\ \A k \in 0 .. N : Target[k] \in Nat
    /\ \A k \in 1 .. N : Target[k] = Target[k - 1] + Size(k)
<1> DEFINE Define(f) == [k \in 0 .. N |-> IF k = 0 THEN 0 ELSE f[k - 1] + Size(k)]
           next == [k \in Int |-> [v \in Nat |-> IF k \in 1 .. N THEN v + Size(k) ELSE 0]]
<1>1. N \in Nat
  BY SourceType
<1>2. next \in [Int -> [Nat -> Nat]]
  BY SizeType
<1>3. PICK f : IsRecursion(f, Nat, 0, 0, N, next)
  <2> HIDE DEF next
  <2>1. 0 \in Int /\ 0 \in Nat
    OBVIOUS
  <2> QED
    BY <1>1, <1>2, <2>1, RecursionExists
<1>4. f \in [0 .. N -> Nat] /\ f[0] = 0 /\ \A k \in 1 .. N : f[k] = next[k][f[k - 1]]
  <2> HIDE DEF next
  <2> QED
    BY <1>1, <1>3 DEF IsRecursion
<1>5. \A k \in 1 .. N : f[k] = f[k - 1] + Size(k)
  <2> SUFFICES ASSUME NEW k \in 1 .. N PROVE f[k] = f[k - 1] + Size(k)
    OBVIOUS
  <2>1. k - 1 \in 0 .. N /\ k \in Int
    BY <1>1
  <2> QED
    BY <1>4, <2>1
<1>6. f = Define(f)
  <2>1. ASSUME NEW k \in 0 .. N PROVE f[k] = Define(f)[k]
    BY <1>1, <1>4, <1>5
  <2> QED
    BY <1>4, <2>1
<1>7. Target = CHOOSE g : g = Define(g)
  BY DEF Target
<1>8. PICK g : g = Target
  OBVIOUS
<1>9. g = Define(g)
  <2> HIDE DEF Define
  <2> QED
    BY <1>6, <1>7, <1>8
<1>10. g[0] = 0 /\ \A k \in 1 .. N : g[k] = g[k - 1] + Size(k)
  <2>1. g[0] = 0
    BY <1>1, <1>9
  <2>2. ASSUME NEW k \in 1 .. N PROVE g[k] = g[k - 1] + Size(k)
    BY <1>1, <1>9
  <2> QED
    BY <2>1, <2>2
<1>11. \A k \in 0 .. N : g[k] \in Nat
  <2> DEFINE T == {k \in Nat : k \in 0 .. N => g[k] \in Nat}
  <2>1. 0 \in T
    BY <1>10
  <2>2. ASSUME NEW k \in Nat, k \in T PROVE k + 1 \in T
    <3> SUFFICES ASSUME k + 1 \in 0 .. N PROVE g[k + 1] \in Nat
      OBVIOUS
    <3>1. k + 1 \in 1 .. N /\ (k + 1) - 1 = k /\ k \in 0 .. N
      BY <1>1
    <3>2. g[k] \in Nat /\ Size(k + 1) \in Nat
      BY <2>2, <3>1, SizeType
    <3> QED
      BY <1>10, <3>1, <3>2
  <2>3. Nat \subseteq T
    <3> HIDE DEF T
    <3> QED
      BY <2>1, <2>2, NatSetInduction
  <2> QED
    BY <2>3
<1> QED
  BY <1>8, <1>10, <1>11

\* Only a message that is dropped takes no room.
LEMMA TargetGrows ==
    ASSUME NEW j \in 0 .. N, NEW k \in 0 .. N, j < k
    PROVE  Target[j] <= Target[k] /\ (k \notin Dropped => Target[j] < Target[k])
<1> DEFINE T == {m \in Nat : j + m \in 0 .. N => Target[j] <= Target[j + m]}
<1>0. N \in Nat /\ Target[j] \in Nat
  BY SourceType, TargetIsSum
<1>1. 0 \in T
  BY <1>0
<1>2. ASSUME NEW m \in Nat, m \in T PROVE m + 1 \in T
  <2> SUFFICES ASSUME j + (m + 1) \in 0 .. N PROVE Target[j] <= Target[j + (m + 1)]
    OBVIOUS
  <2>1. j + m \in 0 .. N /\ j + (m + 1) \in 1 .. N /\ (j + (m + 1)) - 1 = j + m
    BY <1>0
  <2>2. /\ Target[j + (m + 1)] = Target[j + m] + Size(j + (m + 1))
        /\ Size(j + (m + 1)) \in Nat /\ Target[j + m] \in Nat
    BY <2>1, TargetIsSum, SizeType
  <2> QED
    BY <1>0, <1>2, <2>1, <2>2
<1>3. Nat \subseteq T
  <2> HIDE DEF T
  <2> QED
    BY <1>1, <1>2, NatSetInduction
<1>4. PICK m \in Nat : k - 1 = j + m
  <2>1. (k - 1) - j \in Nat /\ k - 1 = j + ((k - 1) - j)
    BY <1>0
  <2> QED
    BY <2>1
<1>5. m \in T
  BY <1>3
<1>6. k - 1 \in 0 .. N /\ k \in 1 .. N
  BY <1>0
<1>7. Target[j] <= Target[k - 1] /\ Target[k - 1] \in Nat
  BY <1>4, <1>5, <1>6, TargetIsSum
<1>8. /\ Target[k] = Target[k - 1] + Size(k)
      /\ Size(k) \in Nat /\ (k \notin Dropped => Size(k) > 0)
  BY <1>6, TargetIsSum, SizeType
<1> QED
  BY <1>0, <1>7, <1>8

LEMMA ChainGrows ==
    ASSUME NEW fs \in Seq(Interval), Chained(fs), NEW i \in DOMAIN fs
    PROVE  /\ fs[i][2] \in Nat /\ SentEnd(fs) \in Nat
           /\ fs[i][2] <= SentEnd(fs) /\ Follow(fs, i)
<1>1. PICK n : n = Len(fs)
  OBVIOUS
<1>2. /\ n \in Nat /\ DOMAIN fs = 1 .. n /\ fs # << >>
      /\ \A j \in 1 .. n : fs[j] \in Interval
  BY <1>1
<1>3. \A j \in 1 .. n : fs[j][1] \in Nat /\ fs[j][2] \in Nat /\ fs[j][1] < fs[j][2]
  BY <1>2 DEF Interval, Chained, Piece
<1>4. \A j \in 1 .. n : fs[j][1] = IF j = 1 THEN 0 ELSE fs[j - 1][2]
  BY <1>2 DEF Chained
<1> DEFINE T == {m \in Nat : i + m \in 1 .. n => fs[i][2] <= fs[i + m][2]}
<1>5. 0 \in T
  BY <1>2, <1>3
<1>6. ASSUME NEW m \in Nat, m \in T PROVE m + 1 \in T
  <2> SUFFICES ASSUME i + (m + 1) \in 1 .. n PROVE fs[i][2] <= fs[i + (m + 1)][2]
    OBVIOUS
  <2>1. i + m \in 1 .. n /\ i + (m + 1) # 1 /\ (i + (m + 1)) - 1 = i + m /\ i \in 1 .. n
    BY <1>2
  <2>2. fs[i + (m + 1)][1] = fs[i + m][2]
    BY <1>4, <2>1
  <2>3. fs[i + (m + 1)][1] < fs[i + (m + 1)][2] /\ fs[i][2] <= fs[i + m][2]
    BY <1>3, <1>6, <2>1
  <2>4. fs[i][2] \in Nat /\ fs[i + m][2] \in Nat /\ fs[i + (m + 1)][2] \in Nat
    BY <1>3, <2>1
  <2> QED
    BY <2>2, <2>3, <2>4
<1>7. Nat \subseteq T
  <2> HIDE DEF T
  <2> QED
    BY <1>5, <1>6, NatSetInduction
<1>8. n - i \in T /\ i + (n - i) = n /\ i \in 1 .. n /\ n \in 1 .. n
  BY <1>2, <1>7
<1>9. SentEnd(fs) = fs[n][2]
  BY <1>1, <1>2 DEF SentEnd
<1>10. Follow(fs, i)
  BY <1>2, <1>4, <1>8 DEF Follow
<1> QED
  BY <1>3, <1>8, <1>9, <1>10

\* What has arrived are the messages that end within the bytes sent.
LEMMA ArrivedIsSent ==
    ASSUME NEW fs \in Seq(Interval), Chained(fs)
    PROVE  Arrived(fs) = {k \in (1 .. N) \ Dropped : Target[k] <= SentEnd(fs)}
<1> SUFFICES ASSUME NEW k \in (1 .. N) \ Dropped
             PROVE  (\E i \in DOMAIN fs : Follow(fs, i) /\ Target[k] <= fs[i][2])
                      <=> Target[k] <= SentEnd(fs)
  BY DEF Arrived
<1>1. Target[k] \in Nat /\ Target[k] > 0 /\ k \in 1 .. N
  <2>1. k \in 1 .. N /\ k \in 0 .. N /\ 0 \in 0 .. N /\ 0 < k
    BY SourceType
  <2>2. Target[0] < Target[k]
    BY <2>1, TargetGrows
  <2> QED
    BY <2>1, <2>2, TargetIsSum
<1>2. ASSUME NEW i \in DOMAIN fs, Target[k] <= fs[i][2] PROVE Target[k] <= SentEnd(fs)
  BY <1>1, <1>2, ChainGrows
<1>3. ASSUME Target[k] <= SentEnd(fs)
      PROVE  \E i \in DOMAIN fs : Follow(fs, i) /\ Target[k] <= fs[i][2]
  <2>1. fs # << >>
    BY <1>1, <1>3 DEF SentEnd
  <2>2. Len(fs) \in DOMAIN fs /\ SentEnd(fs) = fs[Len(fs)][2]
    BY <2>1 DEF SentEnd
  <2>3. Follow(fs, Len(fs))
    BY <2>2, ChainGrows
  <2> QED
    BY <1>3, <2>2, <2>3
<1> QED
  BY <1>2, <1>3

LEMMA ArrivedUpTo ==
    ASSUME NEW fs \in Seq(Interval), Chained(fs), NEW n \in 0 .. N, SentEnd(fs) = Target[n]
    PROVE  Arrived(fs) = (1 .. n) \ Dropped
<1>1. N \in Nat /\ Target[n] \in Nat
  BY SourceType, TargetIsSum
<1>2. ASSUME NEW k \in (1 .. N) \ Dropped PROVE Target[k] <= Target[n] <=> k <= n
  <2>1. k \in 0 .. N /\ Target[k] \in Nat
    BY <1>1, TargetIsSum
  <2>2. CASE k < n
    BY <2>1, <2>2, TargetGrows
  <2>3. CASE k = n
    BY <1>1, <2>3
  <2>4. CASE n < k
    <3>1. Target[n] < Target[k]
      BY <2>1, <2>4, TargetGrows
    <3> QED
      BY <1>1, <2>1, <2>4, <3>1
  <2> QED
    BY <1>1, <2>2, <2>3, <2>4
<1>3. Arrived(fs) = {k \in (1 .. N) \ Dropped : Target[k] <= Target[n]}
  BY ArrivedIsSent
<1> QED
  BY <1>1, <1>2, <1>3

LEMMA NothingArrived == Arrived(<< >>) = {}
BY DEF Arrived

LEMMA SentEndType ==
    ASSUME NEW fs \in Seq(Interval), Chained(fs)
    PROVE  SentEnd(fs) \in Nat
<1>1. CASE fs = << >>
  BY <1>1 DEF SentEnd
<1>2. CASE fs # << >>
  <2>1. Len(fs) \in DOMAIN fs
    BY <1>2
  <2> QED
    BY <2>1, ChainGrows
<1> QED
  BY <1>1, <1>2

\* All that was written are the messages passed on, and no more was sent.
RelayInv == written = Target[passed] /\ SentEnd(frames) <= written

LEMMA ExtractedAll == ASSUME ParserInv PROVE Extracted = 1 .. Len(parser.pushed)
BY DEF ParserInv, Right, Parser, Extracted

LEMMA RelayStarts == Init => RelayInv /\ Messages!Init
<1> SUFFICES ASSUME Init PROVE RelayInv /\ Messages!Init
  OBVIOUS
<1>1. RelayInv
  BY TargetIsSum DEF Init, RelayInv, SentEnd
<1>2. Extracted = {} /\ Arrived(frames) = {}
  BY NothingArrived DEF Init, Extracted
<1>3. parser.state # "failed"
  BY DEF Init
<1> QED
  BY <1>1, <1>2, <1>3 DEF Init, Messages!Init

LEMMA TransformRelays == Inv /\ RelayInv /\ Transform => RelayInv' /\ Messages!Take
<1> SUFFICES ASSUME Inv, RelayInv, Transform PROVE RelayInv' /\ Messages!Take
  OBVIOUS
<1>1. Inv' /\ ParserInv /\ ParserInv'
  BY TransformInv DEF Inv
<1>2. Extracted = 1 .. Len(parser.pushed)
  BY <1>1, ExtractedAll
<1>3. Extracted' = 1 .. Len(parser'.pushed)
  <2>1. (ParserInv => Extracted = 1 .. Len(parser.pushed))'
    BY ExtractedAll, PTL
  <2> QED
    BY <1>1, <2>1
<1>4. /\ Len(parser.pushed) \in Nat /\ Len(parser'.pushed) \in 0 .. N
      /\ Len(parser.pushed) <= Len(parser'.pushed)
  <2>1. PICK r : r = received'
    OBVIOUS
  <2>2. r \in 0 .. Source[N + 1] /\ Right(parser, r)
    <3>1. N \in Nat
      BY SourceType
    <3>2. N + 1 \in 1 .. N + 1
      BY <3>1
    <3>3. /\ Source[N + 1] \in Nat /\ received \in 0 .. Source[N + 1]
          /\ r \in received + 1 .. Source[N + 1]
      BY <2>1, <3>2, SourceType DEF Transform, Inv, TypeOK
    <3>4. /\ Right(parser, received) /\ parser.state # "failed"
          /\ parser \in Parser
      BY DEF Inv, ParserInv, Transform, TypeOK
    <3>5. parser.begin \in Nat
      BY <3>4 DEF Parser
    <3> QED
      BY <3>3, <3>4, <3>5 DEF Right
  <2>3. parser' = Parse(parser, r)
    BY <2>1 DEF Transform
  <2>4. Len(parser'.pushed) >= Len(parser.pushed)
    BY <2>2, <2>3, ParseRight
  <2>5. /\ parser \in Parser /\ parser' \in Parser
        /\ Len(parser'.pushed) <= N
    BY <1>1 DEF ParserInv, Right
  <2>6. Len(parser.pushed) \in Nat /\ Len(parser'.pushed) \in Nat
    BY <2>5 DEF Parser
  <2> QED
    BY <2>4, <2>5, <2>6, SourceType
<1>5. UNCHANGED <<passed, socket, written, frames>> /\ parser.state # "failed"
  BY DEF Transform
<1>6. RelayInv'
  BY <1>5 DEF RelayInv
<1>7. UNCHANGED <<passed, Arrived(frames), socket>>
  BY <1>5
<1>8. Extracted \subseteq Extracted' /\ \E n \in 0 .. N : Extracted' = 1 .. n
  BY <1>2, <1>3, <1>4
<1> QED
  BY <1>5, <1>6, <1>7, <1>8 DEF Messages!Take

\* A message that is kept comes out with all before it, if the socket is open.
LEMMA MiddlewareRelays == Inv /\ RelayInv /\ Middleware => RelayInv' /\ Messages!Pass
<1> SUFFICES ASSUME Inv, RelayInv, Middleware PROVE RelayInv' /\ Messages!Pass
  OBVIOUS
<1>1. PICK n : n = passed'
  OBVIOUS
<1>2. /\ n = passed + 1 /\ passed \in Nat /\ n \in 1 .. Len(parser.pushed) /\ n \in 1 .. N
      /\ n - 1 = passed /\ UNCHANGED <<parser, socket>>
  <2>1. parser \in Parser /\ passed \in 0 .. Len(parser.pushed) /\ passed < Len(parser.pushed)
    BY DEF Inv, TypeOK, Middleware, Unpassed
  <2>2. Len(parser.pushed) \in Nat /\ Len(parser.pushed) <= N /\ N \in Nat
    BY <2>1, SourceType DEF Inv, ParserInv, Right, Parser
  <2> QED
    BY <1>1, <2>1, <2>2 DEF Middleware
<1>3. /\ written \in Nat /\ written = Target[passed] /\ Target[n] = written + Size(n)
      /\ Size(n) \in Nat
  BY <1>2, TargetIsSum, SizeType DEF Inv, TypeOK, RelayInv
<1>4. n \in Extracted
  BY <1>2, ExtractedAll DEF Inv
<1>5. UNCHANGED <<Extracted, parser.state = "failed", socket>>
  BY <1>2 DEF Extracted
<1>6. SentEnd(frames) <= written
  BY DEF RelayInv
<1>7. CASE n \in Dropped
  <2>1. UNCHANGED <<written, frames>>
    BY <1>1, <1>7 DEF Middleware
  <2>2. Size(n) = 0
    BY <1>7 DEF Size
  <2>3. RelayInv'
    BY <1>1, <1>3, <1>6, <2>1, <2>2 DEF RelayInv
  <2>4. Arrived(frames)' = Arrived(frames)
    BY <2>1
  <2> QED
    BY <1>1, <1>2, <1>4, <1>5, <1>7, <2>3, <2>4 DEF Messages!Pass
<1>8. CASE n \notin Dropped
  <2>1. Write(Size(n))
    BY <1>1, <1>8 DEF Middleware, Size
  <2>2. written' = Target[n] /\ written < Target[n]
    BY <1>2, <1>3, <1>8, <2>1, SizeType DEF Write
  <2>3. CASE socket # "open"
    <3>1. frames' = frames
      BY <2>1, <2>3 DEF Write
    <3>2. SentEnd(frames) \in Int
      BY SentEndType DEF Inv, FramesInv, TypeOK
    <3>3. RelayInv'
      BY <1>1, <1>3, <1>6, <2>2, <3>1, <3>2 DEF RelayInv
    <3>4. Arrived(frames)' = Arrived(frames)
      BY <3>1
    <3> QED
      BY <1>1, <1>2, <1>4, <1>5, <2>3, <3>3, <3>4 DEF Messages!Pass
  <2>4. CASE socket = "open"
    <3>1. /\ buffer = <<SentEnd(frames), written>> /\ Chained(frames)
          /\ frames \in Seq(Interval) /\ buffer \in Interval
      BY <2>4 DEF Inv, FramesInv, TypeOK
    <3>2. PICK b : b = <<buffer[1], Target[n]>>
      OBVIOUS
    <3>3. /\ b \in Interval /\ b[1] = SentEnd(frames) /\ b[2] = Target[n]
          /\ SentEnd(frames) \in Nat
      <4>1. Target[n] \in Nat
        BY <1>3
      <4> QED
        BY <3>1, <3>2, <4>1 DEF Interval
    <3>4. b[1] < b[2]
      BY <1>3, <1>6, <2>2, <3>3
    <3>5. frames' = frames \o Pieces(b)
      BY <2>1, <2>2, <2>4, <3>2 DEF Write
    <3>6. frames' \in Seq(Interval) /\ Chained(frames') /\ SentEnd(frames') = Target[n]
      BY <3>1, <3>3, <3>4, <3>5, SendPieces
    <3>7. RelayInv'
      BY <1>1, <1>3, <2>2, <3>6 DEF RelayInv
    <3>8. Arrived(frames)' = (1 .. n) \ Dropped
      <4>1. PICK fs : fs = frames'
        OBVIOUS
      <4>2. n \in 0 .. N
        BY <1>2
      <4>3. Arrived(fs) = (1 .. n) \ Dropped
        BY <3>6, <4>1, <4>2, ArrivedUpTo
      <4>4. Arrived(frames)' = Arrived(frames')
        BY DEF Arrived, Follow
      <4> QED
        BY <4>1, <4>3, <4>4
    <3> QED
      BY <1>1, <1>2, <1>4, <1>5, <1>8, <2>4, <3>7, <3>8 DEF Messages!Pass, Messages!Kept
  <2> QED
    BY <2>3, <2>4
<1> QED
  BY <1>7, <1>8

LEMMA FinalRelays ==
    Inv /\ RelayInv /\ Final =>
      RelayInv' /\ (Messages!Flush \/ UNCHANGED Messages!vars)
<1> SUFFICES ASSUME Inv, RelayInv, Final
             PROVE  RelayInv' /\ (Messages!Flush \/ UNCHANGED Messages!vars)
  OBVIOUS
<1>1. UNCHANGED <<parser, passed, socket, written>>
  BY DEF Final
<1>2. UNCHANGED <<Extracted, parser.state = "failed", passed, socket>>
  BY <1>1 DEF Extracted
<1>3. CASE UNCHANGED frames
  <2>1. UNCHANGED Arrived(frames)
    BY <1>3
  <2>2. RelayInv'
    BY <1>1, <1>3 DEF RelayInv
  <2> QED
    BY <1>2, <2>1, <2>2 DEF Messages!vars
<1>4. CASE socket = "open" /\ buffer[1] # buffer[2] /\ frames' = frames \o Pieces(buffer)
  <2>1. /\ buffer = <<SentEnd(frames), written>> /\ SentEnd(frames) <= written
        /\ Chained(frames) /\ frames \in Seq(Interval) /\ buffer \in Interval
        /\ written \in Nat
    BY <1>4 DEF Inv, FramesInv, TypeOK
  <2>2. buffer[1] = SentEnd(frames) /\ buffer[2] = written /\ buffer[1] < buffer[2]
    BY <1>4, <2>1 DEF Interval
  <2>3. frames' \in Seq(Interval) /\ Chained(frames') /\ SentEnd(frames') = written
    BY <1>4, <2>1, <2>2, SendPieces
  <2>4. RelayInv'
    BY <1>1, <2>1, <2>3 DEF RelayInv
  <2>5. Arrived(frames)' = (1 .. passed) \ Dropped
    <3>1. PICK fs : fs = frames'
      OBVIOUS
    <3>2. passed \in 0 .. N /\ written = Target[passed]
      <4>1. parser \in Parser /\ passed \in 0 .. Len(parser.pushed)
        BY DEF Inv, TypeOK
      <4>2. Len(parser.pushed) \in Nat /\ Len(parser.pushed) <= N /\ N \in Nat
        BY <4>1, SourceType DEF Inv, ParserInv, Right, Parser
      <4> QED
        BY <4>1, <4>2 DEF RelayInv
    <3>3. Arrived(fs) = (1 .. passed) \ Dropped
      BY <2>3, <3>1, <3>2, ArrivedUpTo
    <3>4. Arrived(frames)' = Arrived(frames')
      BY DEF Arrived, Follow
    <3> QED
      BY <3>1, <3>3, <3>4
  <2> QED
    BY <1>2, <1>4, <2>4, <2>5 DEF Messages!Flush, Messages!Kept
<1> QED
  BY <1>3, <1>4 DEF Final

LEMMA StepRelays == Inv /\ RelayInv /\ [Next]_vars => RelayInv' /\ [Messages!Next]_Messages!vars
<1> SUFFICES ASSUME Inv, RelayInv, [Next]_vars
             PROVE  RelayInv' /\ [Messages!Next]_Messages!vars
  OBVIOUS
<1>1. CASE Transform
  BY <1>1, TransformRelays DEF Messages!Next
<1>2. CASE Middleware
  BY <1>2, MiddlewareRelays DEF Messages!Next
<1>3. CASE Final
  BY <1>3, FinalRelays DEF Messages!Next
<1>4. CASE End \/ Open \/ Close \/ UNCHANGED vars
  <2>1. UNCHANGED <<parser, passed, written, frames>>
    BY <1>4 DEF End, Open, Close, vars
  <2>2. UNCHANGED <<Extracted, parser.state = "failed", passed, Arrived(frames)>>
    BY <2>1 DEF Extracted
  <2>3. RelayInv'
    BY <2>1 DEF RelayInv
  <2>4. CASE Open
    BY <2>2, <2>3, <2>4 DEF Open, Messages!Connect, Messages!Next
  <2>5. CASE Close
    BY <2>2, <2>3, <2>5 DEF Close, Messages!Disconnect, Messages!Next
  <2>6. CASE End \/ UNCHANGED vars
    <3>1. socket' = socket
      BY <2>6 DEF End, vars
    <3> QED
      BY <2>2, <2>3, <3>1 DEF Messages!vars
  <2> QED
    BY <1>4, <2>4, <2>5, <2>6
<1> QED
  BY <1>1, <1>2, <1>3, <1>4 DEF Next

\* However the source is cut into chunks and whenever the socket opens, the streams
\* are a relay of messages: those that the middleware keeps come out whole, in order
\* and once, each as soon as it is written to a socket that is open, and what had to
\* wait comes out before it (LSTransform.ts:46-153, 185-275, WSStream.ts:131-231).
THEOREM FramingImplementsRelay == Spec => Relayed
<1>1. Spec => [](Inv /\ RelayInv)
  <2>1. Init => Inv /\ RelayInv
    BY InitInv, RelayStarts
  <2>2. Inv /\ RelayInv /\ [Next]_vars => (Inv /\ RelayInv)'
    BY NextInv, StepRelays
  <2> QED
    BY <2>1, <2>2, PTL DEF Spec
<1>2. Init => Messages!Init
  BY RelayStarts
<1>3. Inv /\ RelayInv /\ [Next]_vars => [Messages!Next]_Messages!vars
  BY StepRelays
<1> QED
  BY <1>1, <1>2, <1>3, PTL DEF Spec, Relayed, Messages!Spec
=============================================================================
