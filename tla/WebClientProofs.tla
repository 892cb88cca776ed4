--------------------------- MODULE WebClientProofs ---------------------------
(***************************************************************************)
(* Proofs about WebClient, for every turn, any number of sessions and any  *)
(* bounds on the messages sent and the histories under way.                *)
(*                                                                         *)
(* The inductive invariant has five layers: StreamingInv (what streams is  *)
(* the latest), TypeInv, AnswerInv (the accumulator holds what has come of *)
(* the turn under way), SessionInv (what is under way belongs to the       *)
(* session on display) and DisplayInv (what was received is shown, and     *)
(* the list is what the server has or is about to store).  Each is kept by *)
(* a step that starts in it and in the layers before it.                   *)
(*                                                                         *)
(* What an answer consists of is data: InOrder chooses a sequence, and     *)
(* that there is one, and only one, for every prefix of a turn is shown by *)
(* a smallest counterexample, which exists because < is well founded.      *)
(***************************************************************************)
EXTENDS WebClient, WellFoundedInduction, TLAPS

-----------------------------------------------------------------------------
(* What an answer is made of after so many events of its turn *)

Positions(kind, n) == {i \in 1..n : Turn[i] = kind}

IsInOrder(e, S) ==
  /\ e \in Seq(S)
  /\ \A k, l \in DOMAIN e : k < l => e[k] < e[l]
  /\ \A i \in S : \E k \in DOMAIN e : e[k] = i

ContentUpTo(s, n) ==
  LET e == InOrder(Positions("LLMChunk", n)) IN [k \in DOMAIN e |-> <<s, e[k]>>]

\* The call that began at i is over.
Ended(i, n) == \E j \in 1..n : Turn[j] = "ToolEnd" /\ CallOf[j] = i

CallsUpTo(s, n) ==
  LET e == InOrder(Positions("ToolStart", n)) IN
    [k \in DOMAIN e |->
       [by |-> s, at |-> e[k], status |-> IF Ended(e[k], n) THEN "success" ELSE "running"]]

Got(s) == Len(Turn) - Len(remaining[s])

-----------------------------------------------------------------------------
(* Enumerations of the positions of a turn *)

N == Len(Turn)

LEMMA TurnIsASequence == N \in Nat /\ N > 0 /\ DOMAIN Turn = 1..N
BY TurnAssumption DEF N

\* Natural numbers have no infinite descent: what induction on data rests on.
LEMMA SmallestElement ==
  ASSUME NEW S \in SUBSET Nat, S # {}
  PROVE  \E m \in S : \A k \in S : m <= k
<1>1. PICK m \in S : \A k \in S : <<k, m>> \notin OpToRel(<, Nat)
  BY WFMin, NatLessThanWellFounded, Zenon
<1>2. \A k \in S : k \in Nat /\ m \in Nat => ~(k < m)
  BY <1>1, Zenon DEF OpToRel
<1> QED
  BY <1>2

\* Two enumerations of a set agree where both are defined, and neither ends
\* before the other.
LEMMA OneEnumeration ==
  ASSUME NEW S \in SUBSET Nat, NEW e, NEW f, IsInOrder(e, S), IsInOrder(f, S)
  PROVE  e = f
<1>1. e \in Seq(S) /\ f \in Seq(S) /\ DOMAIN e = 1..Len(e) /\ DOMAIN f = 1..Len(f)
      /\ Len(e) \in Nat /\ Len(f) \in Nat
  BY DEF IsInOrder
<1>2. ASSUME NEW a, NEW b, IsInOrder(a, S), IsInOrder(b, S),
             NEW k \in Nat, k \in 1..Len(a), k \in 1..Len(b), \A i \in 1..(k - 1) : a[i] = b[i]
      PROVE  ~(a[k] < b[k])
  <2>1. a \in Seq(S) /\ b \in Seq(S) /\ DOMAIN a = 1..Len(a) /\ DOMAIN b = 1..Len(b)
    BY <1>2 DEF IsInOrder
  <2>2. a[k] \in S /\ \A i, j \in 1..Len(a) : i < j => a[i] < a[j]
    BY <1>2, <2>1 DEF IsInOrder
  <2>3. PICK j \in 1..Len(b) : b[j] = a[k]
    BY <1>2, <2>1, <2>2 DEF IsInOrder
  <2>4. \A i, l \in 1..Len(b) : i < l => b[i] < b[l]
    BY <1>2, <2>1 DEF IsInOrder
  <2>5. a[k] \in Nat /\ b[k] \in Nat /\ Len(a) \in Nat /\ Len(b) \in Nat
    <3>1. a[k] \in S /\ b[k] \in S
      BY <1>2, <2>1
    <3>2. a[k] \in Nat /\ b[k] \in Nat
      BY <3>1
    <3>3. Len(a) \in Nat /\ Len(b) \in Nat
      BY <2>1
    <3> QED
      BY <3>2, <3>3
  <2> SUFFICES ASSUME a[k] < b[k] PROVE FALSE
    OBVIOUS
  <2>6. CASE j < k
    <3>1. a[j] = b[j] /\ j \in 1..Len(a)
      BY <1>2, <2>6, <2>5
    <3> QED
      BY <3>1, <2>2, <2>3, <2>5, <2>6, <1>2
  <2>7. CASE j = k
    BY <2>7, <2>3, <2>5
  <2>8. CASE j > k
    BY <2>8, <2>3, <2>4, <2>5, <1>2
  <2> QED
    BY <2>5, <2>6, <2>7, <2>8
<1> DEFINE Differ == {k \in 1..Len(e) : k \in 1..Len(f) /\ e[k] # f[k]}
<1>3. Differ = {}
  <2> SUFFICES ASSUME Differ # {} PROVE FALSE
    OBVIOUS
  <2>1. Differ \in SUBSET Nat
    BY <1>1
  <2>2. PICK k \in Differ : \A i \in Differ : k <= i
    BY <2>1, SmallestElement
  <2>3. k \in Nat /\ k \in 1..Len(e) /\ k \in 1..Len(f) /\ e[k] # f[k]
    BY <2>2, <1>1
  <2>4. \A i \in 1..(k - 1) : e[i] = f[i]
    BY <2>2, <2>3, <1>1
  <2>5. e[k] \in Nat /\ f[k] \in Nat
    <3>1. e[k] \in S /\ f[k] \in S
      BY <2>3, <1>1
    <3> QED
      BY <3>1
  <2>6. ~(e[k] < f[k])
    BY <2>3, <2>4, <1>2
  <2>7. ~(f[k] < e[k])
    <3>1. \A i \in 1..(k - 1) : f[i] = e[i]
      BY <2>4
    <3> QED
      BY <2>3, <3>1, <1>2
  <2> QED
    BY <2>3, <2>5, <2>6, <2>7
<1>4. ASSUME NEW a, NEW b, IsInOrder(a, S), IsInOrder(b, S),
             \A i \in 1..Len(a) : i \in 1..Len(b) => a[i] = b[i]
      PROVE  ~(Len(a) < Len(b))
  <2>1. a \in Seq(S) /\ b \in Seq(S) /\ DOMAIN a = 1..Len(a) /\ DOMAIN b = 1..Len(b)
        /\ Len(a) \in Nat /\ Len(b) \in Nat
    BY <1>4 DEF IsInOrder
  <2> SUFFICES ASSUME Len(a) < Len(b) PROVE FALSE
    OBVIOUS
  <2> DEFINE k == Len(a) + 1
  <2>2. k \in 1..Len(b) /\ b[k] \in S
    BY <2>1
  <2>3. PICK j \in 1..Len(a) : a[j] = b[k]
    BY <1>4, <2>1, <2>2 DEF IsInOrder
  <2>4. b[j] = b[k] /\ j \in 1..Len(b) /\ j < k
    BY <1>4, <2>1, <2>3
  <2>5. b[j] < b[k]
    BY <1>4, <2>1, <2>2, <2>4 DEF IsInOrder
  <2>6. b[k] \in Nat
    BY <2>2
  <2> HIDE DEF k
  <2> QED
    BY <2>4, <2>5, <2>6
<1>5. Len(e) = Len(f)
  <2>1. \A i \in 1..Len(e) : i \in 1..Len(f) => e[i] = f[i] /\ f[i] = e[i]
    BY <1>3
  <2>2. ~(Len(e) < Len(f)) /\ ~(Len(f) < Len(e))
    BY <2>1, <1>4
  <2>3. Len(e) \in Nat /\ Len(f) \in Nat
    BY <1>1
  <2> QED
    BY <2>2, <2>3
<1> QED
  BY <1>1, <1>3, <1>5

\* One position more, at the end of an enumeration.
LEMMA EnumerationGrows ==
  ASSUME NEW kind, NEW n \in Nat, NEW e, IsInOrder(e, Positions(kind, n))
  PROVE  /\ Turn[n + 1] = kind =>
              IsInOrder(Append(e, n + 1), Positions(kind, n + 1))
         /\ Turn[n + 1] # kind => Positions(kind, n + 1) = Positions(kind, n)
<1>1. Positions(kind, n) \subseteq 1..n
  BY DEF Positions
<1>2. e \in Seq(Positions(kind, n)) /\ DOMAIN e = 1..Len(e) /\ Len(e) \in Nat
  BY DEF IsInOrder
<1>3. ASSUME Turn[n + 1] = kind PROVE IsInOrder(Append(e, n + 1), Positions(kind, n + 1))
  <2> DEFINE f == Append(e, n + 1)
  <2>1. Positions(kind, n + 1) = Positions(kind, n) \union {n + 1}
    BY <1>3 DEF Positions
  <2>2. e \in Seq(Positions(kind, n + 1)) /\ n + 1 \in Positions(kind, n + 1)
    BY <1>2, <2>1
  <2>3. f \in Seq(Positions(kind, n + 1)) /\ Len(f) = Len(e) + 1
        /\ f[Len(e) + 1] = n + 1 /\ (\A k \in 1..Len(e) : f[k] = e[k])
        /\ DOMAIN f = 1..(Len(e) + 1)
    BY <1>2, <2>2
  <2>4. \A k \in 1..Len(e) : e[k] \in 1..n
    BY <1>1, <1>2
  <2>5. ASSUME NEW k \in DOMAIN f, NEW l \in DOMAIN f, k < l PROVE f[k] < f[l]
    <3>1. k \in 1..Len(e) /\ l \in 1..(Len(e) + 1)
      BY <2>3, <2>5, <1>2
    <3>2. CASE l = Len(e) + 1
      BY <3>1, <3>2, <2>3, <2>4
    <3>3. CASE l # Len(e) + 1
      <4>1. l \in 1..Len(e)
        BY <3>1, <3>3, <1>2
      <4>2. e[k] < e[l]
        BY <3>1, <4>1, <2>5, <1>2 DEF IsInOrder
      <4> QED
        BY <4>1, <4>2, <3>1, <2>3
    <3> QED
      BY <3>2, <3>3
  <2>6. ASSUME NEW i \in Positions(kind, n + 1) PROVE \E k \in DOMAIN f : f[k] = i
    <3>1. CASE i = n + 1
      BY <3>1, <2>3, <1>2
    <3>2. CASE i \in Positions(kind, n)
      <4>1. PICK k \in DOMAIN e : e[k] = i
        BY <3>2 DEF IsInOrder
      <4> QED
        BY <4>1, <2>3, <1>2
    <3> QED
      BY <3>1, <3>2, <2>1
  <2> HIDE DEF f
  <2> QED
    BY <2>3, <2>5, <2>6 DEF IsInOrder, f
<1>4. ASSUME Turn[n + 1] # kind PROVE Positions(kind, n + 1) = Positions(kind, n)
  BY <1>4 DEF Positions
<1> QED
  BY <1>3, <1>4

\* The positions of a prefix of the turn can be enumerated, by induction on its
\* length: a smallest length without an enumeration is not 0, and is not one
\* more than a length with one.
LEMMA PositionsInOrder ==
  ASSUME NEW kind, NEW n \in 0..N
  PROVE  \E e : IsInOrder(e, Positions(kind, n)) /\ Len(e) <= n
<1> DEFINE Has(m) == \E e : IsInOrder(e, Positions(kind, m)) /\ Len(e) <= m
           Bad == {m \in Nat : ~Has(m)}
<1>1. Has(0)
  <2>1. Positions(kind, 0) = {} /\ << >> \in Seq({}) /\ DOMAIN << >> = {} /\ Len(<< >>) <= 0
    BY DEF Positions
  <2> QED
    BY <2>1 DEF IsInOrder
<1>2. ASSUME NEW m \in Nat, Has(m) PROVE Has(m + 1)
  <2>1. PICK e : IsInOrder(e, Positions(kind, m)) /\ Len(e) <= m
    BY <1>2
  <2>2. CASE Turn[m + 1] = kind
    <3>1. IsInOrder(Append(e, m + 1), Positions(kind, m + 1))
      BY <2>1, <2>2, EnumerationGrows
    <3>2. e \in Seq(Positions(kind, m)) /\ Len(e) \in Nat
      BY <2>1 DEF IsInOrder
    <3>3. Len(Append(e, m + 1)) = Len(e) + 1
      BY <3>2
    <3>4. Len(Append(e, m + 1)) <= m + 1
      BY <3>2, <3>3, <2>1
    <3> HIDE DEF Bad
    <3> QED
      BY <3>1, <3>4
  <2>3. CASE Turn[m + 1] # kind
    <3>1. IsInOrder(e, Positions(kind, m + 1))
      BY <2>1, <2>3, EnumerationGrows
    <3>2. Len(e) \in Nat
      BY <2>1 DEF IsInOrder
    <3> QED
      BY <3>1, <3>2, <2>1
  <2> QED
    BY <2>2, <2>3
<1> HIDE DEF Has
<1>3. Bad = {}
  <2> SUFFICES ASSUME Bad # {} PROVE FALSE
    OBVIOUS
  <2>1. PICK m \in Bad : \A k \in Bad : m <= k
    BY SmallestElement
  <2>2. m \in Nat /\ m # 0 /\ ~Has(m)
    BY <2>1, <1>1
  <2>3. m - 1 \in Nat /\ (m - 1) + 1 = m
    BY <2>2
  <2>4. Has(m - 1)
    BY <2>1, <2>2, <2>3
  <2> QED
    BY <2>2, <2>3, <2>4, <1>2
<1>4. n \in Nat
  BY TurnIsASequence
<1> QED
  BY <1>3, <1>4 DEF Has

\* What InOrder returns for a prefix of the turn.
LEMMA InOrderIsInOrder ==
  ASSUME NEW kind, NEW n \in 0..N
  PROVE  IsInOrder(InOrder(Positions(kind, n)), Positions(kind, n))
<1> DEFINE S == Positions(kind, n)
           P(e) == /\ \A k, l \in DOMAIN e : k < l => e[k] < e[l]
                   /\ \A i \in S : \E k \in DOMAIN e : e[k] = i
<1>1. PICK e : IsInOrder(e, S) /\ Len(e) <= n
  BY PositionsInOrder
<1>2. e \in Seq(S) /\ Len(e) \in 0..N
  BY <1>1, TurnIsASequence DEF IsInOrder
<1>3. e \in SeqOf(S, Len(Turn)) /\ P(e)
  <2>1. e \in [1..Len(e) -> S]
    BY <1>2
  <2>2. P(e)
    BY <1>1 DEF IsInOrder
  <2>3. e \in SeqOf(S, Len(Turn))
    BY <2>1, <1>2 DEF SeqOf, N
  <2> QED
    BY <2>2, <2>3
<1>4. InOrder(S) = CHOOSE f \in SeqOf(S, Len(Turn)) : P(f)
  BY DEF InOrder
<1> HIDE DEF P
<1>5. InOrder(S) \in SeqOf(S, Len(Turn)) /\ P(InOrder(S))
  BY <1>3, <1>4
<1>6. InOrder(S) \in Seq(S)
  <2>1. PICK m \in 0..N : InOrder(S) \in [1..m -> S]
    BY <1>5 DEF SeqOf, N
  <2>2. m \in Nat
    BY TurnIsASequence
  <2> QED
    BY <2>1, <2>2
<1> QED
  BY <1>5, <1>6 DEF IsInOrder, P

LEMMA NextInOrder ==
  ASSUME NEW kind, NEW n \in 0..(N - 1)
  PROVE  InOrder(Positions(kind, n + 1)) =
           IF Turn[n + 1] = kind THEN Append(InOrder(Positions(kind, n)), n + 1)
           ELSE InOrder(Positions(kind, n))
<1>1. n \in 0..N /\ n + 1 \in 0..N /\ n \in Nat
  BY TurnIsASequence
<1>2. IsInOrder(InOrder(Positions(kind, n)), Positions(kind, n))
  BY <1>1, InOrderIsInOrder
<1>3. IsInOrder(InOrder(Positions(kind, n + 1)), Positions(kind, n + 1))
  BY <1>1, InOrderIsInOrder
<1>4. Positions(kind, n + 1) \in SUBSET Nat
  BY <1>1 DEF Positions
<1> QED
  BY <1>1, <1>2, <1>3, <1>4, EnumerationGrows, OneEnumeration

-----------------------------------------------------------------------------
(* How an answer grows with the events of its turn *)

LEMMA NothingYet == \A s : ContentUpTo(s, 0) = << >> /\ CallsUpTo(s, 0) = << >>
<1>1. ASSUME NEW kind PROVE InOrder(Positions(kind, 0)) = << >>
  <2>1. IsInOrder(InOrder(Positions(kind, 0)), Positions(kind, 0))
    BY InOrderIsInOrder, TurnIsASequence
  <2>2. Positions(kind, 0) = {}
    BY DEF Positions
  <2> QED
    BY <2>1, <2>2 DEF IsInOrder
<1> QED
  BY <1>1 DEF ContentUpTo, CallsUpTo

LEMMA ContentGrows ==
  ASSUME NEW s, NEW n \in 0..(N - 1)
  PROVE  ContentUpTo(s, n + 1) =
           IF Turn[n + 1] = "LLMChunk" THEN Append(ContentUpTo(s, n), <<s, n + 1>>)
           ELSE ContentUpTo(s, n)
<1> DEFINE e == InOrder(Positions("LLMChunk", n))
           f == InOrder(Positions("LLMChunk", n + 1))
<1>1. f = IF Turn[n + 1] = "LLMChunk" THEN Append(e, n + 1) ELSE e
  BY NextInOrder
<1>2. e \in Seq(Positions("LLMChunk", n)) /\ DOMAIN e = 1..Len(e) /\ Len(e) \in Nat
  <2>1. n \in 0..N
    BY TurnIsASequence
  <2> QED
    BY <2>1, InOrderIsInOrder DEF IsInOrder
<1>3. ContentUpTo(s, n) = [k \in DOMAIN e |-> <<s, e[k]>>]
      /\ ContentUpTo(s, n + 1) = [k \in DOMAIN f |-> <<s, f[k]>>]
  BY DEF ContentUpTo
<1> HIDE DEF e, f
<1>4. CASE Turn[n + 1] = "LLMChunk"
  <2>1. DOMAIN f = 1..(Len(e) + 1) /\ f[Len(e) + 1] = n + 1 /\ \A k \in 1..Len(e) : f[k] = e[k]
    BY <1>1, <1>2, <1>4
  <2>2. ContentUpTo(s, n) = [k \in 1..Len(e) |-> <<s, e[k]>>]
    BY <1>2, <1>3
  <2>3. Append(ContentUpTo(s, n), <<s, n + 1>>) = [k \in 1..(Len(e) + 1) |-> <<s, f[k]>>]
    BY <2>1, <2>2, <1>2
  <2> QED
    BY <2>1, <2>3, <1>3, <1>4
<1> QED
  BY <1>1, <1>3, <1>4

LEMMA CallsGrow ==
  ASSUME NEW s, NEW n \in 0..(N - 1)
  PROVE  LET c == CallsUpTo(s, n) IN
         CallsUpTo(s, n + 1) =
           CASE Turn[n + 1] = "ToolStart" ->
                  Append(c, [by |-> s, at |-> n + 1, status |-> "running"])
             [] Turn[n + 1] = "ToolEnd" ->
                  [k \in DOMAIN c |->
                     IF c[k].by = s /\ c[k].at = CallOf[n + 1]
                     THEN [c[k] EXCEPT !.status = "success"] ELSE c[k]]
             [] OTHER -> c
<1> DEFINE e == InOrder(Positions("ToolStart", n))
           f == InOrder(Positions("ToolStart", n + 1))
           Call(i, m) == [by |-> s, at |-> i, status |-> IF Ended(i, m) THEN "success" ELSE "running"]
           c == CallsUpTo(s, n)
<1>1. f = IF Turn[n + 1] = "ToolStart" THEN Append(e, n + 1) ELSE e
  BY NextInOrder
<1>2. e \in Seq(Positions("ToolStart", n)) /\ DOMAIN e = 1..Len(e) /\ Len(e) \in Nat
  <2>1. n \in 0..N
    BY TurnIsASequence
  <2> QED
    BY <2>1, InOrderIsInOrder DEF IsInOrder
<1>3. c = [k \in 1..Len(e) |-> Call(e[k], n)]
      /\ CallsUpTo(s, n + 1) = [k \in DOMAIN f |-> Call(f[k], n + 1)]
  BY <1>2 DEF CallsUpTo
<1>4. n \in Nat /\ n + 1 \in 1..Len(Turn)
  BY TurnIsASequence DEF N
<1>5. ASSUME NEW i, Turn[n + 1] # "ToolEnd" PROVE Ended(i, n + 1) = Ended(i, n)
  BY <1>4, <1>5 DEF Ended
<1> HIDE DEF e, f, c
<1>6. CASE Turn[n + 1] = "ToolStart"
  <2>1. DOMAIN f = 1..(Len(e) + 1) /\ f[Len(e) + 1] = n + 1 /\ \A k \in 1..Len(e) : f[k] = e[k]
    BY <1>1, <1>2, <1>6
  <2>2. ~Ended(n + 1, n + 1)
    <3> SUFFICES ASSUME NEW j \in 1..(n + 1), Turn[j] = "ToolEnd", CallOf[j] = n + 1 PROVE FALSE
      BY DEF Ended
    <3>1. j \in 1..Len(Turn) /\ j \in Nat
      BY <1>4, TurnIsASequence DEF N
    <3>2. n + 1 \in 1..(j - 1)
      BY <3>1, CallOfAssumption
    <3> QED
      BY <3>1, <3>2, <1>4
  <2>3. Call(n + 1, n + 1) = [by |-> s, at |-> n + 1, status |-> "running"]
    BY <2>2
  <2>4. \A i : Call(i, n + 1) = Call(i, n)
    BY <1>5, <1>6
  <2> HIDE DEF Call
  <2>5. Append(c, Call(n + 1, n + 1)) = [k \in 1..(Len(e) + 1) |-> Call(f[k], n + 1)]
    <3>1. Append(c, Call(n + 1, n + 1)) =
            [k \in 1..(Len(e) + 1) |-> IF k <= Len(e) THEN Call(e[k], n) ELSE Call(n + 1, n + 1)]
      BY <1>2, <1>3
    <3>2. \A k \in 1..(Len(e) + 1) :
            Call(f[k], n + 1) = IF k <= Len(e) THEN Call(e[k], n) ELSE Call(n + 1, n + 1)
      BY <2>1, <2>4, <1>2
    <3> QED
      BY <3>1, <3>2
  <2> QED
    BY <2>1, <2>3, <2>5, <1>3, <1>6 DEF c
<1>7. CASE Turn[n + 1] = "ToolEnd"
  <2>1. f = e
    BY <1>1, <1>7
  <2>2. \A i : Ended(i, n + 1) <=> Ended(i, n) \/ i = CallOf[n + 1]
    BY <1>4, <1>7 DEF Ended
  <2>3. \A k \in 1..Len(e) :
          c[k] = Call(e[k], n) /\ c[k].by = s /\ c[k].at = e[k]
          /\ Call(e[k], n + 1) = IF c[k].by = s /\ c[k].at = CallOf[n + 1]
                                 THEN [c[k] EXCEPT !.status = "success"] ELSE c[k]
    BY <1>3, <2>2
  <2>4. DOMAIN c = 1..Len(e) /\ DOMAIN f = 1..Len(e)
    BY <1>2, <1>3, <2>1
  <2>5. CallsUpTo(s, n + 1) = [k \in 1..Len(e) |-> Call(e[k], n + 1)]
    BY <1>3, <2>1, <2>4
  <2> HIDE DEF Call
  <2>6. CallsUpTo(s, n + 1) =
          [k \in DOMAIN c |-> IF c[k].by = s /\ c[k].at = CallOf[n + 1]
                              THEN [c[k] EXCEPT !.status = "success"] ELSE c[k]]
    BY <2>3, <2>4, <2>5
  <2> QED
    BY <2>6, <1>7 DEF c
<1>8. CASE Turn[n + 1] \notin {"ToolStart", "ToolEnd"}
  <2>1. f = e /\ \A i : Call(i, n + 1) = Call(i, n)
    BY <1>1, <1>5, <1>8
  <2> HIDE DEF Call
  <2>2. CallsUpTo(s, n + 1) = c
    BY <2>1, <1>2, <1>3
  <2> QED
    BY <2>2, <1>8 DEF c
<1> QED
  BY <1>6, <1>7, <1>8

\* The last event adds nothing, and by then every call has ended: what came of
\* the turn before its AgentEnd is what the history shows.
LEMMA WholeBeforeTheEnd ==
  ASSUME NEW s
  PROVE  /\ Whole(s) = [role |-> "assistant", by |-> 0,
                        content |-> ContentUpTo(s, N - 1), calls |-> CallsUpTo(s, N - 1)]
         /\ Turn[N] = "AgentEnd"
<1>1. N - 1 \in 0..(N - 1) /\ (N - 1) + 1 = N /\ N \in 1..Len(Turn) /\ N = Len(Turn)
  BY TurnIsASequence DEF N
<1>2. Turn[N] = "AgentEnd"
  BY <1>1, TurnAssumption
<1>3. ContentUpTo(s, N - 1) = ContentUpTo(s, N)
  BY <1>1, <1>2, ContentGrows
<1>4. CallsUpTo(s, N - 1) = CallsUpTo(s, N)
  BY <1>1, <1>2, CallsGrow
<1>5. Whole(s).content = ContentUpTo(s, N)
  BY DEF Whole, Chunks, ContentUpTo, Positions, N
<1>6. Whole(s).calls = CallsUpTo(s, N)
  <2> DEFINE e == InOrder(Positions("ToolStart", N))
  <2>1. IsInOrder(e, Positions("ToolStart", N))
    BY <1>1, InOrderIsInOrder, TurnIsASequence
  <2>2. ASSUME NEW k \in DOMAIN e PROVE Ended(e[k], N)
    <3>1. e[k] \in Positions("ToolStart", N)
      BY <2>1 DEF IsInOrder
    <3> QED
      BY <3>1, CallOfAssumption DEF Positions, Ended, N
  <2>3. Whole(s).calls = [k \in DOMAIN e |-> [by |-> s, at |-> e[k], status |-> "success"]]
    BY DEF Whole, Starts, Positions, N
  <2>4. CallsUpTo(s, N) =
          [k \in DOMAIN e |-> [by |-> s, at |-> e[k],
                               status |-> IF Ended(e[k], N) THEN "success" ELSE "running"]]
    BY DEF CallsUpTo
  <2> HIDE DEF e
  <2> QED
    BY <2>2, <2>3, <2>4
<1> QED
  BY <1>2, <1>3, <1>4, <1>5, <1>6 DEF Whole

\* A stored answer is that of one turn only.
LEMMA WholeMentions ==
  ASSUME NEW s, NEW r, Mentions(Whole(s), r)
  PROVE  r = s
BY DEF Mentions, Whole

\* A history and one turn more.
LEMMA HistoryGrows ==
  ASSUME NEW S, NEW turns \in Seq(S), NEW s \in S
  PROVE  AsMessages(Append(turns, s)) =
           Append(Append(AsMessages(turns), UserMessage(s)), Whole(s))
<1> DEFINE n == Len(turns)
           more == Append(turns, s)
           Entry(t, k) == IF k % 2 = 1 THEN UserMessage(t[(k + 1) \div 2]) ELSE Whole(t[k \div 2])
<1>1. n \in Nat /\ Len(more) = n + 1 /\ more[n + 1] = s /\ \A k \in 1..n : more[k] = turns[k]
  OBVIOUS
<1>2. AsMessages(turns) = [k \in 1..(2 * n) |-> Entry(turns, k)]
      /\ AsMessages(more) = [k \in 1..(2 * (n + 1)) |-> Entry(more, k)]
  BY <1>1 DEF AsMessages
<1>3. \A k \in 1..(2 * n) : Entry(more, k) = Entry(turns, k)
  <2> SUFFICES ASSUME NEW k \in 1..(2 * n) PROVE Entry(more, k) = Entry(turns, k)
    OBVIOUS
  <2>1. CASE k % 2 = 1
    <3>1. (k + 1) \div 2 \in 1..n
      BY <1>1, <2>1
    <3> QED
      BY <3>1, <2>1, <1>1
  <2>2. CASE k % 2 # 1
    <3>1. k \div 2 \in 1..n
      BY <1>1, <2>2
    <3> QED
      BY <3>1, <2>2, <1>1
  <2> QED
    BY <2>1, <2>2
<1>4. Entry(more, 2 * n + 1) = UserMessage(s) /\ Entry(more, 2 * n + 2) = Whole(s)
  <2>1. (2 * n + 1) % 2 = 1 /\ (2 * n + 2) \div 2 = n + 1 /\ (2 * n + 2) % 2 = 0
        /\ ((2 * n + 1) + 1) \div 2 = n + 1
    BY <1>1
  <2> QED
    BY <2>1, <1>1
<1> HIDE DEF Entry, more
<1>5. Append(AsMessages(turns), UserMessage(s)) =
        [k \in 1..(2 * n + 1) |-> IF k <= 2 * n THEN Entry(turns, k) ELSE UserMessage(s)]
  BY <1>1, <1>2
<1>6. Append(Append(AsMessages(turns), UserMessage(s)), Whole(s)) =
        [k \in 1..(2 * n + 2) |-> IF k <= 2 * n THEN Entry(turns, k)
                                  ELSE IF k = 2 * n + 1 THEN UserMessage(s) ELSE Whole(s)]
  BY <1>1, <1>5
<1>7. 2 * (n + 1) = 2 * n + 2 /\ \A k \in 1..(2 * n + 2) : k <= 2 * n \/ k = 2 * n + 1 \/ k = 2 * n + 2
  BY <1>1
<1> QED
  BY <1>1, <1>2, <1>3, <1>4, <1>6, <1>7 DEF more

-----------------------------------------------------------------------------
(* What streams *)

IsAnswer(a) == "isStreaming" \in DOMAIN a /\ a.isStreaming \in BOOLEAN

StreamRecords == [session : Sessions, state : {"open", "closed", "aborted"}]

ClientShape ==
  /\ streams \in Seq(StreamRecords)
  /\ currentSessionId \in Sessions \union {None}
  /\ remaining \in Seq(Seq(Events)) /\ Len(remaining) = Len(streams)
  /\ IsAnswer(shown) /\ IsAnswer(acc)

StreamingInv ==
  /\ ClientShape
  /\ shown.isStreaming <=> acc.isStreaming
  /\ StreamingIsTheLatest

LEMMA InitStreaming == Init => StreamingInv
<1> SUFFICES ASSUME Init PROVE StreamingInv
  OBVIOUS
<1>1. streams = << >> /\ remaining = << >> /\ shown = Nothing /\ acc = Nothing
      /\ currentSessionId = None
  BY DEF Init
<1>2. IsAnswer(Nothing) /\ ~Nothing.isStreaming
  BY DEF IsAnswer, Nothing
<1> QED
  BY <1>1, <1>2 DEF StreamingInv, ClientShape, StreamingIsTheLatest

\* What becomes of an answer that is stopped, or gets more text or calls.
LEMMA StoppedAnswer ==
  ASSUME NEW a, IsAnswer(a)
  PROVE  IsAnswer(Stopped(a)) /\ ~Stopped(a).isStreaming
BY DEF IsAnswer, Stopped

LEMMA AmendedAnswer ==
  ASSUME NEW a, NEW x, IsAnswer(a)
  PROVE  /\ IsAnswer([a EXCEPT !.content = x]) /\ IsAnswer([a EXCEPT !.calls = x])
         /\ [a EXCEPT !.content = x].isStreaming = a.isStreaming
         /\ [a EXCEPT !.calls = x].isStreaming = a.isStreaming
BY DEF IsAnswer

\* The two ways a stream ends, and what is still to come of its turn.
LEMMA EndedStream ==
  ASSUME ClientShape, NEW s \in Sent, NEW st \in {"closed", "aborted"}
  PROVE  /\ [streams EXCEPT ![s].state = st] \in Seq(StreamRecords)
         /\ Len([streams EXCEPT ![s].state = st]) = Len(streams)
<1>1. streams \in Seq(StreamRecords) /\ s \in 1..Len(streams) /\ streams[s] \in StreamRecords
  BY DEF ClientShape, Sent
<1>2. [streams[s] EXCEPT !.state = st] \in StreamRecords
  BY <1>1 DEF StreamRecords
<1>3. [streams EXCEPT ![s].state = st] = [streams EXCEPT ![s] = [streams[s] EXCEPT !.state = st]]
  BY <1>1
<1> QED
  BY <1>1, <1>2, <1>3

LEMMA RestOfTurn ==
  ASSUME ClientShape, NEW s \in Sent, NEW rest \in Seq(Events)
  PROVE  /\ [remaining EXCEPT ![s] = rest] \in Seq(Seq(Events))
         /\ Len([remaining EXCEPT ![s] = rest]) = Len(streams)
BY DEF ClientShape, Sent

LEMMA NothingToCome == << >> \in Seq(Events)
BY DEF Events

\* A handler that lets nothing stream any more keeps the invariant, whatever it
\* does to the streams.
LEMMA StopStreaming ==
  ASSUME ClientShape', ~shown'.isStreaming, ~acc'.isStreaming
  PROVE  StreamingInv'
BY DEF StreamingInv, StreamingIsTheLatest

LEMMA StepStreaming == StreamingInv /\ [Next]_vars => StreamingInv'
<1> SUFFICES ASSUME StreamingInv, [Next]_vars PROVE StreamingInv'
  OBVIOUS
<1> USE DEF display, server, ghosts
<1>a. ClientShape /\ (shown.isStreaming <=> acc.isStreaming) /\ StreamingIsTheLatest
  BY DEF StreamingInv
<1>b. IsAnswer(Nothing) /\ ~Nothing.isStreaming
  BY DEF IsAnswer, Nothing
\* Steps that touch neither the answers nor the streams.
<1>c. ASSUME UNCHANGED <<shown, acc, shared, timer, controller, streams>>,
             currentSessionId' \in Sessions \union {None},
             remaining' \in Seq(Seq(Events)), Len(remaining') = Len(streams)
      PROVE  StreamingInv'
  BY <1>a, <1>c DEF StreamingInv, ClientShape, StreamingIsTheLatest, IsOpen, Latest
<1>1. CASE sendMessage
  <2>1. Len(streams) \in Nat /\ shown' = acc' /\ controller' = Len(streams) + 1 /\ shared' /\ timer'
        /\ streams' = Append(streams, [session |-> currentSessionId, state |-> "open"])
        /\ remaining' = Append(remaining, Turn) /\ currentSessionId' = currentSessionId
        /\ currentSessionId \in Sessions
    BY <1>1, <1>a DEF sendMessage, ClientShape, Latest
  <2>2. IsAnswer(acc') /\ acc'.isStreaming
    BY <1>1 DEF sendMessage, IsAnswer, Nothing
  <2>3. Turn \in Seq(Events)
    BY TurnAssumption DEF Events
  <2>4. ClientShape'
    BY <2>1, <2>2, <2>3, <1>a DEF ClientShape, StreamRecords
  <2>5. Len(streams') = Len(streams) + 1 /\ streams'[Len(streams) + 1].state = "open"
    BY <2>1, <1>a DEF ClientShape
  <2> QED
    BY <2>1, <2>2, <2>4, <2>5 DEF StreamingInv, StreamingIsTheLatest, IsOpen, Latest
<1>2. CASE cancelStream
  <2>1. shown' = Stopped(shown) /\ acc' = Stopped(acc) /\ currentSessionId' = currentSessionId
        /\ Abort(controller) /\ controller = Len(streams) /\ Len(streams) > 0
    BY <1>2, <1>a DEF cancelStream, StreamingIsTheLatest, Latest
  <2>2. streams' \in Seq(StreamRecords)
        /\ Len(streams') = Len(streams)
        /\ remaining' \in Seq(Seq(Events)) /\ Len(remaining') = Len(remaining)
    <3>1. CASE IsOpen(controller)
      <4>1. controller \in Sent
        BY <2>1, <1>a DEF ClientShape, Sent
      <4>2. /\ streams' = [streams EXCEPT ![controller].state = "aborted"]
            /\ remaining' = [remaining EXCEPT ![controller] = << >>]
        BY <3>1, <2>1 DEF Abort
      <4> QED
        BY <4>1, <4>2, <1>a, EndedStream, RestOfTurn, NothingToCome DEF ClientShape
    <3>2. CASE ~IsOpen(controller)
      BY <3>2, <2>1, <1>a DEF Abort, ClientShape
    <3> QED
      BY <3>1, <3>2
  <2> QED
    BY <2>1, <2>2, <1>a, StoppedAnswer, StopStreaming DEF ClientShape
<1>3. CASE leaveSession
  BY <1>3, <1>a, <1>c DEF leaveSession, Displayed, ClientShape
<1>4. ASSUME NEW m \in Sessions, selectSession(m) \/ newSession(m) PROVE StreamingInv'
  BY <1>4, <1>a, <1>c DEF selectSession, newSession, Displayed, ClientShape
<1>5. ASSUME NEW s \in Sent, NextEvent(s)
      PROVE  /\ remaining' \in Seq(Seq(Events)) /\ Len(remaining') = Len(streams)
             /\ remaining[s] # << >> /\ Head(remaining[s]) \in Events
             /\ UNCHANGED <<currentSessionId, controller, streams>>
  <2>1. remaining[s] \in Seq(Events) /\ remaining[s] # << >>
    BY <1>5, <1>a DEF NextEvent, ClientShape, Sent
  <2>2. Head(remaining[s]) \in Events /\ Tail(remaining[s]) \in Seq(Events)
    BY <2>1
  <2>3. remaining' = [remaining EXCEPT ![s] = Tail(remaining[s])]
    BY <1>5 DEF NextEvent
  <2> QED
    BY <2>1, <2>2, <2>3, <1>5, <1>a DEF NextEvent, ClientShape, Sent
<1>6. ASSUME NEW s \in Sent, LoseEvent(s) PROVE StreamingInv'
  BY <1>6, <1>5, <1>a, <1>c DEF LoseEvent, Untouched, ClientShape
\* Streaming goes on, or not, as before.
<1>d. ASSUME IsAnswer(shown'), IsAnswer(acc'),
             shown'.isStreaming = shown.isStreaming, acc'.isStreaming = acc.isStreaming,
             UNCHANGED <<shared, timer, controller, streams, currentSessionId>>,
             remaining' \in Seq(Seq(Events)), Len(remaining') = Len(streams)
      PROVE  StreamingInv'
  BY <1>a, <1>d DEF StreamingInv, ClientShape, StreamingIsTheLatest, IsOpen, Latest
<1>7. ASSUME NEW s \in Sent, Receive(s) PROVE StreamingInv'
  <2>1. NextEvent(s)
    BY <1>7 DEF Receive
  <2>2. IsAnswer(shown) /\ IsAnswer(acc)
    BY <1>a DEF ClientShape
  <2>3. CASE Head(remaining[s]) = "LLMChunk"
    <3>1. LLMChunk(s)
      BY <1>7, <2>3 DEF Receive
    <3> QED
      BY <3>1, <2>1, <2>2, <1>5, <1>d, AmendedAnswer DEF LLMChunk
  <2>4. ASSUME NEW calls, CallsBecome(calls) PROVE StreamingInv'
    BY <2>4, <2>1, <2>2, <1>5, <1>d, AmendedAnswer DEF CallsBecome
  <2>5. CASE Head(remaining[s]) = "ToolStart"
    <3>1. ToolStart(s)
      BY <1>7, <2>5 DEF Receive
    <3> QED
      BY <3>1, <2>4 DEF ToolStart
  <2>6. CASE Head(remaining[s]) = "ToolEnd"
    <3>1. ToolEnd(s)
      BY <1>7, <2>6 DEF Receive
    <3> QED
      BY <3>1, <2>4 DEF ToolEnd
  <2>8. CASE Head(remaining[s]) = "AgentEnd"
    <3>1. Finalised
      BY <1>7, <2>8 DEF Receive
    <3> QED
      BY <3>1, <2>1, <1>5, <1>a, <1>b, StopStreaming DEF Finalised, ClientShape
  <2> QED
    BY <2>1, <2>3, <2>5, <2>6, <2>8, <1>5 DEF Events
<1>8. ASSUME NEW s \in Sent, CloseStream(s) \/ FailStream(s) \/ ReceiveError(s)
      PROVE  /\ streams' \in Seq(StreamRecords)
             /\ remaining' \in Seq(Seq(Events)) /\ Len(remaining') = Len(streams')
             /\ currentSessionId' = currentSessionId
  <2>1. CASE CloseStream(s)
    BY <2>1, <1>a, EndedStream DEF CloseStream, ClientShape
  <2>2. CASE FailStream(s)
    BY <2>2, <1>a, EndedStream, RestOfTurn, NothingToCome DEF FailStream, ClientShape
  <2>3. CASE ReceiveError(s)
    BY <2>3, <1>a, RestOfTurn, NothingToCome DEF ReceiveError, ClientShape
  <2> QED
    BY <1>8, <2>1, <2>2, <2>3
<1>9. ASSUME NEW s \in Sent, CloseStream(s) PROVE StreamingInv'
  <2>1. CASE acc.isStreaming
    <3>1. Finalised
      BY <1>9, <2>1 DEF CloseStream
    <3> QED
      BY <3>1, <1>8, <1>9, <1>a, <1>b, StopStreaming DEF Finalised, ClientShape
  <2>2. CASE ~acc.isStreaming
    <3>1. UNCHANGED <<shown, acc>>
      BY <1>9, <2>2 DEF CloseStream, Untouched
    <3> QED
      BY <3>1, <2>2, <1>8, <1>9, <1>a, StopStreaming DEF ClientShape
  <2> QED
    BY <2>1, <2>2
<1>10. ASSUME NEW s \in Sent, FailStream(s) \/ ReceiveError(s) PROVE StreamingInv'
  <2>1. FlushedAndStopped /\ UNCHANGED controller
    BY <1>10 DEF FailStream, ReceiveError
  <2> QED
    BY <2>1, <1>8, <1>10, <1>a, StoppedAnswer, StopStreaming DEF FlushedAndStopped, ClientShape
<1>11. ASSUME NEW s \in Sent, EndTurn(s) PROVE StreamingInv'
  BY <1>11, <1>a, <1>c DEF EndTurn, ClientShape
<1>12. ASSUME NEW l \in loads, History(l) PROVE StreamingInv'
  BY <1>12, <1>a, <1>c DEF History, ReadHistory, ShowHistory, FailHistory, ClientShape
<1>13. CASE Flush
  <2>1. shown' = acc /\ shared' /\ timer' = acc.isStreaming
        /\ UNCHANGED <<acc, controller, streams, remaining, currentSessionId>>
    BY <1>13 DEF Flush, Flushed
  <2> QED
    BY <2>1, <1>a DEF StreamingInv, ClientShape, StreamingIsTheLatest, IsOpen, Latest
<1>14. CASE UNCHANGED vars
  BY <1>14, <1>a, <1>c DEF vars, ClientShape
<1> QED
  BY <1>1, <1>2, <1>3, <1>4, <1>6, <1>7, <1>9, <1>10, <1>11, <1>12, <1>13, <1>14
    DEF Next, User, Stream

-----------------------------------------------------------------------------
(* The inductive invariant, in layers *)

TypeInv ==
  /\ TypeOK
  /\ \A s \in Sent : Len(remaining[s]) <= Len(Turn)

\* What is still to come of an undisturbed turn is the rest of it; its stream is
\* not aborted, and closed only when nothing is left to come.
RestIsToCome ==
  \A s \in Sent \ disturbed :
    /\ streams[s].state # "aborted"
    /\ streams[s].state = "closed" => remaining[s] = << >> /\ turn[s] # "running"
    /\ \A i \in 1..Len(remaining[s]) : remaining[s][i] = Turn[Got(s) + i]

\* When an undisturbed turn was sent, no older stream was open.
OlderAreClosed ==
  \A s \in Sent \ disturbed : \A r \in 1..(s - 1) : ~IsOpen(r)

\* The accumulator holds what has come of an undisturbed turn under way, and
\* nothing of one that is over.
AccumulatesTheLatest ==
  \A s \in Sent \ disturbed :
    IF remaining[s] # << >>
    THEN /\ s = Latest /\ acc.isStreaming
         /\ acc.content = ContentUpTo(s, Got(s))
         /\ acc.calls = CallsUpTo(s, Got(s)) /\ shown.calls = acc.calls
    ELSE /\ ~Mentions(acc, s) /\ ~Mentions(shown, s)
         /\ s = Latest => ~acc.isStreaming

AnswerInv == RestIsToCome /\ OlderAreClosed /\ AccumulatesTheLatest /\ AnswersAreWhole

\* A history holds turns of its session.
HistoriesOfSessions ==
  /\ \A m \in Sessions : \A k \in 1..Len(stored[m]) : streams[stored[m][k]].session = m
  /\ \A l \in loads : \A k \in 1..Len(l.turns) : streams[l.turns[k]].session = l.session

\* What is under way belongs to the session on display.
OnDisplay ==
  ~astray =>
    /\ \A l \in loads : l.session = currentSessionId /\ \A s \in Sent : ~IsOpen(s)
    /\ \A s \in Sent :
         IsOpen(s) =>
           /\ streams[s].session = currentSessionId
           /\ \A r \in Sent : Mentions(acc, r) \/ Mentions(shown, r) =>
                                streams[r].session = currentSessionId

SessionInv == HistoriesOfSessions /\ OnDisplay /\ MessagesAreOfTheSession

\* The server has what it stored, and a history that was read while nothing
\* went astray has it too.
StoredAreInHistories ==
  /\ \A s \in Sent : turn[s] = "stored" =>
       \E k \in 1..Len(stored[streams[s].session]) : stored[streams[s].session][k] = s
  /\ ~astray =>
       \A l \in loads : l.read =>
         /\ \A s \in Sent \ disturbed :
              turn[s] = "stored" /\ streams[s].session = l.session =>
                \E k \in 1..Len(l.turns) : l.turns[k] = s
         /\ disturbed = {} => l.turns = stored[l.session]

\* The answers received are on display, unless its history could not be loaded.
ReceivedAreShown ==
  ~astray /\ ~missing /\ loads = {} =>
    \A s \in Sent \ disturbed :
      streams[s].session = currentSessionId /\ remaining[s] = << >> /\ turn[s] # "failed" =>
        \E k \in 1..Len(messages) : messages[k] = Whole(s)

\* What the server has stored of a session or is about to store, and whether
\* the last answer has not come yet.
Served(m) ==
  IF Latest > 0 /\ streams[Latest].session = m /\ turn[Latest] = "running"
  THEN Append(stored[m], Latest) ELSE stored[m]
IsDue(m) == Latest > 0 /\ streams[Latest].session = m /\ remaining[Latest] # << >>

Undisturbed ==
  /\ currentSessionId # None /\ ~astray /\ ~missing /\ disturbed = {} /\ loads = {}
  /\ \A s \in Sent : turn[s] # "failed"

DisplayIsServed ==
  Undisturbed =>
    AsMessages(Served(currentSessionId)) =
      IF IsDue(currentSessionId) THEN Append(messages, Whole(Latest)) ELSE messages

DisplayInv == StoredAreInHistories /\ ReceivedAreShown /\ DisplayIsServed

-----------------------------------------------------------------------------
(* Types *)

LEMMA SentIsAnInterval ==
  ASSUME ClientShape
  PROVE  Latest \in Nat /\ Sent = 1..Latest /\ DOMAIN remaining = Sent /\ Len(remaining) = Latest
BY DEF ClientShape, Sent, Latest

LEMMA SeqGrows ==
  ASSUME NEW S, NEW T, S \subseteq T
  PROVE  Seq(S) \subseteq Seq(T)
OBVIOUS

\* Another message sent leaves everything typed that was.
LEMMA TypesGrow ==
  ASSUME Sent \subseteq Sent'
  PROVE  /\ Parts \subseteq Parts' /\ Calls \subseteq Calls'
         /\ Answers \subseteq Answers' /\ Messages \subseteq Messages'
         /\ Seq(Messages) \subseteq Seq(Messages') /\ Seq(Sent) \subseteq Seq(Sent')
<1>1. Parts \subseteq Parts' /\ Calls \subseteq Calls'
  BY DEF Parts, Calls
<1>2. Seq(Parts) \subseteq Seq(Parts') /\ Seq(Calls) \subseteq Seq(Calls')
  BY <1>1, SeqGrows
<1>3. Answers \subseteq Answers' /\ Messages \subseteq Messages'
  BY <1>2 DEF Answers, Messages
<1> QED
  BY <1>1, <1>3, SeqGrows

LEMMA TypedLoads ==
  ASSUME TypeInv, NEW l \in loads
  PROVE  /\ l \in Histories /\ l.session \in Sessions /\ l.turns \in Seq(Sent)
         /\ LET k == [l EXCEPT !.read = TRUE, !.turns = stored[l.session]] IN
              k \in Histories /\ k.session = l.session /\ k.turns = stored[l.session]
<1>1. l \in Histories /\ stored \in [Sessions -> Seq(Sent)]
  BY DEF TypeInv, TypeOK
<1>2. l.session \in Sessions /\ l.turns \in Seq(Sent)
  BY <1>1 DEF Histories
<1>3. stored[l.session] \in Seq(Sent)
  BY <1>1, <1>2
<1> QED
  BY <1>1, <1>2, <1>3 DEF Histories

LEMMA TypedAnswers ==
  /\ Nothing \in Answers
  /\ \A a \in Answers :
       /\ Stopped(a) \in Answers /\ Answer(a) \in Messages
       /\ \A p \in Parts : [a EXCEPT !.content = Append(@, p)] \in Answers
       /\ \A calls \in Seq(Calls) : [a EXCEPT !.calls = calls] \in Answers
  /\ \A s \in Sent : UserMessage(s) \in Messages
<1>1. \A S : << >> \in Seq(S)
  OBVIOUS
<1>2. Nothing \in Answers
  BY <1>1 DEF Nothing, Answers
<1>3. ASSUME NEW a \in Answers
      PROVE  /\ Stopped(a) \in Answers /\ Answer(a) \in Messages
             /\ \A p \in Parts : [a EXCEPT !.content = Append(@, p)] \in Answers
             /\ \A calls \in Seq(Calls) : [a EXCEPT !.calls = calls] \in Answers
  <2>1. a.content \in Seq(Parts) /\ a.calls \in Seq(Calls)
    BY <1>3 DEF Answers
  <2>2. Stopped(a) \in Answers
    BY <1>3 DEF Answers, Stopped
  <2>3. Answer(a) \in Messages
    BY <2>1 DEF Answer, Messages
  <2>4. ASSUME NEW p \in Parts PROVE [a EXCEPT !.content = Append(@, p)] \in Answers
    <3>1. Append(a.content, p) \in Seq(Parts)
      BY <2>1
    <3> QED
      BY <3>1, <1>3 DEF Answers
  <2>5. ASSUME NEW calls \in Seq(Calls) PROVE [a EXCEPT !.calls = calls] \in Answers
    BY <1>3 DEF Answers
  <2> QED
    BY <2>2, <2>3, <2>4, <2>5
<1>4. ASSUME NEW s \in Sent PROVE UserMessage(s) \in Messages
  BY <1>1 DEF UserMessage, Messages
<1> QED
  BY <1>2, <1>3, <1>4

LEMMA TypedHistory ==
  /\ \A s \in Sent : Whole(s) \in Messages
  /\ \A turns \in Seq(Sent) : AsMessages(turns) \in Seq(Messages)
<1>1. ASSUME NEW s \in Sent PROVE Whole(s) \in Messages
  <2>1. ASSUME NEW kind PROVE InOrder(Positions(kind, N)) \in Seq(1..Len(Turn))
    <3>1. InOrder(Positions(kind, N)) \in Seq(Positions(kind, N))
      BY InOrderIsInOrder, TurnIsASequence DEF IsInOrder
    <3>2. Positions(kind, N) \subseteq 1..Len(Turn)
      BY DEF Positions, N
    <3> QED
      BY <3>1, <3>2, SeqGrows
  <2>2. Chunks \in Seq(1..Len(Turn)) /\ Starts \in Seq(1..Len(Turn))
    BY <2>1 DEF Chunks, Starts, Positions, N
  <2>3. [k \in DOMAIN Chunks |-> <<s, Chunks[k]>>] \in Seq(Parts)
    BY <2>2 DEF Parts
  <2>4. [k \in DOMAIN Starts |-> [by |-> s, at |-> Starts[k], status |-> "success"]] \in Seq(Calls)
    <3>1. \A k \in 1..Len(Starts) :
            [by |-> s, at |-> Starts[k], status |-> "success"] \in Calls
      BY <2>2 DEF Calls
    <3>2. DOMAIN Starts = 1..Len(Starts) /\ Len(Starts) \in Nat
      BY <2>2
    <3> QED
      BY <3>1, <3>2
  <2> QED
    BY <2>3, <2>4 DEF Whole, Messages
<1>2. ASSUME NEW turns \in Seq(Sent) PROVE AsMessages(turns) \in Seq(Messages)
  <2> DEFINE n == 2 * Len(turns)
  <2>1. n \in Nat /\ Len(turns) \in Nat
    OBVIOUS
  <2>2. ASSUME NEW k \in 1..n
        PROVE (IF k % 2 = 1 THEN UserMessage(turns[(k + 1) \div 2]) ELSE Whole(turns[k \div 2])) \in Messages
    <3>1. CASE k % 2 = 1
      <4>1. (k + 1) \div 2 \in 1..Len(turns)
        BY <2>1, <3>1
      <4>2. turns[(k + 1) \div 2] \in Sent
        BY <4>1
      <4> QED
        BY <3>1, <4>2, TypedAnswers
    <3>2. CASE k % 2 # 1
      <4>1. k \div 2 \in 1..Len(turns)
        BY <2>1, <3>2
      <4>2. turns[k \div 2] \in Sent
        BY <4>1
      <4> QED
        BY <3>2, <4>2, <1>1
    <3> QED
      BY <3>1, <3>2
  <2> QED
    BY <2>1, <2>2 DEF AsMessages
<1> QED
  BY <1>1, <1>2

LEMMA InitTypes == Init => TypeInv
<1> SUFFICES ASSUME Init PROVE TypeInv
  OBVIOUS
<1>1. Sent = {} /\ streams = << >> /\ remaining = << >> /\ turn = << >> /\ messages = << >>
  BY DEF Init, Sent
<1>2. shown \in Answers /\ acc \in Answers
  BY TypedAnswers DEF Init
<1>3. stored \in [Sessions -> Seq(Sent)]
  BY DEF Init
<1>4. remaining \in [Sent -> Seq(Events)] /\ turn \in [Sent -> {"running", "stored", "failed"}]
  BY <1>1
<1> QED
  <2>1. messages \in Seq(Messages) /\ streams \in Seq([session : Sessions, state : {"open", "closed", "aborted"}])
    BY <1>1
  <2>2. Len(streams) <= MaxSends
    BY <1>1, BoundsAssumption
  <2>3. /\ currentSessionId \in Sessions \union {None}
        /\ shared \in BOOLEAN /\ timer \in BOOLEAN /\ astray \in BOOLEAN /\ missing \in BOOLEAN
        /\ controller \in Sent \union {0} /\ loads = {} /\ disturbed \subseteq Sent
    BY DEF Init
  <2> QED
    BY <1>1, <1>2, <1>3, <1>4, <2>1, <2>2, <2>3 DEF TypeInv, TypeOK

\* The next event has a place in the turn.
LEMMA EventInTurn ==
  ASSUME TypeInv, ClientShape, NEW s \in Sent, NextEvent(s)
  PROVE  /\ EventAt(s) \in 1..N /\ EventAt(s) = Got(s) + 1 /\ Got(s) \in 0..(N - 1)
         /\ remaining' = [remaining EXCEPT ![s] = Tail(remaining[s])]
         /\ remaining[s] \in Seq(Events) /\ remaining[s] # << >>
         /\ Len(Tail(remaining[s])) = Len(remaining[s]) - 1
<1>1. remaining[s] \in Seq(Events) /\ remaining[s] # << >> /\ Len(remaining[s]) <= N
      /\ remaining' = [remaining EXCEPT ![s] = Tail(remaining[s])]
  BY DEF TypeInv, TypeOK, NextEvent, N
<1>2. Len(remaining[s]) \in 1..N /\ Len(Tail(remaining[s])) = Len(remaining[s]) - 1
  BY <1>1, TurnIsASequence
<1> QED
  BY <1>1, <1>2, TurnIsASequence DEF EventAt, Got, N

\* What a step may do to what the display holds.
DisplayTyped ==
  /\ messages' \in Seq(Messages') /\ shown' \in Answers' /\ acc' \in Answers'
  /\ shared' \in BOOLEAN /\ timer' \in BOOLEAN

LEMMA StepDisplayTypes ==
  ASSUME TypeInv, StreamingInv, StreamingInv', [Next]_vars
  PROVE  DisplayTyped
<1> USE DEF display, server, ghosts
<1>a. messages \in Seq(Messages) /\ shown \in Answers /\ acc \in Answers
      /\ shared \in BOOLEAN /\ timer \in BOOLEAN /\ ClientShape
      /\ acc.isStreaming \in BOOLEAN
  BY DEF TypeInv, TypeOK, StreamingInv, Answers
<1>b. ASSUME Sent \subseteq Sent', messages' \in Seq(Messages), shown' \in Answers, acc' \in Answers,
             shared' \in BOOLEAN, timer' \in BOOLEAN
      PROVE  DisplayTyped
  BY <1>b, TypesGrow DEF DisplayTyped
<1>c. ASSUME Sent' = Sent, Untouched PROVE DisplayTyped
  BY <1>a, <1>b, <1>c DEF Untouched
<1>d. ASSUME Sent' = Sent, Finalised PROVE DisplayTyped
  <2>1. Answer(acc) \in Messages /\ Nothing \in Answers
    BY <1>a, TypedAnswers
  <2> QED
    <3>1. messages' \in Seq(Messages)
      BY <2>1, <1>a, <1>d DEF Finalised
    <3> QED
      BY <3>1, <2>1, <1>b, <1>d DEF Finalised
<1>e. ASSUME Sent' = Sent, FlushedAndStopped, UNCHANGED messages PROVE DisplayTyped
  BY <1>a, <1>b, <1>e, TypedAnswers DEF FlushedAndStopped
<1>1. CASE sendMessage
  <2> DEFINE s == Latest + 1
  <2>1. messages' = Append(messages, UserMessage(s)) /\ acc' = [Nothing EXCEPT !.isStreaming = TRUE]
        /\ shown' = acc' /\ shared' /\ timer'
        /\ streams' = Append(streams, [session |-> currentSessionId, state |-> "open"])
    BY <1>1 DEF sendMessage
  <2>2. Sent' = 1..s /\ Sent = 1..Latest /\ Latest \in Nat
    BY <2>1, <1>a DEF Sent, Latest, ClientShape
  <2>3. Sent \subseteq Sent' /\ s \in Sent'
    BY <2>2
  <2>4. messages \in Seq(Messages') /\ UserMessage(s) \in Messages'
    <3>1. messages \in Seq(Messages')
      BY <2>3, <1>a, TypesGrow
    <3>2. << >> \in Seq(Parts') /\ << >> \in Seq(Calls')
      OBVIOUS
    <3> HIDE DEF s
    <3>3. UserMessage(s) \in Messages'
      BY <2>3, <3>2 DEF UserMessage, Messages
    <3> QED
      BY <3>1, <3>3
  <2>5. acc' \in Answers'
    <3>1. << >> \in Seq(Parts') /\ << >> \in Seq(Calls')
      OBVIOUS
    <3>2. acc' = [content |-> << >>, calls |-> << >>, isStreaming |-> TRUE]
      BY <2>1 DEF Nothing
    <3> QED
      BY <3>1, <3>2 DEF Answers
  <2> HIDE DEF s
  <2> QED
    BY <2>1, <2>4, <2>5 DEF DisplayTyped
<1>2. CASE cancelStream
  <2>1. Sent' = Sent
    BY <1>2 DEF cancelStream, Abort, Sent
  <2> QED
    BY <1>2, <2>1, <1>a, <1>b, TypedAnswers DEF cancelStream
<1>3. CASE leaveSession \/ \E m \in Sessions : selectSession(m) \/ newSession(m)
  <2>1. Sent' = Sent /\ UNCHANGED <<shown, acc, shared, timer>> /\ messages' = << >>
    BY <1>3 DEF leaveSession, selectSession, newSession, Displayed, Sent
  <2> QED
    BY <2>1, <1>a, <1>b
<1>4. ASSUME NEW l \in loads, History(l) PROVE DisplayTyped
  <2>1. CASE ReadHistory(l) \/ FailHistory(l)
    BY <2>1, <1>c DEF ReadHistory, FailHistory, Untouched, Sent
  <2>2. CASE ShowHistory(l)
    <3>1. l.turns \in Seq(Sent)
      BY TypedLoads
    <3>2. AsMessages(l.turns) \in Seq(Messages)
      BY <3>1, TypedHistory
    <3> QED
      BY <2>2, <3>2, <1>a, <1>b DEF ShowHistory, Sent
  <2> QED
    BY <1>4, <2>1, <2>2 DEF History
<1>5. CASE Flush
  BY <1>5, <1>a, <1>b DEF Flush, Flushed, Sent
<1>6. ASSUME NEW s \in Sent, EndTurn(s) PROVE DisplayTyped
  BY <1>6, <1>c DEF EndTurn, Untouched, Sent
<1>7. ASSUME NEW s \in Sent, LoseEvent(s) PROVE DisplayTyped
  BY <1>7, <1>c DEF LoseEvent, NextEvent, Sent
<1>8. ASSUME NEW s \in Sent, CloseStream(s) PROVE DisplayTyped
  BY <1>8, <1>c, <1>d DEF CloseStream, Sent
<1>9. ASSUME NEW s \in Sent, FailStream(s) \/ ReceiveError(s) PROVE DisplayTyped
  BY <1>9, <1>e DEF FailStream, ReceiveError, Sent
<1>10. ASSUME NEW s \in Sent, Receive(s) PROVE DisplayTyped
  <2>1. NextEvent(s) /\ Sent' = Sent
    BY <1>10 DEF Receive, NextEvent, Sent
  <2>2. EventAt(s) \in 1..N /\ shown.calls \in Seq(Calls)
    BY <2>1, <1>a, EventInTurn DEF Answers
  <2>3. ASSUME NEW calls \in Seq(Calls), CallsBecome(calls) PROVE DisplayTyped
    BY <2>1, <2>3, <1>a, <1>b, TypedAnswers DEF CallsBecome
  <2>4. CASE Head(remaining[s]) = "LLMChunk"
    <3>1. LLMChunk(s)
      BY <1>10, <2>4 DEF Receive
    <3>2. <<s, EventAt(s)>> \in Parts
      BY <2>2 DEF Parts, N
    <3> QED
      BY <2>1, <3>1, <3>2, <1>a, <1>b, TypedAnswers DEF LLMChunk
  <2>5. CASE Head(remaining[s]) = "ToolStart"
    <3>1. ToolStart(s)
      BY <1>10, <2>5 DEF Receive
    <3>2. [by |-> s, at |-> EventAt(s), status |-> "running"] \in Calls
      BY <2>2 DEF Calls, N
    <3>3. Append(shown.calls, [by |-> s, at |-> EventAt(s), status |-> "running"]) \in Seq(Calls)
      BY <3>2, <2>2
    <3> QED
      BY <3>1, <3>3, <2>3 DEF ToolStart
  <2>6. CASE Head(remaining[s]) = "ToolEnd"
    <3>1. ToolEnd(s)
      BY <1>10, <2>6 DEF Receive
    <3>2. \A c \in Calls : [c EXCEPT !.status = "success"] \in Calls
      BY DEF Calls
    <3>3. [k \in DOMAIN shown.calls |->
             IF shown.calls[k].by = s /\ shown.calls[k].at = CallOf[EventAt(s)]
             THEN [shown.calls[k] EXCEPT !.status = "success"] ELSE shown.calls[k]] \in Seq(Calls)
      BY <3>2, <2>2
    <3> QED
      BY <3>1, <3>3, <2>3 DEF ToolEnd
  <2>8. CASE Head(remaining[s]) = "AgentEnd"
    BY <1>10, <2>1, <2>8, <1>d DEF Receive
  <2>9. Head(remaining[s]) \in Events
    BY <2>1, <1>a, EventInTurn
  <2> QED
    BY <2>4, <2>5, <2>6, <2>8, <2>9 DEF Events
<1>11. CASE UNCHANGED vars
  BY <1>11, <1>c DEF vars, Untouched, Sent
<1> QED
  BY <1>1, <1>2, <1>3, <1>4, <1>5, <1>6, <1>7, <1>8, <1>9, <1>10, <1>11
    DEF Next, User, Stream

\* The sessions of the streams do not change, and what is over stays over.
Onward ==
  /\ Latest' = Latest /\ Sent' = Sent
  /\ \A s \in Sent : /\ streams'[s].session = streams[s].session
                     /\ IsOpen(s)' => IsOpen(s)
                     /\ streams'[s].state \in {streams[s].state, "closed", "aborted"}
                     /\ ~IsOpen(s) => streams'[s] = streams[s]

LEMMA SameStreams ==
  ASSUME ClientShape, UNCHANGED streams
  PROVE  Onward
BY DEF Onward, Latest, Sent, IsOpen

LEMMA OneStreamEnds ==
  ASSUME ClientShape, NEW s \in Sent, IsOpen(s), NEW st \in {"closed", "aborted"},
         streams' = [streams EXCEPT ![s].state = st]
  PROVE  Onward /\ streams'[s].state = st /\ \A r \in Sent \ {s} : streams'[r] = streams[r]
<1>1. streams \in Seq(StreamRecords) /\ Sent = 1..Len(streams) /\ Len(streams) \in Nat
  BY DEF ClientShape, Sent
<1>2. streams[s] \in StreamRecords
  BY <1>1
<1>3. DOMAIN streams' = Sent /\ Len(streams') = Len(streams)
      /\ streams'[s] = [streams[s] EXCEPT !.state = st]
      /\ \A r \in Sent \ {s} : streams'[r] = streams[r]
  BY <1>1, <1>2, EndedStream DEF Sent
<1>4. streams'[s].session = streams[s].session /\ streams'[s].state = st
  BY <1>2, <1>3 DEF StreamRecords
<1> QED
  BY <1>3, <1>4 DEF Onward, Latest, Sent, IsOpen

\* Every step but sendMessage leaves the list of the streams as it is.
LEMMA StepOnward ==
  ASSUME TypeInv, StreamingInv, [Next]_vars, ~sendMessage
  PROVE  Onward
<1> USE DEF display, server, ghosts
<1>a. ClientShape /\ controller \in Sent \union {0}
  BY DEF StreamingInv, TypeInv, TypeOK
<1>1. CASE UNCHANGED streams
  BY <1>1, <1>a, SameStreams
<1>2. CASE cancelStream
  <2>1. CASE controller # 0 /\ IsOpen(controller)
    <3>1. controller \in Sent /\ streams' = [streams EXCEPT ![controller].state = "aborted"]
      BY <1>2, <2>1, <1>a DEF cancelStream, Abort
    <3> QED
      BY <3>1, <2>1, <1>a, OneStreamEnds
  <2>2. CASE ~(controller # 0 /\ IsOpen(controller))
    BY <1>2, <2>2, <1>1 DEF cancelStream, Abort
  <2> QED
    BY <2>1, <2>2
<1>3. ASSUME NEW s \in Sent, CloseStream(s) \/ FailStream(s) PROVE Onward
  <2>1. IsOpen(s) /\ streams' = [streams EXCEPT ![s].state = "closed"]
    BY <1>3 DEF CloseStream, FailStream
  <2> QED
    BY <2>1, <1>a, OneStreamEnds
<1>4. ASSUME ~cancelStream, ~\E s \in Sent : CloseStream(s) \/ FailStream(s) PROVE UNCHANGED streams
  <2>1. leaveSession \/ (\E m \in Sessions : selectSession(m) \/ newSession(m)) => UNCHANGED streams
    BY DEF leaveSession, selectSession, newSession
  <2>2. \A s \in Sent : Receive(s) \/ LoseEvent(s) \/ ReceiveError(s) \/ EndTurn(s) => UNCHANGED streams
    BY DEF Receive, LoseEvent, ReceiveError, NextEvent, EndTurn
  <2>3. \A l \in loads : History(l) => UNCHANGED streams
    BY DEF History, ReadHistory, ShowHistory, FailHistory
  <2>4. Flush \/ UNCHANGED vars => UNCHANGED streams
    BY DEF Flush, vars
  <2> QED
    BY <2>1, <2>2, <2>3, <2>4, <1>4 DEF Next, User, Stream
<1> QED
  BY <1>1, <1>2, <1>3, <1>4

\* What a step may do to the rest.
RestTyped ==
  /\ astray' \in BOOLEAN /\ missing' \in BOOLEAN /\ controller' \in Sent' \union {0}
  /\ loads' \subseteq Histories'
  /\ Len(streams') <= MaxSends
  /\ turn' \in [Sent' -> {"running", "stored", "failed"}]
  /\ stored' \in [Sessions -> Seq(Sent')]
  /\ disturbed' \subseteq Sent'
  /\ \A s \in Sent' : Len(remaining'[s]) <= Len(Turn)

LEMMA StepRestTypes ==
  ASSUME TypeInv, StreamingInv, StreamingInv', [Next]_vars
  PROVE  RestTyped
<1> USE DEF display, server, ghosts
<1>a. /\ ClientShape
      /\ astray \in BOOLEAN /\ missing \in BOOLEAN /\ controller \in Sent \union {0}
      /\ loads \subseteq Histories
      /\ Len(streams) <= MaxSends
      /\ turn \in [Sent -> {"running", "stored", "failed"}]
      /\ stored \in [Sessions -> Seq(Sent)]
      /\ disturbed \subseteq Sent
      /\ \A s \in Sent : Len(remaining[s]) <= Len(Turn)
      /\ remaining \in [Sent -> Seq(Events)]
      /\ currentSessionId \in Sessions \union {None}
  BY DEF StreamingInv, TypeInv, TypeOK
<1>b. Len(<< >>) <= Len(Turn)
  BY TurnIsASequence DEF N
<1>1. CASE sendMessage
  <2> DEFINE s == Latest + 1
  <2>1. /\ s <= MaxSends /\ currentSessionId # None /\ controller' = s
        /\ streams' = Append(streams, [session |-> currentSessionId, state |-> "open"])
        /\ remaining' = Append(remaining, Turn)
        /\ turn' = Append(turn, "running")
        /\ disturbed' = disturbed \union {r \in {s} : \E o \in Sent : IsOpen(o)}
        /\ astray' = (astray \/ loads # {})
        /\ UNCHANGED <<currentSessionId, loads, stored, missing>>
    BY <1>1 DEF sendMessage
  <2>2. Sent' = 1..s /\ Sent = 1..Latest /\ Latest \in Nat /\ Len(streams') = s
    BY <2>1, <1>a DEF Sent, Latest, ClientShape
  <2>3. Sent \subseteq Sent' /\ s \in Sent' /\ Sent' = Sent \union {s}
    BY <2>2
  <2>4. Seq(Sent) \subseteq Seq(Sent')
    BY <2>3, SeqGrows
  <2>5. turn' \in [Sent' -> {"running", "stored", "failed"}]
    <3>1. turn \in Seq({"running", "stored", "failed"}) /\ Len(turn) = Latest
      BY <1>a, <2>2
    <3>2. turn' \in Seq({"running", "stored", "failed"}) /\ Len(turn') = Latest + 1
      BY <3>1, <2>1
    <3> QED
      BY <3>2, <2>2
  <2>6. \A r \in Sent' : Len(remaining'[r]) <= Len(Turn)
    <3>1. remaining \in Seq(Seq(Events)) /\ Len(remaining) = Latest
      BY <1>a, <2>2 DEF ClientShape, Latest
    <3>2. \A r \in Sent : remaining'[r] = remaining[r]
      BY <3>1, <2>1, <2>2
    <3>3. remaining'[s] = Turn
      <4>1. Turn \in Seq(Events)
        BY TurnAssumption DEF Events
      <4>2. Append(remaining, Turn)[Len(remaining) + 1] = Turn
        BY <3>1, <4>1
      <4> QED
        BY <4>2, <3>1, <2>1
    <3>4. Len(Turn) <= Len(Turn)
      BY TurnIsASequence DEF N
    <3> HIDE DEF s
    <3> QED
      BY <3>2, <3>3, <3>4, <2>3, <1>a
  <2>7. astray' \in BOOLEAN /\ missing' \in BOOLEAN
    <3>1. astray' \in BOOLEAN
      BY <2>1, <1>a, Zenon
    <3>2. missing' \in BOOLEAN
      BY <2>1, <1>a, Zenon
    <3> QED
      BY <3>1, <3>2, Zenon
  <2>8. disturbed' \subseteq Sent'
    BY <2>1, <2>3, <1>a
  <2>9. Len(streams') <= MaxSends
    BY <2>1, <2>2
  <2>10. stored' \in [Sessions -> Seq(Sent')]
    BY <2>1, <2>4, <1>a
  <2>11. loads' \subseteq Histories'
    BY <2>1, <2>4, <1>a DEF Histories
  <2> QED
    BY <2>1, <2>3, <2>5, <2>6, <2>7, <2>8, <2>9, <2>10, <2>11 DEF RestTyped
<1> SUFFICES ASSUME ~sendMessage PROVE RestTyped
  BY <1>1
<1>c. Sent' = Sent /\ Len(streams') = Len(streams)
  BY StepOnward DEF Onward, Latest
<1>d. Histories' = Histories
  BY <1>c DEF Histories
<1>2. CASE cancelStream
  <2>1. Abort(controller) /\ controller' = 0 /\ UNCHANGED <<loads, turn, stored, astray, missing>>
    BY <1>2 DEF cancelStream
  <2>2. disturbed' \subseteq Sent' /\ \A r \in Sent' : Len(remaining'[r]) <= Len(Turn)
    BY <2>1, <1>a, <1>b, <1>c DEF Abort
  <2> QED
    BY <2>1, <2>2, <1>a, <1>c, <1>d DEF RestTyped
<1>3. CASE leaveSession \/ \E m \in Sessions : newSession(m)
  <2>1. UNCHANGED <<controller, loads, turn, stored, disturbed, remaining>> /\ missing' = FALSE
        /\ astray' = (astray \/ loads # {} \/ \E s \in Sent : IsOpen(s))
    BY <1>3 DEF leaveSession, newSession, Displayed
  <2>2. astray' \in BOOLEAN
    BY <2>1, Zenon
  <2> QED
    BY <2>1, <2>2, <1>a, <1>c, <1>d DEF RestTyped
<1>4. ASSUME NEW m \in Sessions, selectSession(m) PROVE RestTyped
  <2>1. UNCHANGED <<controller, turn, stored, disturbed, remaining>> /\ missing' = FALSE
        /\ astray' = (astray \/ loads # {} \/ \E s \in Sent : IsOpen(s))
    BY <1>4 DEF selectSession, Displayed
  <2>2. astray' \in BOOLEAN
    BY <2>1, Zenon
  <2>3. PICK i \in (1..MaxLoads) \ {l.id : l \in loads} :
          loads' = loads \union {[id |-> i, session |-> m, turns |-> << >>, read |-> FALSE]}
    BY <1>4 DEF selectSession
  <2>4. << >> \in Seq(Sent)
    OBVIOUS
  <2>5. [id |-> i, session |-> m, turns |-> << >>, read |-> FALSE] \in Histories
    BY <2>4 DEF Histories
  <2> QED
    BY <2>1, <2>2, <2>3, <2>5, <1>a, <1>c, <1>d DEF RestTyped
<1>5. ASSUME NEW l \in loads, ReadHistory(l) PROVE RestTyped
  <2>1. UNCHANGED <<controller, turn, stored, disturbed, remaining, astray, missing>>
        /\ loads' = (loads \ {l}) \union {[l EXCEPT !.read = TRUE, !.turns = stored[l.session]]}
    BY <1>5 DEF ReadHistory
  <2>2. loads' \subseteq Histories
    BY <2>1, <1>a, TypedLoads
  <2> QED
    BY <2>1, <2>2, <1>a, <1>c, <1>d DEF RestTyped
<1>6. ASSUME NEW l \in loads, ShowHistory(l) \/ FailHistory(l) PROVE RestTyped
  BY <1>6, <1>a, <1>c, <1>d DEF RestTyped, ShowHistory, FailHistory
<1>7. CASE Flush \/ UNCHANGED vars
  BY <1>7, <1>a, <1>c, <1>d DEF RestTyped, Flush, vars
<1>8. ASSUME NEW s \in Sent, EndTurn(s) PROVE RestTyped
  <2>1. UNCHANGED <<controller, loads, remaining, disturbed, astray, missing>>
    BY <1>8 DEF EndTurn
  <2>2. streams[s].session \in Sessions
    <3>1. streams[s] \in StreamRecords
      BY <1>a DEF ClientShape, Sent
    <3> QED
      BY <3>1 DEF StreamRecords
  <2>3. Append(stored[streams[s].session], s) \in Seq(Sent)
    <3>1. stored[streams[s].session] \in Seq(Sent)
      BY <2>2, <1>a
    <3> QED
      BY <3>1
  <2>4. stored' \in [Sessions -> Seq(Sent)]
    BY <1>8, <2>2, <2>3, <1>a DEF EndTurn
  <2>5. turn' \in [Sent -> {"running", "stored", "failed"}]
    BY <1>8, <1>a DEF EndTurn
  <2> QED
    BY <2>1, <2>4, <2>5, <1>a, <1>c, <1>d DEF RestTyped
<1>9. ASSUME NEW s \in Sent, ReceiveError(s) \/ FailStream(s) PROVE RestTyped
  <2>1. UNCHANGED <<controller, loads, turn, stored, astray, missing>> /\ disturbed' = disturbed \union {s}
        /\ remaining' = [remaining EXCEPT ![s] = << >>]
    BY <1>9 DEF ReceiveError, FailStream
  <2>2. \A r \in Sent : Len(remaining'[r]) <= Len(Turn)
    BY <2>1, <1>a, <1>b
  <2> QED
    BY <2>1, <2>2, <1>a, <1>c, <1>d DEF RestTyped
<1>10. ASSUME NEW s \in Sent, Receive(s) \/ LoseEvent(s) PROVE RestTyped
  <2>1. NextEvent(s) /\ UNCHANGED <<controller, loads, turn, stored, astray, missing>>
        /\ disturbed' \in {disturbed, disturbed \union {s}}
    BY <1>10 DEF Receive, LoseEvent, NextEvent
  <2>2. remaining' = [remaining EXCEPT ![s] = Tail(remaining[s])]
        /\ Len(Tail(remaining[s])) <= Len(Turn)
    <3>1. Len(remaining[s]) \in Nat /\ Len(Turn) \in Nat /\ Len(remaining[s]) <= Len(Turn)
      BY <1>a, TurnIsASequence DEF N
    <3> QED
      BY <2>1, <3>1, <1>a, EventInTurn
  <2>3. \A r \in Sent : Len(remaining'[r]) <= Len(Turn)
    BY <2>2, <1>a
  <2> QED
    BY <2>1, <2>3, <1>a, <1>c, <1>d DEF RestTyped
<1>11. ASSUME NEW s \in Sent, CloseStream(s) PROVE RestTyped
  BY <1>11, <1>a, <1>c, <1>d DEF RestTyped, CloseStream
<1> QED
  BY <1>2, <1>3, <1>4, <1>5, <1>6, <1>7, <1>8, <1>9, <1>10, <1>11
    DEF Next, User, Stream, History

LEMMA StepTypes == TypeInv /\ StreamingInv /\ StreamingInv' /\ [Next]_vars => TypeInv'
<1> SUFFICES ASSUME TypeInv, StreamingInv, StreamingInv', [Next]_vars PROVE TypeInv'
  OBVIOUS
<1>1. DisplayTyped /\ RestTyped /\ ClientShape'
  BY StepDisplayTypes, StepRestTypes DEF StreamingInv
<1>2. remaining' \in [Sent' -> Seq(Events')]
  BY <1>1 DEF ClientShape, Sent, Events
<1>3. TypeOK'
  BY <1>1, <1>2 DEF TypeOK, DisplayTyped, RestTyped, ClientShape, StreamRecords
<1> QED
  BY <1>1, <1>3 DEF TypeInv, RestTyped

-----------------------------------------------------------------------------
(* The answers *)

LEMMA WhatIsMentioned ==
  /\ \A r : ~Mentions(Nothing, r) /\ ~Mentions([Nothing EXCEPT !.isStreaming = TRUE], r)
  /\ \A s, r : ~Mentions(UserMessage(s), r)
  /\ \A r : \A a \in Answers :
       (Mentions(Stopped(a), r) <=> Mentions(a, r)) /\ (Mentions(Answer(a), r) <=> Mentions(a, r))
<1>1. \A s, r : ~Mentions(UserMessage(s), r)
  BY DEF Mentions, UserMessage
<1>2. \A r : ~Mentions(Nothing, r) /\ ~Mentions([Nothing EXCEPT !.isStreaming = TRUE], r)
  BY DEF Mentions, Nothing
<1>3. ASSUME NEW a \in Answers
      PROVE  /\ Stopped(a).content = a.content /\ Stopped(a).calls = a.calls
             /\ Answer(a).content = a.content /\ Answer(a).calls = a.calls
  BY DEF Answers, Stopped, Answer
<1> QED
  BY <1>1, <1>2, <1>3 DEF Mentions

\* The parts of a turn come into the accumulator and what is shown of it with
\* the events of that turn only.
LEMMA StepMentions ==
  ASSUME TypeInv, StreamingInv, [Next]_vars, NEW r, Mentions(acc', r) \/ Mentions(shown', r)
  PROVE  Mentions(acc, r) \/ Mentions(shown, r) \/ (r \in Sent /\ Receive(r))
<1> USE DEF display, server, ghosts
<1>a. shown \in Answers /\ acc \in Answers
  BY DEF TypeInv, TypeOK
<1>b. ASSUME UNCHANGED <<shown, acc>> PROVE Mentions(acc, r) \/ Mentions(shown, r)
  BY <1>b
<1>c. ASSUME shown' \in {acc, Stopped(acc), Stopped(shown), Nothing},
             acc' \in {acc, Stopped(acc), Nothing}
      PROVE  Mentions(acc, r) \/ Mentions(shown, r)
  BY <1>a, <1>c, WhatIsMentioned
<1>1. CASE sendMessage
  <2>1. acc' = [Nothing EXCEPT !.isStreaming = TRUE] /\ shown' = acc'
    BY <1>1 DEF sendMessage
  <2> QED
    BY <2>1, WhatIsMentioned
<1>2. CASE cancelStream
  BY <1>2, <1>c DEF cancelStream
<1>3. CASE leaveSession \/ (\E m \in Sessions : selectSession(m) \/ newSession(m))
  BY <1>3, <1>b DEF leaveSession, selectSession, newSession
<1>4. ASSUME NEW l \in loads, History(l) PROVE Mentions(acc, r) \/ Mentions(shown, r)
  BY <1>4, <1>b DEF History, ReadHistory, ShowHistory, FailHistory
<1>5. CASE Flush \/ UNCHANGED vars
  BY <1>5, <1>b, <1>c DEF Flush, Flushed, vars
<1>6. ASSUME NEW s \in Sent, LoseEvent(s) \/ EndTurn(s) PROVE Mentions(acc, r) \/ Mentions(shown, r)
  BY <1>6, <1>b DEF LoseEvent, Untouched, EndTurn
<1>7. ASSUME NEW s \in Sent, CloseStream(s) \/ FailStream(s) \/ ReceiveError(s)
      PROVE  Mentions(acc, r) \/ Mentions(shown, r)
  BY <1>7, <1>b, <1>c DEF CloseStream, FailStream, ReceiveError, FlushedAndStopped, Finalised, Untouched
<1>8. ASSUME NEW s \in Sent, Receive(s) PROVE Mentions(acc, r) \/ Mentions(shown, r) \/ r = s
  <2>1. NextEvent(s) /\ Head(remaining[s]) \in Events
    <3>1. NextEvent(s) /\ ClientShape
      BY <1>8 DEF Receive, StreamingInv
    <3> QED
      BY <3>1, EventInTurn
  <2>2. CASE Head(remaining[s]) = "LLMChunk"
    <3>1. LLMChunk(s)
      BY <1>8, <2>2 DEF Receive
    <3>2. shown' = shown /\ acc'.calls = acc.calls /\ acc'.content = Append(acc.content, <<s, EventAt(s)>>)
      BY <3>1, <1>a DEF LLMChunk, Answers
    <3>3. acc.content \in Seq(Parts)
      BY <1>a DEF Answers
    <3>4. \A k \in DOMAIN acc'.content :
            \/ k \in DOMAIN acc.content /\ acc'.content[k] = acc.content[k]
            \/ acc'.content[k] = <<s, EventAt(s)>>
      BY <3>2, <3>3
    <3> QED
      BY <3>2, <3>4 DEF Mentions
  <2>3. ASSUME NEW calls, CallsBecome(calls),
               \A k \in DOMAIN calls :
                 \/ calls[k].by = s
                 \/ k \in DOMAIN shown.calls /\ calls[k].by = shown.calls[k].by
        PROVE  Mentions(acc, r) \/ Mentions(shown, r) \/ r = s
    <3>1. shown'.content = shown.content /\ shown'.calls = calls
          /\ acc'.content = acc.content /\ acc'.calls \in {acc.calls, calls}
      BY <2>3, <1>a DEF CallsBecome, Answers
    <3> QED
      BY <3>1, <2>3 DEF Mentions
  <2>4. shown.calls \in Seq(Calls)
    BY <1>a DEF Answers
  <2>5. CASE Head(remaining[s]) = "ToolStart"
    <3> DEFINE c == [by |-> s, at |-> EventAt(s), status |-> "running"]
    <3>1. CallsBecome(Append(shown.calls, c))
      BY <1>8, <2>5 DEF Receive, ToolStart
    <3>2. \A k \in DOMAIN Append(shown.calls, c) :
            \/ k \in DOMAIN shown.calls /\ Append(shown.calls, c)[k] = shown.calls[k]
            \/ Append(shown.calls, c)[k] = c
      BY <2>4
    <3>3. c.by = s
      OBVIOUS
    <3> HIDE DEF c
    <3>4. \A k \in DOMAIN Append(shown.calls, c) :
            \/ Append(shown.calls, c)[k].by = s
            \/ k \in DOMAIN shown.calls /\ Append(shown.calls, c)[k].by = shown.calls[k].by
      BY <3>2, <3>3
    <3> QED
      BY <3>1, <3>4, <2>3
  <2>6. CASE Head(remaining[s]) = "ToolEnd"
    <3> DEFINE calls == [k \in DOMAIN shown.calls |->
                           IF shown.calls[k].by = s /\ shown.calls[k].at = CallOf[EventAt(s)]
                           THEN [shown.calls[k] EXCEPT !.status = "success"] ELSE shown.calls[k]]
    <3>1. CallsBecome(calls)
      BY <1>8, <2>6 DEF Receive, ToolEnd
    <3>2. \A c \in Calls : [c EXCEPT !.status = "success"].by = c.by
      BY DEF Calls
    <3>3. \A k \in DOMAIN calls : k \in DOMAIN shown.calls /\ calls[k].by = shown.calls[k].by
      BY <3>2, <2>4
    <3> HIDE DEF calls
    <3> QED
      BY <3>1, <3>3, <2>3
  <2>7. CASE Head(remaining[s]) = "AgentEnd"
    BY <1>8, <2>7, <1>c DEF Receive, Finalised
  <2> QED
    BY <2>1, <2>2, <2>5, <2>6, <2>7 DEF Events
<1> QED
  BY <1>1, <1>2, <1>3, <1>4, <1>5, <1>6, <1>7, <1>8 DEF Next, User, Stream

\* Nothing makes a turn undisturbed again.
LEMMA StepDisturbs == [Next]_vars => disturbed \subseteq disturbed'
<1> USE DEF display, server, ghosts
<1>1. User => disturbed \subseteq disturbed'
  BY DEF User, sendMessage, cancelStream, Abort, leaveSession, selectSession, newSession
<1>2. \A s \in Sent : Stream(s) \/ EndTurn(s) => disturbed \subseteq disturbed'
  BY DEF Stream, Receive, LoseEvent, ReceiveError, CloseStream, FailStream, EndTurn
<1>3. (\E l \in loads : History(l)) \/ Flush \/ UNCHANGED vars
        => UNCHANGED disturbed
  BY DEF History, ReadHistory, ShowHistory, FailHistory, Flush, vars
<1> QED
  BY <1>1, <1>2, <1>3 DEF Next

\* What sendMessage does to the streams and their turns.
LEMMA SendingGrows ==
  ASSUME TypeInv, StreamingInv, sendMessage
  PROVE  LET s == Latest + 1 IN
         /\ Latest \in Nat /\ Latest' = s /\ Sent = 1..Latest /\ Sent' = Sent \union {s} /\ s \notin Sent
         /\ \A r \in Sent : streams'[r] = streams[r] /\ remaining'[r] = remaining[r] /\ turn'[r] = turn[r]
         /\ streams'[s] = [session |-> currentSessionId, state |-> "open"]
         /\ remaining'[s] = Turn /\ turn'[s] = "running"
         /\ ~shown.isStreaming /\ ~acc.isStreaming
<1> DEFINE s == Latest + 1
           rec == [session |-> currentSessionId, state |-> "open"]
<1>1. /\ streams' = Append(streams, rec) /\ remaining' = Append(remaining, Turn)
      /\ turn' = Append(turn, "running") /\ ~shown.isStreaming /\ currentSessionId # None
  BY DEF sendMessage
<1>2. ClientShape /\ turn \in [Sent -> {"running", "stored", "failed"}] /\ ~acc.isStreaming
  BY <1>1 DEF StreamingInv, TypeInv, TypeOK
<1>3. Latest \in Nat /\ Sent = 1..Latest /\ Len(remaining) = Latest /\ Len(streams) = Latest
  BY <1>2, SentIsAnInterval DEF Latest
<1>4. Latest' = s /\ Sent' = 1..s
  BY <1>1, <1>2, <1>3 DEF Latest, Sent, ClientShape
<1> HIDE DEF s, rec
<1>5. rec \in StreamRecords
  BY <1>1, <1>2 DEF rec, ClientShape, StreamRecords
<1>6. Turn \in Seq(Events)
  BY TurnAssumption DEF Events
<1>7. turn \in Seq({"running", "stored", "failed"}) /\ Len(turn) = Latest
  BY <1>2, <1>3
<1>8. streams'[s] = rec /\ \A r \in Sent : streams'[r] = streams[r]
  <2>1. Append(streams, rec)[s] = rec /\ \A r \in 1..Latest : Append(streams, rec)[r] = streams[r]
    <3>1. streams \in Seq(StreamRecords) /\ rec \in StreamRecords /\ Len(streams) = Latest
      BY <1>2, <1>3, <1>5 DEF ClientShape
    <3>2. Append(streams, rec)[Len(streams) + 1] = rec
      BY <3>1
    <3>3. \A r \in 1..Latest : Append(streams, rec)[r] = streams[r]
      BY <3>1, <1>3
    <3> QED
      BY <3>1, <3>2, <3>3 DEF s
  <2> QED
    BY <1>1, <1>3, <2>1
<1>9. remaining'[s] = Turn /\ \A r \in Sent : remaining'[r] = remaining[r]
  <2>1. Append(remaining, Turn)[s] = Turn /\ \A r \in 1..Latest : Append(remaining, Turn)[r] = remaining[r]
    <3>1. remaining \in Seq(Seq(Events)) /\ Turn \in Seq(Events) /\ Len(remaining) = Latest
      BY <1>2, <1>3, <1>6 DEF ClientShape
    <3>2. Append(remaining, Turn)[Len(remaining) + 1] = Turn
      BY <3>1
    <3>3. \A r \in 1..Latest : Append(remaining, Turn)[r] = remaining[r]
      BY <3>1, <1>3
    <3> QED
      BY <3>1, <3>2, <3>3 DEF s
  <2> QED
    BY <1>1, <1>3, <2>1
<1>10. turn'[s] = "running" /\ \A r \in Sent : turn'[r] = turn[r]
  <2>1. Append(turn, "running")[s] = "running" /\ \A r \in 1..Latest : Append(turn, "running")[r] = turn[r]
    <3>1. Append(turn, "running")[Len(turn) + 1] = "running"
      BY <1>7
    <3>2. \A r \in 1..Latest : Append(turn, "running")[r] = turn[r]
      BY <1>3, <1>7
    <3> QED
      BY <1>7, <3>1, <3>2 DEF s
  <2> QED
    BY <1>1, <1>3, <2>1
<1>11. Sent' = Sent \union {s} /\ s \notin Sent
  BY <1>3, <1>4 DEF s
<1> QED
  BY <1>1, <1>2, <1>3, <1>4, <1>8, <1>9, <1>10, <1>11 DEF s, rec

\* What the steps do to the turns under way: sendMessage apart, a turn that is
\* undisturbed after a step is as it was, or its next event has come, or its
\* stream is closed, or the server is done with it.
LEMMA StepOfTurn ==
  ASSUME TypeInv, StreamingInv, [Next]_vars, ~sendMessage, NEW s \in Sent, s \notin disturbed'
  PROVE  \/ UNCHANGED <<streams[s], remaining[s], turn[s]>>
         \/ /\ Receive(s) /\ IsOpen(s) /\ UNCHANGED <<streams[s], turn[s]>>
            /\ remaining'[s] = Tail(remaining[s])
         \/ /\ CloseStream(s) /\ streams'[s].state = "closed" /\ UNCHANGED <<remaining[s], turn[s]>>
         \/ EndTurn(s) /\ UNCHANGED <<streams[s], remaining[s]>> /\ turn'[s] \in {"stored", "failed"}
<1> USE DEF display, server, ghosts
<1>a. ClientShape /\ turn \in [Sent -> {"running", "stored", "failed"}]
      /\ remaining \in [Sent -> Seq(Events)] /\ controller \in Sent \union {0}
  BY DEF StreamingInv, TypeInv, TypeOK
<1>b. ASSUME UNCHANGED <<streams, remaining, turn>> PROVE UNCHANGED <<streams[s], remaining[s], turn[s]>>
  BY <1>b
<1>1. CASE cancelStream
  <2>1. Abort(controller) /\ UNCHANGED turn
    BY <1>1 DEF cancelStream
  <2>2. CASE controller # 0 /\ IsOpen(controller)
    <3>1. controller \in Sent /\ controller # s
          /\ streams' = [streams EXCEPT ![controller].state = "aborted"]
          /\ remaining' = [remaining EXCEPT ![controller] = << >>]
      BY <2>1, <2>2, <1>a DEF Abort
    <3>2. streams'[s] = streams[s]
      BY <3>1, <2>2, <1>a, OneStreamEnds
    <3> QED
      BY <2>1, <3>1, <3>2, <1>a
  <2>3. CASE ~(controller # 0 /\ IsOpen(controller))
    BY <2>1, <2>3, <1>b DEF Abort
  <2> QED
    BY <2>2, <2>3
<1>2. CASE leaveSession \/ (\E m \in Sessions : selectSession(m) \/ newSession(m))
  BY <1>2, <1>b DEF leaveSession, selectSession, newSession
<1>3. ASSUME NEW l \in loads, History(l) PROVE UNCHANGED <<streams[s], remaining[s], turn[s]>>
  BY <1>3, <1>b DEF History, ReadHistory, ShowHistory, FailHistory
<1>4. CASE Flush \/ UNCHANGED vars
  BY <1>4, <1>b DEF Flush, vars
<1>5. ASSUME NEW r \in Sent, Receive(r)
      PROVE  UNCHANGED <<streams[s], remaining[s], turn[s]>>
             \/ (r = s /\ IsOpen(s) /\ remaining'[s] = Tail(remaining[s]) /\ UNCHANGED <<streams[s], turn[s]>>)
  <2>1. IsOpen(r) /\ remaining' = [remaining EXCEPT ![r] = Tail(@)] /\ UNCHANGED <<streams, turn>>
    BY <1>5 DEF Receive, NextEvent
  <2> QED
    BY <2>1, <1>a
<1>6. ASSUME NEW r \in Sent, LoseEvent(r) PROVE UNCHANGED <<streams[s], remaining[s], turn[s]>>
  <2>1. r # s /\ remaining' = [remaining EXCEPT ![r] = Tail(@)] /\ UNCHANGED <<streams, turn>>
    BY <1>6 DEF LoseEvent, NextEvent
  <2> QED
    BY <2>1, <1>a
<1>7. ASSUME NEW r \in Sent, CloseStream(r)
      PROVE  UNCHANGED <<remaining[s], turn[s]>> /\ IF r = s THEN streams'[s].state = "closed" ELSE UNCHANGED streams[s]
  <2>1. IsOpen(r) /\ streams' = [streams EXCEPT ![r].state = "closed"] /\ UNCHANGED <<remaining, turn>>
    BY <1>7 DEF CloseStream
  <2> QED
    BY <2>1, <1>a, OneStreamEnds
<1>8. ASSUME NEW r \in Sent, FailStream(r) PROVE UNCHANGED <<streams[s], remaining[s], turn[s]>>
  <2>1. IsOpen(r) /\ r # s /\ streams' = [streams EXCEPT ![r].state = "closed"]
        /\ remaining' = [remaining EXCEPT ![r] = << >>] /\ UNCHANGED turn
    BY <1>8 DEF FailStream
  <2> QED
    BY <2>1, <1>a, OneStreamEnds
<1>9. ASSUME NEW r \in Sent, EndTurn(r)
      PROVE  UNCHANGED <<streams[s], remaining[s]>>
             /\ IF r = s THEN turn'[s] \in {"stored", "failed"} ELSE UNCHANGED turn[s]
  BY <1>9, <1>a DEF EndTurn
<1>10. ASSUME NEW r \in Sent, ReceiveError(r) PROVE UNCHANGED <<streams[s], remaining[s], turn[s]>>
  BY <1>10, <1>a DEF ReceiveError
<1>11. \/ cancelStream \/ leaveSession \/ (\E m \in Sessions : selectSession(m) \/ newSession(m))
       \/ (\E l \in loads : History(l)) \/ Flush \/ UNCHANGED vars
       \/ \E r \in Sent : \/ Receive(r) \/ LoseEvent(r) \/ ReceiveError(r) \/ CloseStream(r)
                          \/ FailStream(r) \/ EndTurn(r)
  BY DEF Next, User, Stream
<1>12. CASE \E r \in Sent : \/ Receive(r) \/ LoseEvent(r) \/ ReceiveError(r) \/ CloseStream(r)
                            \/ FailStream(r) \/ EndTurn(r)
  BY <1>12, <1>5, <1>6, <1>7, <1>8, <1>9, <1>10
<1> QED
  BY <1>1, <1>2, <1>3, <1>4, <1>11, <1>12

LEMMA StepRest ==
  ASSUME TypeInv, StreamingInv, RestIsToCome, [Next]_vars
  PROVE  RestIsToCome'
<1>a. disturbed \subseteq disturbed'
  BY StepDisturbs
<1>1. CASE sendMessage
  <2> DEFINE n == Latest + 1
  <2>1. /\ Sent' = Sent \union {n} /\ n \notin Sent /\ Latest' = n
        /\ \A r \in Sent : streams'[r] = streams[r] /\ remaining'[r] = remaining[r] /\ turn'[r] = turn[r]
        /\ streams'[n].state = "open" /\ remaining'[n] = Turn
    BY <1>1, SendingGrows
  <2> HIDE DEF n
  <2>2. ASSUME NEW s \in Sent' \ disturbed', s = n
        PROVE  /\ streams'[s].state = "open"
               /\ \A i \in 1..Len(remaining'[s]) : remaining'[s][i] = Turn[Got(s)' + i]
    <3>1. Got(s)' = 0 /\ remaining'[s] = Turn
      BY <2>1, <2>2, TurnIsASequence DEF Got, N
    <3>2. \A i \in 1..Len(Turn) : 0 + i = i
      BY TurnIsASequence DEF N
    <3> QED
      BY <2>1, <2>2, <3>1, <3>2
  <2>3. ASSUME NEW s \in Sent' \ disturbed', s # n
        PROVE  s \in Sent \ disturbed /\ Got(s)' = Got(s) /\ UNCHANGED <<streams[s], remaining[s], turn[s]>>
    BY <2>1, <2>3, <1>a DEF Got
  <2> QED
    BY <2>2, <2>3 DEF RestIsToCome
<1>2. CASE ~sendMessage
  <2> SUFFICES ASSUME NEW s \in Sent' \ disturbed'
               PROVE  /\ streams'[s].state # "aborted"
                      /\ streams'[s].state = "closed" => remaining'[s] = << >> /\ turn'[s] # "running"
                      /\ \A i \in 1..Len(remaining'[s]) : remaining'[s][i] = Turn[Got(s)' + i]
    BY DEF RestIsToCome
  <2>1. s \in Sent \ disturbed /\ s \notin disturbed'
    BY <1>2, <1>a, StepOnward DEF Onward
  <2>2. /\ streams[s].state # "aborted"
        /\ streams[s].state = "closed" => remaining[s] = << >> /\ turn[s] # "running"
        /\ \A i \in 1..Len(remaining[s]) : remaining[s][i] = Turn[Got(s) + i]
    BY <2>1 DEF RestIsToCome
  <2>3. CASE UNCHANGED <<streams[s], remaining[s], turn[s]>>
    BY <2>2, <2>3 DEF Got
  <2>4. CASE Receive(s) /\ IsOpen(s) /\ UNCHANGED <<streams[s], turn[s]>>
             /\ remaining'[s] = Tail(remaining[s])
    <3>1. remaining[s] \in Seq(Events) /\ remaining[s] # << >>
          /\ Len(Tail(remaining[s])) = Len(remaining[s]) - 1 /\ Got(s) \in Nat
          /\ Len(Turn) \in Nat /\ Len(remaining[s]) \in Nat
      BY <2>1, <2>4, EventInTurn, TurnIsASequence DEF StreamingInv, Receive, N
    <3>2. Got(s)' = Got(s) + 1
      <4>1. Len(remaining'[s]) = Len(remaining[s]) - 1
        BY <2>4, <3>1
      <4>2. Got(s)' = Len(Turn) - Len(remaining'[s])
        BY DEF Got
      <4> QED
        BY <4>1, <4>2, <3>1 DEF Got
    <3>3. ASSUME NEW i \in 1..Len(remaining'[s]) PROVE remaining'[s][i] = Turn[Got(s)' + i]
      <4>1. i \in 1..(Len(remaining[s]) - 1) /\ i + 1 \in 1..Len(remaining[s])
        BY <3>1, <2>4
      <4>2. Tail(remaining[s])[i] = remaining[s][i + 1]
        BY <3>1, <4>1
      <4>3. Got(s) + (i + 1) = Got(s)' + i
        BY <3>1, <3>2, <4>1
      <4> QED
        BY <4>1, <4>2, <4>3, <2>2, <2>4
    <3> QED
      BY <3>3, <2>4 DEF IsOpen
  <2>5. CASE CloseStream(s) /\ streams'[s].state = "closed" /\ UNCHANGED <<remaining[s], turn[s]>>
    <3>1. remaining[s] = << >> /\ turn[s] # "running"
      BY <2>5 DEF CloseStream
    <3> QED
      BY <3>1, <2>2, <2>5 DEF Got
  <2>6. CASE EndTurn(s) /\ UNCHANGED <<streams[s], remaining[s]>> /\ turn'[s] \in {"stored", "failed"}
    BY <2>2, <2>6 DEF Got
  <2> QED
    BY <1>2, <2>1, <2>3, <2>4, <2>5, <2>6, StepOfTurn
<1> QED
  BY <1>1, <1>2

LEMMA StepOlder ==
  ASSUME TypeInv, StreamingInv, OlderAreClosed, [Next]_vars
  PROVE  OlderAreClosed'
<1>a. disturbed \subseteq disturbed' /\ Sent = 1..Latest /\ Latest \in Nat
  BY StepDisturbs, SentIsAnInterval DEF StreamingInv
<1>1. CASE sendMessage
  <2> DEFINE n == Latest + 1
  <2>1. /\ Sent' = Sent \union {n} /\ \A r \in Sent : streams'[r] = streams[r]
        /\ (\E o \in Sent : IsOpen(o)) => n \in disturbed'
    <3>1. disturbed' = disturbed \union {r \in {n} : \E o \in Sent : IsOpen(o)}
      BY <1>1 DEF sendMessage
    <3> QED
      BY <1>1, <3>1, SendingGrows
  <2>2. ASSUME NEW s \in Sent' \ disturbed', NEW r \in 1..(s - 1) PROVE ~IsOpen(r)'
    <3>1. r \in Sent
      BY <2>1, <1>a
    <3>2. ~IsOpen(r)
      BY <2>1, <1>a, <3>1 DEF OlderAreClosed
    <3> QED
      BY <3>1, <3>2, <2>1 DEF IsOpen
  <2> QED
    BY <2>2 DEF OlderAreClosed
<1>2. CASE ~sendMessage
  <2>1. Sent' = Sent /\ \A r \in Sent : IsOpen(r)' => IsOpen(r)
    BY <1>2, StepOnward DEF Onward
  <2>2. ASSUME NEW s \in Sent' \ disturbed', NEW r \in 1..(s - 1) PROVE ~IsOpen(r)'
    <3>1. r \in Sent /\ s \in Sent \ disturbed
      BY <2>1, <1>a
    <3> QED
      BY <3>1, <2>1 DEF OlderAreClosed
  <2> QED
    BY <2>2 DEF OlderAreClosed
<1> QED
  BY <1>1, <1>2

\* While a stream is open, every undisturbed turn but its own is over.
LEMMA OnlyTheLatest ==
  ASSUME StreamingInv, OlderAreClosed, AccumulatesTheLatest,
         NEW s \in Sent, IsOpen(s), NEW r \in Sent \ disturbed, r # s
  PROVE  /\ remaining[r] = << >> /\ ~Mentions(acc, r) /\ ~Mentions(shown, r)
         /\ r = Latest => ~acc.isStreaming
<1>1. Sent = 1..Latest /\ Latest \in Nat
  BY SentIsAnInterval DEF StreamingInv
<1>2. r = Latest => s \in 1..(r - 1)
  BY <1>1
<1>3. r # Latest \/ remaining[r] = << >>
  BY <1>2 DEF OlderAreClosed
<1> QED
  BY <1>3 DEF AccumulatesTheLatest

\* The next event of an undisturbed turn is the next of Turn.
LEMMA ReceivedIsNext ==
  ASSUME TypeInv, StreamingInv, RestIsToCome, NEW s \in Sent \ disturbed, Receive(s)
  PROVE  /\ Got(s) \in 0..(N - 1) /\ EventAt(s) = Got(s) + 1 /\ Got(s)' = Got(s) + 1
         /\ Head(remaining[s]) = Turn[Got(s) + 1]
         /\ Head(remaining[s]) \in {"LLMChunk", "ToolStart", "ToolEnd", "AgentEnd"}
         /\ Head(remaining[s]) = "AgentEnd" <=> remaining'[s] = << >>
         /\ Head(remaining[s]) = "AgentEnd" <=> Got(s) = N - 1
<1>1. NextEvent(s) /\ ClientShape
  BY DEF Receive, StreamingInv
<1>2. /\ EventAt(s) \in 1..N /\ EventAt(s) = Got(s) + 1 /\ Got(s) \in 0..(N - 1)
      /\ remaining' = [remaining EXCEPT ![s] = Tail(remaining[s])]
      /\ remaining[s] \in Seq(Events) /\ remaining[s] # << >>
      /\ Len(Tail(remaining[s])) = Len(remaining[s]) - 1
  BY <1>1, EventInTurn
<1>3. Len(remaining[s]) \in Nat /\ Len(remaining[s]) > 0 /\ N \in Nat /\ N = Len(Turn)
      /\ Tail(remaining[s]) \in Seq(Events)
  BY <1>2, TurnIsASequence DEF N
<1>4. remaining'[s] = Tail(remaining[s]) /\ Len(remaining'[s]) = Len(remaining[s]) - 1
  <2>1. remaining'[s] = Tail(remaining[s])
    BY <1>2 DEF TypeInv, TypeOK
  <2> QED
    BY <2>1, <1>2
<1>5. Got(s)' = Got(s) + 1 /\ Len(remaining'[s]) = N - (Got(s) + 1)
  <2> DEFINE before == Len(remaining[s])
             after == Len(remaining'[s])
  <2>1. before \in Int /\ after = before - 1 /\ N \in Int
    BY <1>3, <1>4
  <2>2. Got(s)' = N - after /\ Got(s) = N - before
    BY DEF Got, N
  <2> HIDE DEF before, after
  <2>3. N - after = (N - before) + 1 /\ after = N - ((N - before) + 1)
    BY <2>1
  <2> QED
    BY <2>2, <2>3 DEF after
<1>6. Head(remaining[s]) = Turn[Got(s) + 1]
  <2>1. Head(remaining[s]) = remaining[s][1] /\ 1 \in 1..Len(remaining[s])
    BY <1>2, <1>3
  <2> QED
    BY <2>1 DEF RestIsToCome
<1>7. Got(s) + 1 \in 1..Len(Turn)
  BY <1>2, <1>3
<1>8. Head(remaining[s]) \in {"LLMChunk", "ToolStart", "ToolEnd", "AgentEnd"}
      /\ (Head(remaining[s]) = "AgentEnd" <=> Got(s) + 1 = Len(Turn))
  BY <1>6, <1>7, TurnAssumption
<1>9. remaining'[s] = << >> <=> Got(s) + 1 = Len(Turn)
  <2>1. \A q \in Seq(Events) : q = << >> <=> Len(q) = 0
    OBVIOUS
  <2>2. remaining'[s] = << >> <=> Len(remaining'[s]) = 0
    BY <2>1, <1>3, <1>4
  <2> QED
    BY <2>2, <1>2, <1>3, <1>5
<1>10. Got(s) + 1 = Len(Turn) <=> Got(s) = N - 1
  BY <1>2, <1>3
<1> QED
  BY <1>2, <1>5, <1>6, <1>8, <1>9, <1>10

\* Only sendMessage starts an answer.
LEMMA StepStopped ==
  ASSUME TypeInv, StreamingInv, [Next]_vars, ~sendMessage, ~acc.isStreaming
  PROVE  ~acc'.isStreaming
<1> USE DEF display, server, ghosts
<1>a. IsAnswer(acc) /\ ~Nothing.isStreaming /\ ~Stopped(acc).isStreaming
  BY StoppedAnswer DEF StreamingInv, ClientShape, Nothing
<1>1. User => ~acc'.isStreaming
  BY <1>a DEF User, cancelStream, leaveSession, selectSession, newSession
<1>2. ASSUME NEW l \in loads, History(l) PROVE ~acc'.isStreaming
  BY <1>2 DEF History, ReadHistory, ShowHistory, FailHistory
<1>3. Flush \/ UNCHANGED vars => ~acc'.isStreaming
  BY DEF Flush, vars
<1>4. ASSUME NEW s \in Sent,
             LoseEvent(s) \/ ReceiveError(s) \/ CloseStream(s) \/ FailStream(s) \/ EndTurn(s)
      PROVE  ~acc'.isStreaming
  BY <1>4, <1>a DEF LoseEvent, ReceiveError, CloseStream, FailStream, EndTurn,
                    Untouched, Finalised, FlushedAndStopped
<1>5. ASSUME NEW s \in Sent, Receive(s) PROVE ~acc'.isStreaming
  <2>1. Head(remaining[s]) \in Events
    <3>1. NextEvent(s) /\ ClientShape
      BY <1>5 DEF Receive, StreamingInv
    <3> QED
      BY <3>1, EventInTurn
  <2>2. \A x : ~[acc EXCEPT !.content = x].isStreaming /\ ~[acc EXCEPT !.calls = x].isStreaming
    BY <1>a, AmendedAnswer
  <2>3. \A calls : CallsBecome(calls) => ~acc'.isStreaming
    BY <2>2 DEF CallsBecome
  <2>4. LLMChunk(s) \/ ToolStart(s) \/ ToolEnd(s) => ~acc'.isStreaming
    BY <2>2, <2>3 DEF LLMChunk, ToolStart, ToolEnd
  <2>5. Head(remaining[s]) = "AgentEnd" => ~acc'.isStreaming
    BY <1>5, <1>a DEF Receive, Finalised
  <2> QED
    BY <1>5, <2>1, <2>4, <2>5 DEF Receive, Events
<1> QED
  BY <1>1, <1>2, <1>3, <1>4, <1>5 DEF Next, Stream

\* While an undisturbed turn is under way only its events change what is
\* accumulated.
LEMMA StepUnderWay ==
  ASSUME TypeInv, StreamingInv, OlderAreClosed, AccumulatesTheLatest, [Next]_vars, ~sendMessage,
         NEW s \in Sent \ disturbed, s \notin disturbed', remaining[s] # << >>
  PROVE  Receive(s) \/ (UNCHANGED acc /\ shown' \in {shown, acc})
<1> USE DEF display, server, ghosts
<1>1. CASE cancelStream
  <2>1. acc.isStreaming /\ s = Latest
    BY DEF AccumulatesTheLatest
  <2>2. Abort(s) /\ IsOpen(s) /\ s # 0
    <3>1. shown.isStreaming
      BY <1>1 DEF cancelStream
    <3> QED
      BY <1>1, <2>1, <3>1 DEF cancelStream, StreamingInv, StreamingIsTheLatest
  <2> QED
    BY <2>2 DEF Abort
<1>2. CASE leaveSession \/ \E m \in Sessions : selectSession(m) \/ newSession(m)
  BY <1>2 DEF leaveSession, selectSession, newSession
<1>3. ASSUME NEW l \in loads, History(l) PROVE UNCHANGED <<acc, shown>>
  BY <1>3 DEF History, ReadHistory, ShowHistory, FailHistory
<1>4. CASE Flush \/ UNCHANGED vars
  BY <1>4 DEF Flush, Flushed, vars
<1>5. ASSUME NEW r \in Sent, Stream(r) PROVE Receive(s)
  <2>1. IsOpen(r)
    BY <1>5 DEF Stream, Receive, LoseEvent, NextEvent, ReceiveError, CloseStream, FailStream
  <2>2. r = s
    BY <2>1, OnlyTheLatest
  <2> QED
    BY <1>5, <2>2 DEF Stream, LoseEvent, ReceiveError, CloseStream, FailStream
<1>6. ASSUME NEW r \in Sent, EndTurn(r) PROVE UNCHANGED <<acc, shown>>
  BY <1>6 DEF EndTurn
<1> QED
  BY <1>1, <1>2, <1>3, <1>4, <1>5, <1>6 DEF Next, User

LEMMA TurnUnderWay ==
  ASSUME StreamingInv, AccumulatesTheLatest, NEW s \in Sent \ disturbed, remaining[s] # << >>
  PROVE  /\ s = Latest /\ acc.isStreaming /\ shown.isStreaming /\ shared
         /\ acc.content = ContentUpTo(s, Got(s)) /\ acc.calls = CallsUpTo(s, Got(s))
         /\ shown.calls = acc.calls
BY DEF AccumulatesTheLatest, StreamingInv, StreamingIsTheLatest

LEMMA StepAccumulates ==
  ASSUME TypeInv, StreamingInv, RestIsToCome, OlderAreClosed, AccumulatesTheLatest, [Next]_vars
  PROVE  AccumulatesTheLatest'
<1>a. disturbed \subseteq disturbed' /\ acc \in Answers /\ shown \in Answers
  BY StepDisturbs DEF TypeInv, TypeOK
<1>1. CASE sendMessage
  <2> DEFINE n == Latest + 1
  <2>1. /\ Sent' = Sent \union {n} /\ n \notin Sent /\ Latest' = n
        /\ \A r \in Sent : remaining'[r] = remaining[r]
        /\ remaining'[n] = Turn /\ ~shown.isStreaming
    BY <1>1, SendingGrows
  <2>2. acc' = [Nothing EXCEPT !.isStreaming = TRUE] /\ shown' = acc'
    BY <1>1 DEF sendMessage
  <2>3. acc'.isStreaming /\ acc'.content = << >> /\ acc'.calls = << >> /\ shown'.calls = acc'.calls
    BY <2>2 DEF Nothing
  <2>4. \A r : ~Mentions(acc', r) /\ ~Mentions(shown', r)
    BY <2>2, WhatIsMentioned
  <2> HIDE DEF n
  <2>5. ASSUME NEW s \in Sent' \ disturbed', s = n
        PROVE  /\ remaining'[s] # << >> /\ s = Latest'
               /\ acc'.content = ContentUpTo(s, Got(s)') /\ acc'.calls = CallsUpTo(s, Got(s)')
    <3>1. Got(s)' = 0 /\ remaining'[s] # << >>
      BY <2>1, <2>5, TurnIsASequence DEF Got, N
    <3> QED
      BY <3>1, <2>1, <2>3, <2>5, NothingYet
  <2>6. ASSUME NEW s \in Sent' \ disturbed', s # n
        PROVE  remaining'[s] = << >> /\ s # Latest'
    <3>1. s \in Sent \ disturbed
      BY <2>1, <2>6, <1>a
    <3>2. remaining[s] = << >>
      BY <3>1, <2>1, TurnUnderWay
    <3> QED
      BY <3>1, <3>2, <2>1, <2>6
  <2>7. ASSUME NEW s \in Sent' \ disturbed'
        PROVE  IF remaining'[s] # << >>
               THEN /\ s = Latest' /\ acc'.isStreaming
                    /\ acc'.content = ContentUpTo(s, Got(s)')
                    /\ acc'.calls = CallsUpTo(s, Got(s)') /\ shown'.calls = acc'.calls
               ELSE /\ ~Mentions(acc', s) /\ ~Mentions(shown', s)
                    /\ s = Latest' => ~acc'.isStreaming
    BY <2>3, <2>4, <2>5, <2>6
  <2> QED
    BY <2>7 DEF AccumulatesTheLatest, ContentUpTo, CallsUpTo
<1>2. CASE ~sendMessage
  <2>1. Sent' = Sent /\ Latest' = Latest
    BY <1>2, StepOnward DEF Onward
  <2>2. ASSUME NEW s \in Sent \ disturbed, s \notin disturbed', remaining[s] = << >>
        PROVE  /\ remaining'[s] = << >> /\ ~Mentions(acc', s) /\ ~Mentions(shown', s)
               /\ s = Latest => ~acc'.isStreaming
    <3>1. ~Receive(s)
      BY <2>2 DEF Receive, NextEvent
    <3>2. remaining'[s] = << >>
      BY <1>2, <2>2, <3>1, StepOfTurn
    <3>3. ~Mentions(acc, s) /\ ~Mentions(shown, s) /\ (s = Latest => ~acc.isStreaming)
      BY <2>2 DEF AccumulatesTheLatest
    <3> QED
      BY <1>2, <3>1, <3>2, <3>3, StepMentions, StepStopped
  <2>3. ASSUME NEW s \in Sent \ disturbed, s \notin disturbed', remaining[s] # << >>, ~Receive(s)
        PROVE  /\ remaining'[s] = remaining[s] /\ s = Latest /\ acc'.isStreaming
               /\ acc'.content = ContentUpTo(s, Got(s)')
               /\ acc'.calls = CallsUpTo(s, Got(s)') /\ shown'.calls = acc'.calls
    <3>1. remaining'[s] = remaining[s]
      BY <1>2, <2>3, StepOfTurn
    <3>2. Got(s)' = Got(s)
      BY <3>1 DEF Got
    <3>3. acc' = acc /\ shown' \in {shown, acc}
      BY <1>2, <2>3, StepUnderWay
    <3> QED
      BY <3>1, <3>2, <3>3, <2>3, TurnUnderWay
  <2>4. ASSUME NEW s \in Sent \ disturbed, s \notin disturbed', Receive(s)
        PROVE  IF remaining'[s] # << >>
               THEN /\ s = Latest /\ acc'.isStreaming
                    /\ acc'.content = ContentUpTo(s, Got(s)')
                    /\ acc'.calls = CallsUpTo(s, Got(s)') /\ shown'.calls = acc'.calls
               ELSE /\ ~Mentions(acc', s) /\ ~Mentions(shown', s)
                    /\ s = Latest => ~acc'.isStreaming
    <3> DEFINE n == Got(s)
    <3>1. /\ n \in 0..(N - 1) /\ EventAt(s) = n + 1 /\ Got(s)' = n + 1
          /\ Head(remaining[s]) = Turn[n + 1]
          /\ Head(remaining[s]) \in {"LLMChunk", "ToolStart", "ToolEnd", "AgentEnd"}
          /\ Head(remaining[s]) = "AgentEnd" <=> remaining'[s] = << >>
      BY <2>4, ReceivedIsNext
    <3>2. remaining[s] # << >>
      BY <2>4 DEF Receive, NextEvent
    <3>3. /\ s = Latest /\ acc.isStreaming /\ shared
          /\ acc.content = ContentUpTo(s, n) /\ acc.calls = CallsUpTo(s, n)
          /\ shown.calls = acc.calls
      BY <3>2, <2>4, TurnUnderWay
    <3> HIDE DEF n
    <3>4. CASE Turn[n + 1] = "LLMChunk"
      <4>1. acc' = [acc EXCEPT !.content = Append(@, <<s, n + 1>>)] /\ shown' = shown
        BY <3>1, <3>4, <2>4 DEF Receive, LLMChunk
      <4>2. acc'.content = Append(acc.content, <<s, n + 1>>) /\ acc'.calls = acc.calls
            /\ acc'.isStreaming = acc.isStreaming
        BY <4>1, <1>a DEF Answers
      <4>3. ContentUpTo(s, n + 1) = Append(ContentUpTo(s, n), <<s, n + 1>>)
            /\ CallsUpTo(s, n + 1) = CallsUpTo(s, n)
        BY <3>1, <3>4, ContentGrows, CallsGrow
      <4> QED
        BY <4>1, <4>2, <4>3, <3>1, <3>3, <3>4
    <3>5. ASSUME NEW calls, CallsBecome(calls), calls = CallsUpTo(s, n + 1),
                 Turn[n + 1] \in {"ToolStart", "ToolEnd"}
          PROVE  /\ remaining'[s] # << >> /\ acc'.isStreaming
                 /\ acc'.content = ContentUpTo(s, n + 1)
                 /\ acc'.calls = CallsUpTo(s, n + 1) /\ shown'.calls = acc'.calls
      <4>1. acc'.calls = calls /\ shown'.calls = calls /\ acc'.content = acc.content
            /\ acc'.isStreaming = acc.isStreaming
        BY <3>3, <3>5, <1>a DEF CallsBecome, Answers
      <4>2. ContentUpTo(s, n + 1) = ContentUpTo(s, n)
        BY <3>1, <3>5, ContentGrows
      <4> QED
        BY <4>1, <4>2, <3>1, <3>3, <3>5
    <3>6. CASE Turn[n + 1] = "ToolStart"
      <4>1. CallsBecome(Append(acc.calls, [by |-> s, at |-> n + 1, status |-> "running"]))
        BY <3>1, <3>3, <3>6, <2>4 DEF Receive, ToolStart
      <4>2. CallsUpTo(s, n + 1) =
              Append(CallsUpTo(s, n), [by |-> s, at |-> n + 1, status |-> "running"])
        BY <3>1, <3>6, CallsGrow
      <4> QED
        BY <4>1, <4>2, <3>1, <3>3, <3>5, <3>6
    <3>7. CASE Turn[n + 1] = "ToolEnd"
      <4> DEFINE calls == [k \in DOMAIN acc.calls |->
                             IF acc.calls[k].by = s /\ acc.calls[k].at = CallOf[n + 1]
                             THEN [acc.calls[k] EXCEPT !.status = "success"] ELSE acc.calls[k]]
      <4>1. CallsBecome(calls)
        BY <3>1, <3>3, <3>7, <2>4 DEF Receive, ToolEnd
      <4>2. CallsUpTo(s, n + 1) = calls
        <5> DEFINE c == CallsUpTo(s, n)
        <5>1. CallsUpTo(s, n + 1) =
                [k \in DOMAIN c |-> IF c[k].by = s /\ c[k].at = CallOf[n + 1]
                                    THEN [c[k] EXCEPT !.status = "success"] ELSE c[k]]
          BY <3>1, <3>7, CallsGrow
        <5> QED
          BY <5>1, <3>3
      <4> HIDE DEF calls
      <4> QED
        BY <4>1, <4>2, <3>1, <3>3, <3>5, <3>7
    <3>8. CASE Turn[n + 1] = "AgentEnd"
      <4>1. acc' = Nothing /\ shown' = Nothing
        BY <3>1, <3>8, <2>4 DEF Receive, Finalised
      <4>2. ~Mentions(acc', s) /\ ~Mentions(shown', s) /\ ~acc'.isStreaming
        BY <4>1, WhatIsMentioned DEF Nothing
      <4> QED
        BY <4>2, <3>1, <3>8
    <3> QED
      BY <3>1, <3>4, <3>6, <3>7, <3>8
  <2>5. ASSUME NEW s \in Sent' \ disturbed'
        PROVE  IF remaining'[s] # << >>
               THEN /\ s = Latest' /\ acc'.isStreaming
                    /\ acc'.content = ContentUpTo(s, Got(s)')
                    /\ acc'.calls = CallsUpTo(s, Got(s)') /\ shown'.calls = acc'.calls
               ELSE /\ ~Mentions(acc', s) /\ ~Mentions(shown', s)
                    /\ s = Latest' => ~acc'.isStreaming
    <3>1. s \in Sent \ disturbed /\ s \notin disturbed'
      BY <2>1, <1>a
    <3> QED
      BY <3>1, <2>1, <2>2, <2>3, <2>4
  <2> QED
    BY <2>5 DEF AccumulatesTheLatest, ContentUpTo, CallsUpTo
<1> QED
  BY <1>1, <1>2

\* The messages of a history, and the places of its answers.
LEMMA HistoryEntries ==
  ASSUME NEW S, NEW turns \in Seq(S)
  PROVE  /\ \A k \in 1..Len(AsMessages(turns)) :
              \E j \in 1..Len(turns) : AsMessages(turns)[k] \in {UserMessage(turns[j]), Whole(turns[j])}
         /\ \A j \in 1..Len(turns) :
              \E k \in 1..Len(AsMessages(turns)) : AsMessages(turns)[k] = Whole(turns[j])
<1> DEFINE Entry(k) == IF k % 2 = 1 THEN UserMessage(turns[(k + 1) \div 2]) ELSE Whole(turns[k \div 2])
<1>1. Len(turns) \in Nat
  OBVIOUS
<1>2. AsMessages(turns) = [k \in 1..(2 * Len(turns)) |-> Entry(k)]
  BY DEF AsMessages
<1> HIDE DEF Entry
<1>3. Len(AsMessages(turns)) = 2 * Len(turns)
  BY <1>1, <1>2
<1>4. ASSUME NEW k \in 1..(2 * Len(turns))
      PROVE  \E j \in 1..Len(turns) : Entry(k) \in {UserMessage(turns[j]), Whole(turns[j])}
  <2>1. CASE k % 2 = 1
    <3>1. (k + 1) \div 2 \in 1..Len(turns)
      BY <1>1, <2>1
    <3> QED
      BY <3>1, <2>1 DEF Entry
  <2>2. CASE k % 2 # 1
    <3>1. k \div 2 \in 1..Len(turns)
      BY <1>1, <2>2
    <3> QED
      BY <3>1, <2>2 DEF Entry
  <2> QED
    BY <2>1, <2>2
<1>5. ASSUME NEW j \in 1..Len(turns) PROVE 2 * j \in 1..(2 * Len(turns)) /\ Entry(2 * j) = Whole(turns[j])
  <2>1. 2 * j \in 1..(2 * Len(turns)) /\ (2 * j) % 2 = 0 /\ (2 * j) \div 2 = j
    BY <1>1
  <2> QED
    BY <2>1 DEF Entry
<1> QED
  BY <1>2, <1>3, <1>4, <1>5

\* What a step does to the list of messages.
LEMMA StepMessages ==
  ASSUME TypeInv, StreamingInv, [Next]_vars
  PROVE  \/ UNCHANGED messages
         \/ sendMessage
         \/ messages' = << >> /\ (leaveSession \/ \E m \in Sessions : selectSession(m) \/ newSession(m))
         \/ \E l \in loads : ShowHistory(l)
         \/ \E s \in Sent : /\ messages' = Append(messages, Answer(acc)) /\ IsOpen(s)
                            /\ \/ Receive(s) /\ Head(remaining[s]) = "AgentEnd"
                               \/ CloseStream(s) /\ acc.isStreaming
<1> USE DEF display, server, ghosts
<1>1. cancelStream => UNCHANGED messages
  BY DEF cancelStream
<1>2. leaveSession \/ (\E m \in Sessions : selectSession(m) \/ newSession(m)) => messages' = << >>
  BY DEF leaveSession, selectSession, newSession, Displayed
<1>3. \A l \in loads : ReadHistory(l) \/ FailHistory(l) => UNCHANGED messages
  BY DEF ReadHistory, FailHistory
<1>4. Flush \/ UNCHANGED vars => UNCHANGED messages
  BY DEF Flush, vars
<1>5. \A s \in Sent : LoseEvent(s) \/ ReceiveError(s) \/ FailStream(s) \/ EndTurn(s) => UNCHANGED messages
  BY DEF LoseEvent, Untouched, ReceiveError, FailStream, EndTurn
<1>6. \A s \in Sent : CloseStream(s) =>
        \/ UNCHANGED messages
        \/ messages' = Append(messages, Answer(acc)) /\ IsOpen(s) /\ acc.isStreaming
  BY DEF CloseStream, Finalised, Untouched
<1>7. ASSUME NEW s \in Sent, Receive(s)
      PROVE  \/ UNCHANGED messages
             \/ messages' = Append(messages, Answer(acc)) /\ IsOpen(s) /\ Head(remaining[s]) = "AgentEnd"
  <2>1. NextEvent(s) /\ IsOpen(s) /\ Head(remaining[s]) \in Events
    <3>1. NextEvent(s) /\ ClientShape
      BY <1>7 DEF Receive, StreamingInv
    <3>2. Head(remaining[s]) \in Events
      BY <3>1, EventInTurn
    <3> QED
      BY <3>1, <3>2 DEF NextEvent
  <2>2. \A calls : CallsBecome(calls) => UNCHANGED messages
    BY DEF CallsBecome
  <2> QED
    BY <1>7, <2>1, <2>2 DEF Receive, LLMChunk, ToolStart, ToolEnd, Finalised, Events
<1> QED
  BY <1>1, <1>2, <1>3, <1>4, <1>5, <1>6, <1>7 DEF Next, User, Stream, History

\* The AgentEnd of an undisturbed turn makes a message of all of it.
LEMMA EndIsWhole ==
  ASSUME TypeInv, StreamingInv, AnswerInv,
         NEW s \in Sent \ disturbed, Receive(s), Head(remaining[s]) = "AgentEnd"
  PROVE  Answer(acc) = Whole(s)
<1>1. remaining[s] # << >>
  BY DEF Receive, NextEvent
<1>2. Got(s) = N - 1
  BY ReceivedIsNext DEF AnswerInv
<1> QED
  BY <1>1, <1>2, TurnUnderWay, WholeBeforeTheEnd DEF AnswerInv, Answer

\* The end of a stream finalises an answer only where the last turn was
\* disturbed.
LEMMA ClosingFinalises ==
  ASSUME TypeInv, StreamingInv, AnswerInv, NEW s \in Sent, CloseStream(s), acc.isStreaming
  PROVE  disturbed # {}
<1>1. Latest \in Sent /\ IsOpen(Latest)
  BY SentIsAnInterval DEF StreamingInv, StreamingIsTheLatest
<1> SUFFICES ASSUME Latest \notin disturbed PROVE FALSE
  OBVIOUS
<1>2. remaining[Latest] # << >>
  BY <1>1 DEF AnswerInv, AccumulatesTheLatest
<1>3. s # Latest /\ IsOpen(s)
  BY <1>2 DEF CloseStream
<1> QED
  BY <1>1, <1>2, <1>3, OnlyTheLatest DEF AnswerInv

LEMMA StepWhole ==
  ASSUME TypeInv, StreamingInv, AnswerInv, [Next]_vars
  PROVE  AnswersAreWhole'
<1> USE DEF display, server, ghosts
<1> DEFINE Good(m) == m.role = "assistant" =>
                        /\ \A s \in Sent \ disturbed : Mentions(m, s) => m = Whole(s)
                        /\ disturbed = {} => \E s \in Sent : m = Whole(s)
<1>a. /\ disturbed \subseteq disturbed' /\ acc \in Answers /\ messages \in Seq(Messages)
      /\ \A k \in 1..Len(messages) : messages[k] \in Messages /\ Good(messages[k])
      /\ RestIsToCome /\ OlderAreClosed /\ AccumulatesTheLatest
  <2>1. disturbed \subseteq disturbed' /\ acc \in Answers /\ messages \in Seq(Messages)
    BY StepDisturbs DEF TypeInv, TypeOK
  <2>2. \A k \in 1..Len(messages) : messages[k] \in Messages
    BY <2>1
  <2>3. \A k \in 1..Len(messages) : Good(messages[k])
    BY DEF AnswerInv, AnswersAreWhole
  <2> HIDE DEF Good
  <2> QED
    BY <2>1, <2>2, <2>3 DEF AnswerInv
<1>b. ASSUME NEW m \in Messages, NEW s, Mentions(m, s) PROVE s \in Sent
  <2>1. m.content \in Seq(Parts) /\ m.calls \in Seq(Calls)
    BY DEF Messages
  <2>2. (\A k \in DOMAIN m.content : m.content[k] \in Parts)
        /\ (\A k \in DOMAIN m.calls : m.calls[k] \in Calls)
    BY <2>1
  <2>3. (\A p \in Parts : p[1] \in Sent) /\ (\A c \in Calls : c.by \in Sent)
    BY DEF Parts, Calls
  <2> QED
    BY <2>2, <2>3, <1>b DEF Mentions
<1>c. Sent \subseteq Sent'
  <2>1. CASE sendMessage
    BY <2>1, SendingGrows
  <2>2. CASE ~sendMessage
    BY <2>2, StepOnward DEF Onward
  <2> QED
    BY <2>1, <2>2
\* What was good stays good.
<1>d. ASSUME NEW m, m.role = "user" \/ Good(m), \A s : Mentions(m, s) => s \in Sent
      PROVE  m.role = "assistant" =>
               /\ \A s \in Sent' \ disturbed' : Mentions(m, s) => m = Whole(s)
               /\ disturbed' = {} => \E s \in Sent' : m = Whole(s)
  BY <1>a, <1>c, <1>d
<1> SUFFICES ASSUME NEW k \in 1..Len(messages')
             PROVE  \/ messages'[k].role = "user"
                    \/ Good(messages'[k]) /\ \A s : Mentions(messages'[k], s) => s \in Sent
  BY <1>d DEF AnswersAreWhole
<1> HIDE DEF Good
<1>1. CASE UNCHANGED messages
  BY <1>1, <1>a, <1>b
<1>2. ASSUME NEW m, messages' = Append(messages, m), k # Len(messages) + 1
      PROVE  Good(messages'[k]) /\ \A s : Mentions(messages'[k], s) => s \in Sent
  <2>1. k \in 1..Len(messages) /\ messages'[k] = messages[k]
    BY <1>2, <1>a
  <2> QED
    BY <2>1, <1>a, <1>b
<1>3. ASSUME NEW m, messages' = Append(messages, m), k = Len(messages) + 1
      PROVE  messages'[k] = m
  BY <1>3, <1>a
<1>4. CASE sendMessage
  <2> DEFINE u == UserMessage(Latest + 1)
  <2>1. messages' = Append(messages, u)
    BY <1>4 DEF sendMessage
  <2>2. u.role = "user"
    BY DEF UserMessage
  <2> HIDE DEF u
  <2> QED
    BY <2>1, <2>2, <1>2, <1>3
<1>5. CASE messages' = << >>
  BY <1>5
<1>6. ASSUME NEW l \in loads, ShowHistory(l)
      PROVE  \/ messages'[k].role = "user"
             \/ Good(messages'[k]) /\ \A s : Mentions(messages'[k], s) => s \in Sent
  <2>1. messages' = AsMessages(l.turns) /\ l.turns \in Seq(Sent)
    BY <1>6, TypedLoads DEF ShowHistory
  <2>2. PICK j \in 1..Len(l.turns) : messages'[k] \in {UserMessage(l.turns[j]), Whole(l.turns[j])}
    BY <2>1, HistoryEntries
  <2>3. l.turns[j] \in Sent
    BY <2>1, <2>2
  <2>4. CASE messages'[k] = UserMessage(l.turns[j])
    BY <2>4 DEF UserMessage
  <2>5. CASE messages'[k] = Whole(l.turns[j])
    <3>1. \A s : Mentions(messages'[k], s) => s = l.turns[j]
      BY <2>5, WholeMentions
    <3> QED
      BY <3>1, <2>3, <2>5 DEF Good
  <2> QED
    BY <2>2, <2>4, <2>5
<1>7. ASSUME NEW s \in Sent, messages' = Append(messages, Answer(acc)), IsOpen(s),
             \/ Receive(s) /\ Head(remaining[s]) = "AgentEnd"
             \/ CloseStream(s) /\ acc.isStreaming
      PROVE  Good(messages'[k]) /\ \A r : Mentions(messages'[k], r) => r \in Sent
  <2>1. Answer(acc) \in Messages
    BY <1>a, TypedAnswers
  <2>2. Good(Answer(acc))
    <3>1. ASSUME NEW r \in Sent \ disturbed, r # s PROVE ~Mentions(Answer(acc), r)
      BY <1>7, <3>1, <1>a, OnlyTheLatest, WhatIsMentioned
    <3>2. CASE s \notin disturbed /\ Receive(s)
      <4>1. Answer(acc) = Whole(s)
        BY <3>2, <1>7, EndIsWhole DEF CloseStream, Receive, NextEvent
      <4> QED
        BY <4>1, WholeMentions DEF Good
    <3>3. CASE s \notin disturbed /\ CloseStream(s)
      <4>1. ~Mentions(acc, s)
        BY <3>3, <1>a DEF CloseStream, AccumulatesTheLatest
      <4>2. disturbed # {}
        BY <3>3, <1>7, ClosingFinalises DEF Receive, NextEvent, CloseStream
      <4>3. ~Mentions(Answer(acc), s)
        BY <4>1, <1>a, WhatIsMentioned
      <4> QED
        BY <4>2, <4>3, <3>1 DEF Good
    <3>4. CASE s \in disturbed
      BY <3>4, <3>1 DEF Good
    <3> QED
      BY <1>7, <3>2, <3>3, <3>4
  <2> QED
    BY <2>1, <2>2, <1>2, <1>3, <1>7, <1>b
<1> QED
  BY <1>1, <1>4, <1>5, <1>6, <1>7, StepMessages

LEMMA InitAnswers == Init => AnswerInv
<1> SUFFICES ASSUME Init PROVE AnswerInv
  OBVIOUS
<1>1. Sent = {} /\ messages = << >>
  BY DEF Init, Sent
<1> QED
  BY <1>1 DEF AnswerInv, RestIsToCome, OlderAreClosed, AccumulatesTheLatest, AnswersAreWhole

LEMMA StepAnswers == TypeInv /\ StreamingInv /\ AnswerInv /\ [Next]_vars => AnswerInv'
<1> SUFFICES ASSUME TypeInv, StreamingInv, AnswerInv, [Next]_vars PROVE AnswerInv'
  OBVIOUS
<1>1. RestIsToCome /\ OlderAreClosed /\ AccumulatesTheLatest
  BY DEF AnswerInv
<1>2. RestIsToCome' /\ OlderAreClosed'
  BY <1>1, StepRest, StepOlder
<1>3. AccumulatesTheLatest'
  BY <1>1, StepAccumulates
<1>4. AnswersAreWhole'
  BY StepWhole
<1> QED
  BY <1>2, <1>3, <1>4 DEF AnswerInv

-----------------------------------------------------------------------------
(* The sessions *)

\* Another session, or none, comes on display.
Navigates == leaveSession \/ \E m \in Sessions : selectSession(m) \/ newSession(m)

LEMMA StepAside ==
  ASSUME [Next]_vars
  PROVE  /\ astray => astray'
         /\ Navigates /\ ~astray' => loads = {} /\ \A s \in Sent : ~IsOpen(s)
         /\ sendMessage /\ ~astray' => loads = {}
         /\ ~Navigates => currentSessionId' = currentSessionId /\ (missing => missing')
<1> USE DEF display, server, ghosts
<1>1. Navigates => astray' = (astray \/ loads # {} \/ \E s \in Sent : IsOpen(s))
  BY DEF Navigates, leaveSession, selectSession, newSession, Displayed
<1>2. sendMessage => astray' = (astray \/ loads # {}) /\ UNCHANGED <<currentSessionId, missing>>
  BY DEF sendMessage
<1>3. cancelStream \/ Flush \/ (UNCHANGED vars) => UNCHANGED <<astray, currentSessionId, missing>>
  BY DEF cancelStream, Flush, vars
<1>4. \A l \in loads : History(l) => UNCHANGED <<astray, currentSessionId>> /\ (missing => missing')
  BY DEF History, ReadHistory, ShowHistory, FailHistory
<1>5. \A s \in Sent : Stream(s) \/ EndTurn(s) => UNCHANGED <<astray, currentSessionId, missing>>
  BY DEF Stream, Receive, LoseEvent, NextEvent, ReceiveError, CloseStream, FailStream, EndTurn
<1>6. \/ Navigates \/ sendMessage \/ cancelStream \/ Flush \/ UNCHANGED vars
      \/ (\E l \in loads : History(l)) \/ (\E s \in Sent : Stream(s) \/ EndTurn(s))
  BY DEF Next, User, Navigates
<1>7. astray => astray'
  BY <1>1, <1>2, <1>3, <1>4, <1>5, <1>6
<1>8. Navigates /\ ~astray' => loads = {} /\ \A s \in Sent : ~IsOpen(s)
  BY <1>1
<1>9. sendMessage /\ ~astray' => loads = {}
  BY <1>2
<1> QED
  BY <1>2, <1>3, <1>4, <1>5, <1>6, <1>7, <1>8, <1>9

\* What is under way of the histories.
LEMMA StepLoads ==
  ASSUME [Next]_vars
  PROVE  \/ UNCHANGED loads
         \/ \E m \in Sessions : selectSession(m)
         \/ \E l \in loads : ReadHistory(l)
         \/ \E l \in loads : ShowHistory(l) /\ loads' = loads \ {l}
         \/ missing' /\ \E l \in loads : loads' = loads \ {l}
<1> USE DEF display, server, ghosts
<1>1. sendMessage \/ cancelStream \/ leaveSession \/ (\E m \in Sessions : newSession(m)) => UNCHANGED loads
  BY DEF sendMessage, cancelStream, leaveSession, newSession
<1>2. \A l \in loads : /\ ShowHistory(l) => loads' = loads \ {l}
                       /\ FailHistory(l) => missing' /\ loads' = loads \ {l}
  BY DEF ShowHistory, FailHistory
<1>3. \A s \in Sent : Stream(s) \/ EndTurn(s) => UNCHANGED loads
  BY DEF Stream, Receive, LoseEvent, NextEvent, ReceiveError, CloseStream, FailStream, EndTurn
<1>4. Flush \/ UNCHANGED vars => UNCHANGED loads
  BY DEF Flush, vars
<1> QED
  BY <1>1, <1>2, <1>3, <1>4 DEF Next, User, History

\* What the server has stored.
LEMMA StepStored ==
  ASSUME TypeInv, [Next]_vars
  PROVE  \/ UNCHANGED stored
         \/ \E s \in Sent : EndTurn(s) /\ stored' = [stored EXCEPT ![streams[s].session] = Append(@, s)]
<1> USE DEF display, server, ghosts
<1>1. User => UNCHANGED stored
  BY DEF User, sendMessage, cancelStream, leaveSession, selectSession, newSession
<1>2. \A l \in loads : History(l) => UNCHANGED stored
  BY DEF History, ReadHistory, ShowHistory, FailHistory
<1>3. \A s \in Sent : Stream(s) => UNCHANGED stored
  BY DEF Stream, Receive, LoseEvent, NextEvent, ReceiveError, CloseStream, FailStream
<1>4. Flush \/ UNCHANGED vars => UNCHANGED stored
  BY DEF Flush, vars
<1>5. \A s \in Sent : EndTurn(s) =>
        UNCHANGED stored \/ stored' = [stored EXCEPT ![streams[s].session] = Append(@, s)]
  BY DEF EndTurn
<1> QED
  BY <1>1, <1>2, <1>3, <1>4, <1>5 DEF Next

\* The session of a message sent does not change.
LEMMA StepSessions ==
  ASSUME TypeInv, StreamingInv, [Next]_vars
  PROVE  Sent \subseteq Sent' /\ \A s \in Sent : streams'[s].session = streams[s].session
<1>1. CASE sendMessage
  BY <1>1, SendingGrows
<1>2. CASE ~sendMessage
  BY <1>2, StepOnward DEF Onward
<1> QED
  BY <1>1, <1>2

LEMMA SessionOfAStream ==
  ASSUME ClientShape, NEW s \in Sent
  PROVE  streams[s].session \in Sessions
<1>1. streams[s] \in StreamRecords
  BY DEF ClientShape, Sent
<1> QED
  BY <1>1 DEF StreamRecords

\* A turn more at the end of a list.
LEMMA OneMoreTurn ==
  ASSUME NEW S, NEW f \in Seq(S), NEW x
  PROVE  /\ Len(Append(f, x)) = Len(f) + 1 /\ Append(f, x)[Len(f) + 1] = x
         /\ \A k \in 1..Len(f) : k \in 1..Len(Append(f, x)) /\ Append(f, x)[k] = f[k]
         /\ \A k \in 1..Len(Append(f, x)) : k \in 1..Len(f) \/ k = Len(f) + 1
OBVIOUS

LEMMA StepHistories ==
  ASSUME TypeInv, StreamingInv, HistoriesOfSessions, [Next]_vars
  PROVE  HistoriesOfSessions'
<1> USE DEF display, server, ghosts
<1>a. /\ stored \in [Sessions -> Seq(Sent)] /\ ClientShape
      /\ \A l \in loads : l.session \in Sessions /\ l.turns \in Seq(Sent)
      /\ \A s \in Sent : streams'[s].session = streams[s].session
  BY StepSessions, TypedLoads DEF TypeInv, TypeOK, StreamingInv
\* A list of turns of a session stays one.
<1>b. ASSUME NEW m, NEW f \in Seq(Sent), \A k \in 1..Len(f) : streams[f[k]].session = m
      PROVE  \A k \in 1..Len(f) : streams'[f[k]].session = m
  <2>1. \A k \in 1..Len(f) : f[k] \in Sent
    OBVIOUS
  <2> QED
    BY <2>1, <1>a, <1>b
<1>1. ASSUME NEW m \in Sessions PROVE \A k \in 1..Len(stored'[m]) : streams'[stored'[m][k]].session = m
  <2>1. stored[m] \in Seq(Sent) /\ \A k \in 1..Len(stored[m]) : streams[stored[m][k]].session = m
    BY <1>a DEF HistoriesOfSessions
  <2>2. CASE stored'[m] = stored[m]
    BY <2>1, <2>2, <1>b
  <2>3. ASSUME NEW s \in Sent, streams[s].session = m, stored'[m] = Append(stored[m], s)
        PROVE  \A k \in 1..Len(stored'[m]) : streams'[stored'[m][k]].session = m
    <3>1. \A k \in 1..Len(stored[m]) : streams'[stored[m][k]].session = m
      BY <2>1, <1>b
    <3>2. streams'[s].session = m
      BY <2>3, <1>a
    <3> QED
      BY <3>1, <3>2, <2>1, <2>3, OneMoreTurn
  <2>4. stored'[m] = stored[m] \/ \E s \in Sent : streams[s].session = m /\ stored'[m] = Append(stored[m], s)
    BY <1>a, StepStored
  <2> QED
    BY <2>2, <2>3, <2>4
<1>2. ASSUME NEW l \in loads' PROVE \A k \in 1..Len(l.turns) : streams'[l.turns[k]].session = l.session
  <2>1. CASE l \in loads
    <3>1. l.turns \in Seq(Sent) /\ \A k \in 1..Len(l.turns) : streams[l.turns[k]].session = l.session
      BY <2>1, <1>a DEF HistoriesOfSessions
    <3> QED
      BY <3>1, <1>b
  <2>2. CASE l.turns = << >>
    BY <2>2
  <2>3. ASSUME NEW k \in loads, l = [k EXCEPT !.read = TRUE, !.turns = stored[k.session]],
               l.turns # << >>
        PROVE  \A i \in 1..Len(l.turns) : streams'[l.turns[i]].session = l.session
    <3>1. k.session \in Sessions
      BY <1>a
    <3>2. stored[k.session] \in Seq(Sent)
          /\ \A i \in 1..Len(stored[k.session]) : streams[stored[k.session][i]].session = k.session
      BY <3>1, <1>a DEF HistoriesOfSessions
    <3>3. l.session = k.session /\ l.turns = stored[k.session]
      BY <2>3, TypedLoads
    <3> QED
      BY <3>2, <3>3, <1>b
  <2>4. \/ l \in loads \/ l.turns = << >>
        \/ \E k \in loads : l = [k EXCEPT !.read = TRUE, !.turns = stored[k.session]]
    <3>1. ASSUME NEW m \in Sessions, selectSession(m) PROVE l \in loads \/ l.turns = << >>
      BY <3>1 DEF selectSession
    <3>2. ASSUME NEW k \in loads, ReadHistory(k)
          PROVE  l \in loads \/ l = [k EXCEPT !.read = TRUE, !.turns = stored[k.session]]
      BY <3>2 DEF ReadHistory
    <3> QED
      BY <3>1, <3>2, StepLoads
  <2> QED
    BY <2>1, <2>2, <2>3, <2>4
<1> QED
  BY <1>1, <1>2 DEF HistoriesOfSessions

LEMMA StepOnDisplay ==
  ASSUME TypeInv, StreamingInv, OnDisplay, [Next]_vars
  PROVE  OnDisplay'
<1> USE DEF display, server, ghosts
<1> SUFFICES ASSUME ~astray'
             PROVE  /\ \A l \in loads' : l.session = currentSessionId' /\ \A s \in Sent' : ~IsOpen(s)'
                    /\ \A s \in Sent' :
                         IsOpen(s)' =>
                           /\ streams'[s].session = currentSessionId'
                           /\ \A r \in Sent' : Mentions(acc', r) \/ Mentions(shown', r) =>
                                                 streams'[r].session = currentSessionId'
  BY DEF OnDisplay, IsOpen, Mentions
<1>a. /\ \A l \in loads : l.session = currentSessionId /\ \A s \in Sent : ~IsOpen(s)
      /\ \A s \in Sent :
           IsOpen(s) =>
             /\ streams[s].session = currentSessionId
             /\ \A r \in Sent : Mentions(acc, r) \/ Mentions(shown, r) =>
                                  streams[r].session = currentSessionId
  BY StepAside DEF OnDisplay
<1>1. CASE sendMessage
  <2> DEFINE n == Latest + 1
  <2>1. loads' = {} /\ currentSessionId' = currentSessionId
        /\ acc' = [Nothing EXCEPT !.isStreaming = TRUE] /\ shown' = acc'
    BY <1>1, StepAside DEF sendMessage
  <2>2. /\ Sent' = Sent \union {n} /\ \A r \in Sent : streams'[r] = streams[r]
        /\ streams'[n].session = currentSessionId
    BY <1>1, SendingGrows
  <2>3. \A r : ~Mentions(acc', r) /\ ~Mentions(shown', r)
    BY <2>1, WhatIsMentioned
  <2> HIDE DEF n
  <2>4. ASSUME NEW s \in Sent', IsOpen(s)' PROVE streams'[s].session = currentSessionId'
    BY <2>1, <2>2, <2>4, <1>a DEF IsOpen
  <2> QED
    BY <2>1, <2>3, <2>4
<1>b. CASE Navigates
  <2>1. ~sendMessage => Sent' = Sent /\ \A s \in Sent : ~IsOpen(s)'
    BY <1>b, StepAside, StepOnward DEF Onward
  <2>2. \A l \in loads' : l.session = currentSessionId'
    <3>1. loads = {}
      BY <1>b, StepAside
    <3>2. ASSUME NEW m \in Sessions, selectSession(m) PROVE \A l \in loads' : l.session = currentSessionId'
      BY <3>1, <3>2 DEF selectSession, Displayed
    <3>3. (leaveSession \/ \E m \in Sessions : newSession(m)) => loads' = loads
      BY DEF leaveSession, newSession
    <3> QED
      BY <1>b, <3>1, <3>2, <3>3 DEF Navigates
  <2> QED
    BY <1>1, <2>1, <2>2
<1>2. CASE ~sendMessage /\ ~Navigates
  <2>1. /\ Sent' = Sent /\ currentSessionId' = currentSessionId
        /\ \A s \in Sent : (IsOpen(s)' => IsOpen(s)) /\ streams'[s].session = streams[s].session
    BY <1>2, StepAside, StepOnward DEF Onward
  <2>2. ASSUME NEW l \in loads' PROVE l.session = currentSessionId /\ \A s \in Sent : ~IsOpen(s)'
    <3>1. CASE l \in loads
      BY <3>1, <2>1, <1>a
    <3>2. ASSUME NEW k \in loads, ReadHistory(k) PROVE l.session = currentSessionId /\ \A s \in Sent : ~IsOpen(s)'
      <4>1. l \in loads \/ l = [k EXCEPT !.read = TRUE, !.turns = stored[k.session]]
        BY <3>2 DEF ReadHistory
      <4>2. CASE l = [k EXCEPT !.read = TRUE, !.turns = stored[k.session]]
        <5>1. k.session = currentSessionId /\ \A s \in Sent : ~IsOpen(s)
          BY <1>a
        <5>2. l.session = k.session
          BY <4>2, TypedLoads
        <5> QED
          BY <5>1, <5>2, <2>1
      <4> QED
        BY <4>1, <4>2, <3>1
    <3> QED
      BY <3>1, <3>2, <1>2, StepLoads DEF Navigates
  <2>3. ASSUME NEW s \in Sent, IsOpen(s)', NEW r \in Sent, Mentions(acc', r) \/ Mentions(shown', r)
        PROVE  streams'[r].session = currentSessionId
    <3>1. Mentions(acc, r) \/ Mentions(shown, r) \/ (r \in Sent /\ Receive(r))
      BY <2>3, StepMentions
    <3>2. Receive(r) => IsOpen(r)
      BY DEF Receive, NextEvent
    <3> QED
      BY <2>1, <2>3, <3>1, <3>2, <1>a
  <2> QED
    BY <2>1, <2>2, <2>3, <1>a
<1> QED
  BY <1>1, <1>b, <1>2

LEMMA StepOfTheSession ==
  ASSUME TypeInv, StreamingInv, HistoriesOfSessions, OnDisplay, MessagesAreOfTheSession, [Next]_vars
  PROVE  MessagesAreOfTheSession'
<1> USE DEF display, server, ghosts
<1> DEFINE Ours(m) == \A s \in Sent : m.by = s \/ Mentions(m, s) => streams[s].session = currentSessionId
<1> SUFFICES ASSUME ~astray', NEW k \in 1..Len(messages'), NEW s \in Sent',
                    messages'[k].by = s \/ Mentions(messages'[k], s)
             PROVE  streams'[s].session = currentSessionId'
  BY DEF MessagesAreOfTheSession, Mentions
<1>a. /\ ~astray /\ ClientShape /\ Sent = 1..Latest /\ Latest \in Nat
      /\ acc \in Answers /\ messages \in Seq(Messages)
      /\ \A r \in Sent : streams'[r].session = streams[r].session
  BY StepAside, StepSessions, SentIsAnInterval DEF StreamingInv, TypeInv, TypeOK
<1>b. \A i \in 1..Len(messages) : Ours(messages[i])
  BY <1>a DEF MessagesAreOfTheSession
<1>c. ASSUME NEW m, Ours(m), messages'[k] = m, s \in Sent, ~Navigates
      PROVE  streams'[s].session = currentSessionId'
  <2>1. streams[s].session = currentSessionId
    BY <1>c
  <2> QED
    BY <2>1, <1>a, <1>c, StepAside
<1> HIDE DEF Ours
<1>1. CASE messages' = << >>
  BY <1>1
<1>2. CASE UNCHANGED messages /\ ~Navigates /\ ~sendMessage
  <2>1. Sent' = Sent
    BY <1>2, StepOnward DEF Onward
  <2> QED
    BY <1>2, <2>1, <1>b, <1>c
<1>3. CASE sendMessage
  <2> DEFINE n == Latest + 1
  <2>1. /\ Sent' = Sent \union {n} /\ n \notin Sent /\ streams'[n].session = currentSessionId
    BY <1>3, SendingGrows
  <2>2. messages' = Append(messages, UserMessage(n)) /\ currentSessionId' = currentSessionId
    BY <1>3 DEF sendMessage
  <2>3. n # 0 /\ n \in Nat
    BY <1>a
  <2> HIDE DEF n
  <2>4. CASE s = n
    BY <2>1, <2>2, <2>4
  <2>5. CASE s # n
    <3>1. s \in Sent
      BY <2>1, <2>5
    <3>2. CASE k = Len(messages) + 1
      <4>1. messages'[k] = UserMessage(n)
        BY <3>2, <2>2, <1>a, OneMoreTurn
      <4> QED
        BY <4>1, <2>5, WhatIsMentioned DEF UserMessage
    <3>3. CASE k # Len(messages) + 1
      <4>1. k \in 1..Len(messages) /\ messages'[k] = messages[k]
        BY <3>3, <2>2, <1>a, OneMoreTurn
      <4>2. streams[s].session = currentSessionId
        BY <4>1, <3>1, <1>b DEF Ours
      <4> QED
        BY <4>2, <3>1, <2>2, <1>a
    <3> QED
      BY <3>2, <3>3
  <2> QED
    BY <2>4, <2>5
<1>4. ASSUME NEW l \in loads, ShowHistory(l) PROVE streams'[s].session = currentSessionId'
  <2>1. messages' = AsMessages(l.turns) /\ l.turns \in Seq(Sent)
        /\ UNCHANGED <<currentSessionId, streams>>
    BY <1>4, TypedLoads DEF ShowHistory
  <2>2. PICK j \in 1..Len(l.turns) : messages'[k] \in {UserMessage(l.turns[j]), Whole(l.turns[j])}
    BY <2>1, HistoryEntries
  <2>3. streams[l.turns[j]].session = currentSessionId
    BY <2>2, <1>a DEF HistoriesOfSessions, OnDisplay
  <2>4. s = l.turns[j]
    <3>1. s # 0
      BY <1>a, <2>1 DEF Sent
    <3>2. CASE messages'[k] = UserMessage(l.turns[j])
      BY <3>2, WhatIsMentioned DEF UserMessage
    <3>3. CASE messages'[k] = Whole(l.turns[j])
      <4>1. Whole(l.turns[j]).by = 0
        BY DEF Whole
      <4> QED
        BY <3>1, <3>3, <4>1, WholeMentions
    <3> QED
      BY <2>2, <3>2, <3>3
  <2> QED
    BY <2>1, <2>3, <2>4
<1>5. ASSUME NEW r \in Sent, messages' = Append(messages, Answer(acc)), IsOpen(r), ~Navigates, ~sendMessage
      PROVE  streams'[s].session = currentSessionId'
  <2>1. s \in Sent
    BY <1>5, StepOnward DEF Onward
  <2>2. Ours(Answer(acc))
    <3> SUFFICES ASSUME NEW t \in Sent, Answer(acc).by = t \/ Mentions(Answer(acc), t)
                 PROVE  streams[t].session = currentSessionId
      BY DEF Ours
    <3>1. Mentions(acc, t)
      <4>1. Answer(acc).by = 0 /\ t # 0
        BY <1>a DEF Answer
      <4> QED
        BY <4>1, <1>a, WhatIsMentioned
    <3> QED
      BY <3>1, <1>5, <1>a DEF OnDisplay
  <2>3. CASE k = Len(messages) + 1
    <3>1. messages'[k] = Answer(acc)
      BY <2>3, <1>5, <1>a, OneMoreTurn
    <3> QED
      BY <3>1, <2>1, <2>2, <1>5, <1>c
  <2>4. CASE k # Len(messages) + 1
    <3>1. k \in 1..Len(messages) /\ messages'[k] = messages[k]
      BY <2>4, <1>5, <1>a, OneMoreTurn
    <3> QED
      BY <3>1, <2>1, <1>5, <1>b, <1>c
  <2> QED
    BY <2>3, <2>4
<1>6. Navigates => messages' = << >>
  BY DEF Navigates, leaveSession, selectSession, newSession, Displayed
<1> QED
  BY <1>1, <1>2, <1>3, <1>4, <1>5, <1>6, StepMessages

LEMMA InitSessions == Init => SessionInv
<1> SUFFICES ASSUME Init PROVE SessionInv
  OBVIOUS
<1>1. Sent = {} /\ messages = << >> /\ loads = {} /\ \A m \in Sessions : stored[m] = << >>
  BY DEF Init, Sent
<1> QED
  BY <1>1 DEF SessionInv, HistoriesOfSessions, OnDisplay, MessagesAreOfTheSession

LEMMA StepSession == TypeInv /\ StreamingInv /\ SessionInv /\ [Next]_vars => SessionInv'
<1> SUFFICES ASSUME TypeInv, StreamingInv, SessionInv, [Next]_vars PROVE SessionInv'
  OBVIOUS
<1>1. HistoriesOfSessions /\ OnDisplay /\ MessagesAreOfTheSession
  BY DEF SessionInv
<1>2. HistoriesOfSessions' /\ OnDisplay'
  BY <1>1, StepHistories, StepOnDisplay
<1>3. MessagesAreOfTheSession'
  BY <1>1, StepOfTheSession
<1> QED
  BY <1>2, <1>3 DEF SessionInv

-----------------------------------------------------------------------------
(* What is on display *)

\* The stream of an undisturbed turn is open until the turn is over.
LEMMA OverOrOpen ==
  ASSUME StreamingInv, RestIsToCome, NEW s \in Sent \ disturbed, ~IsOpen(s)
  PROVE  streams[s].state = "closed" /\ remaining[s] = << >> /\ turn[s] # "running"
<1>1. streams[s] \in StreamRecords
  BY DEF StreamingInv, ClientShape, Sent
<1>2. streams[s].state \in {"open", "closed", "aborted"}
  BY <1>1 DEF StreamRecords
<1> QED
  BY <1>2 DEF RestIsToCome, IsOpen

\* What becomes of the turns on the server.
LEMMA StepTurns ==
  ASSUME TypeInv, StreamingInv, [Next]_vars, NEW s \in Sent
  PROVE  \/ turn'[s] = turn[s]
         \/ turn[s] = "running" /\ turn'[s] = "failed"
         \/ /\ EndTurn(s) /\ turn[s] = "running" /\ turn'[s] = "stored"
            /\ stored' = [stored EXCEPT ![streams[s].session] = Append(@, s)]
<1> USE DEF display, server, ghosts
<1>a. turn \in [Sent -> {"running", "stored", "failed"}]
  BY DEF TypeInv, TypeOK
<1>1. CASE sendMessage
  BY <1>1, SendingGrows
<1>2. cancelStream \/ leaveSession \/ (\E m \in Sessions : selectSession(m) \/ newSession(m)) => UNCHANGED turn
  BY DEF cancelStream, leaveSession, selectSession, newSession
<1>3. \A l \in loads : History(l) => UNCHANGED turn
  BY DEF History, ReadHistory, ShowHistory, FailHistory
<1>4. Flush \/ UNCHANGED vars => UNCHANGED turn
  BY DEF Flush, vars
<1>5. \A r \in Sent : Stream(r) => UNCHANGED turn
  BY DEF Stream, Receive, LoseEvent, NextEvent, ReceiveError, CloseStream, FailStream
<1>7. ASSUME NEW r \in Sent, EndTurn(r), r # s PROVE turn'[s] = turn[s]
  BY <1>7, <1>a DEF EndTurn
<1>8. ASSUME EndTurn(s)
      PROVE  /\ turn[s] = "running"
             /\ \/ turn'[s] = "failed"
                \/ /\ turn'[s] = "stored"
                   /\ stored' = [stored EXCEPT ![streams[s].session] = Append(@, s)]
  BY <1>8, <1>a DEF EndTurn
<1> QED
  BY <1>1, <1>2, <1>3, <1>4, <1>5, <1>7, <1>8 DEF Next, User

\* While a history is under way and nothing is astray, no undisturbed turn ends.
LEMMA NoneEndsUnderLoads ==
  ASSUME StreamingInv, RestIsToCome, OnDisplay, ~astray, loads # {},
         NEW s \in Sent \ disturbed
  PROVE  ~IsOpen(s) /\ remaining[s] = << >> /\ turn[s] # "running"
<1>1. ~IsOpen(s)
  BY DEF OnDisplay
<1> QED
  BY <1>1, OverOrOpen

LEMMA StepStoredAre ==
  ASSUME TypeInv, StreamingInv, RestIsToCome, OnDisplay, StoredAreInHistories, [Next]_vars
  PROVE  StoredAreInHistories'
<1> USE DEF display, server, ghosts
<1>a. /\ stored \in [Sessions -> Seq(Sent)] /\ ClientShape
      /\ disturbed \subseteq disturbed'
      /\ \A l \in loads : l.session \in Sessions
      /\ \A s \in Sent : streams'[s].session = streams[s].session /\ streams[s].session \in Sessions
  BY StepSessions, StepDisturbs, SessionOfAStream, TypedLoads DEF TypeInv, TypeOK, StreamingInv
<1>1. ASSUME NEW s \in Sent', turn'[s] = "stored"
      PROVE  \E k \in 1..Len(stored'[streams'[s].session]) : stored'[streams'[s].session][k] = s
  <2>1. s \in Sent
    <3>1. CASE sendMessage
      BY <3>1, <1>1, SendingGrows
    <3>2. CASE ~sendMessage
      BY <3>2, StepOnward DEF Onward
    <3> QED
      BY <3>1, <3>2
  <2> DEFINE m == streams[s].session
  <2>2. m \in Sessions /\ streams'[s].session = m /\ stored[m] \in Seq(Sent)
    BY <2>1, <1>a
  <2> HIDE DEF m
  <2>3. CASE turn[s] = "stored"
    <3>1. PICK k \in 1..Len(stored[m]) : stored[m][k] = s
      BY <2>1, <2>3 DEF StoredAreInHistories, m
    <3>2. CASE stored'[m] = stored[m]
      BY <2>2, <3>1, <3>2
    <3>3. ASSUME NEW r \in Sent, stored'[m] = Append(stored[m], r)
          PROVE  k \in 1..Len(stored'[m]) /\ stored'[m][k] = s
      BY <2>2, <3>1, <3>3, OneMoreTurn
    <3>4. stored'[m] = stored[m] \/ \E r \in Sent : stored'[m] = Append(stored[m], r)
      BY <2>2, <1>a, StepStored
    <3> QED
      BY <2>2, <3>2, <3>3, <3>4
  <2>4. CASE turn[s] # "stored"
    <3>1. stored' = [stored EXCEPT ![m] = Append(@, s)]
      BY <2>1, <2>4, <1>1, StepTurns DEF m
    <3>2. stored'[m] = Append(stored[m], s)
      BY <3>1, <2>2, <1>a
    <3>3. Len(stored[m]) + 1 \in 1..Len(stored'[m]) /\ stored'[m][Len(stored[m]) + 1] = s
      <4>1. Len(stored[m]) \in Nat
        BY <2>2
      <4> QED
        BY <4>1, <2>2, <3>2, OneMoreTurn
    <3> QED
      BY <2>2, <3>3
  <2> QED
    BY <2>3, <2>4
<1>2. ASSUME ~astray', NEW l \in loads', l.read
      PROVE  /\ \A s \in Sent' \ disturbed' :
                  turn'[s] = "stored" /\ streams'[s].session = l.session =>
                    \E k \in 1..Len(l.turns) : l.turns[k] = s
             /\ disturbed' = {} => l.turns = stored'[l.session]
  <2>1. ~astray /\ ~sendMessage /\ Sent' = Sent
    <3>1. ~astray /\ (sendMessage => loads = {})
      BY <1>2, StepAside
    <3>2. sendMessage => loads' = loads
      BY DEF sendMessage
    <3> QED
      BY <1>2, <3>1, <3>2, StepOnward DEF Onward
  <2>2. CASE l \in loads
    <3>1. ASSUME NEW s \in Sent \ disturbed, turn'[s] = "stored" PROVE turn[s] = "stored"
      BY <2>1, <2>2, <3>1, StepTurns, NoneEndsUnderLoads
    <3>2. ASSUME disturbed = {} PROVE stored' = stored
      <4>1. ASSUME NEW s \in Sent PROVE ~EndTurn(s)
        BY <2>1, <2>2, <3>2, NoneEndsUnderLoads DEF EndTurn
      <4> QED
        BY <4>1, StepStored
    <3>3. /\ \A s \in Sent \ disturbed :
               turn[s] = "stored" /\ streams[s].session = l.session =>
                 \E k \in 1..Len(l.turns) : l.turns[k] = s
          /\ disturbed = {} => l.turns = stored[l.session]
      BY <2>1, <2>2, <1>2 DEF StoredAreInHistories
    <3> QED
      BY <2>1, <3>1, <3>2, <3>3, <1>a
  <2>3. ASSUME NEW k \in loads, ReadHistory(k), l = [k EXCEPT !.read = TRUE, !.turns = stored[k.session]]
        PROVE  /\ \A s \in Sent' \ disturbed' :
                    turn'[s] = "stored" /\ streams'[s].session = l.session =>
                      \E i \in 1..Len(l.turns) : l.turns[i] = s
               /\ disturbed' = {} => l.turns = stored'[l.session]
    <3>1. UNCHANGED <<stored, turn, streams>> /\ ~k.read
      BY <2>3 DEF ReadHistory
    <3>2. l.session = k.session /\ l.turns = stored[k.session]
      BY <2>3, TypedLoads
    <3> QED
      BY <2>1, <3>1, <3>2, <1>1 DEF StoredAreInHistories
  <2>4. \/ l \in loads
        \/ \E k \in loads : ReadHistory(k) /\ l = [k EXCEPT !.read = TRUE, !.turns = stored[k.session]]
    <3>1. ASSUME NEW m \in Sessions, selectSession(m) PROVE l \in loads
      <4>1. PICK i \in (1..MaxLoads) \ {k.id : k \in loads} :
              loads' = loads \union {[id |-> i, session |-> m, turns |-> << >>, read |-> FALSE]}
        BY <3>1 DEF selectSession
      <4> QED
        BY <4>1, <1>2
    <3>2. ASSUME NEW k \in loads, ReadHistory(k)
          PROVE  l \in loads \/ l = [k EXCEPT !.read = TRUE, !.turns = stored[k.session]]
      BY <3>2 DEF ReadHistory
    <3> QED
      BY <3>1, <3>2, StepLoads
  <2> QED
    BY <2>2, <2>3, <2>4
<1> QED
  BY <1>1, <1>2 DEF StoredAreInHistories

LEMMA StepReceived ==
  ASSUME TypeInv, StreamingInv, AnswerInv, OnDisplay, StoredAreInHistories, ReceivedAreShown, [Next]_vars
  PROVE  ReceivedAreShown'
<1> USE DEF display, server, ghosts
<1> SUFFICES ASSUME ~astray', ~missing', loads' = {}, NEW s \in Sent' \ disturbed',
                    streams'[s].session = currentSessionId', remaining'[s] = << >>, turn'[s] # "failed"
             PROVE  \E k \in 1..Len(messages') : messages'[k] = Whole(s)
  BY DEF ReceivedAreShown, Whole
<1>a. /\ ~astray /\ disturbed \subseteq disturbed' /\ messages \in Seq(Messages)
      /\ RestIsToCome /\ ClientShape /\ turn \in [Sent -> {"running", "stored", "failed"}]
  BY StepAside, StepDisturbs DEF TypeInv, TypeOK, AnswerInv, StreamingInv
<1>b. s \in Sent \ disturbed
  <2>1. ASSUME sendMessage PROVE s \in Sent
    <3>1. Sent' = Sent \union {Latest + 1} /\ remaining'[Latest + 1] = Turn
      BY <2>1, SendingGrows
    <3>2. Turn # << >>
      BY TurnAssumption
    <3> QED
      BY <3>1, <3>2
  <2>2. ~sendMessage => s \in Sent
    BY StepOnward DEF Onward
  <2> QED
    BY <2>1, <2>2, <1>a
<1>c. streams[s].session = currentSessionId' /\ turn[s] # "failed"
  BY <1>b, StepSessions, StepTurns
\* One message more hides none.
<1>d. ASSUME NEW m, messages' = Append(messages, m) \/ messages' = messages,
             NEW k \in 1..Len(messages), messages[k] = Whole(s)
      PROVE  k \in 1..Len(messages') /\ messages'[k] = Whole(s)
  BY <1>d, <1>a, OneMoreTurn
<1>1. CASE loads = {} /\ ~Navigates /\ remaining[s] = << >>
  <2>1. PICK k \in 1..Len(messages) : messages[k] = Whole(s)
    <3>1. currentSessionId' = currentSessionId /\ ~missing
      BY <1>1, StepAside
    <3> QED
      BY <3>1, <1>1, <1>a, <1>b, <1>c DEF ReceivedAreShown
  <2>2. sendMessage => messages' = Append(messages, UserMessage(Latest + 1))
    BY DEF sendMessage
  <2>3. messages' = messages \/ \E m : messages' = Append(messages, m)
    BY <1>1, <2>2, StepMessages DEF Navigates
  <2> QED
    BY <2>1, <2>3, <1>d
<1>2. CASE remaining[s] # << >>
  <2>1. ~sendMessage
    BY <1>2, <1>b, SendingGrows
  <2>2. Receive(s) /\ Head(remaining[s]) = "AgentEnd"
    BY <1>2, <1>a, <1>b, <2>1, StepOfTurn, ReceivedIsNext
  <2>3. messages' = Append(messages, Whole(s))
    <3>1. Answer(acc) = Whole(s)
      BY <1>b, <2>2, EndIsWhole
    <3>2. messages' = Append(messages, Answer(acc))
      BY <2>2 DEF Receive, Finalised
    <3> QED
      BY <3>1, <3>2
  <2>4. Len(messages) + 1 \in 1..Len(messages') /\ messages'[Len(messages) + 1] = Whole(s)
    <3>1. Len(messages) \in Nat
      BY <1>a
    <3> QED
      BY <3>1, <2>3, <1>a, OneMoreTurn
  <2> QED
    BY <2>4
<1>3. CASE Navigates
  <2>1. streams[s].session \in Sessions
    BY <1>a, <1>b, SessionOfAStream
  <2>2. ~leaveSession
    BY <2>1, <1>c, SessionsAssumption DEF leaveSession, Displayed
  <2>3. \A m \in Sessions : ~newSession(m)
    BY <1>b, <1>c DEF newSession, Displayed
  <2>4. \A m \in Sessions : ~selectSession(m)
    BY DEF selectSession
  <2> QED
    BY <1>3, <2>2, <2>3, <2>4 DEF Navigates
<1>4. CASE loads # {} /\ ~Navigates /\ remaining[s] = << >>
  <2>1. PICK l \in loads : ShowHistory(l)
    <3>1. \A l \in loads : ~ReadHistory(l)
      BY DEF ReadHistory
    <3> QED
      BY <1>4, <3>1, StepLoads DEF Navigates
  <2>2. l.read /\ messages' = AsMessages(l.turns) /\ l.turns \in Seq(Sent)
    BY <2>1, TypedLoads DEF ShowHistory
  <2>3. turn[s] = "stored"
    BY <1>4, <1>a, <1>b, <1>c, NoneEndsUnderLoads
  <2>4. streams[s].session = l.session
    BY <1>4, <1>a, <1>c, StepAside DEF OnDisplay
  <2>5. PICK j \in 1..Len(l.turns) : l.turns[j] = s
    BY <2>2, <2>3, <2>4, <1>a, <1>b DEF StoredAreInHistories
  <2> QED
    BY <2>2, <2>5, HistoryEntries
<1> QED
  BY <1>1, <1>2, <1>3, <1>4

\* What DisplayIsServed says of a state where nothing is under way.
LEMMA ServedAtRest ==
  ASSUME StreamingInv, RestIsToCome, disturbed = {}, \A s \in Sent : ~IsOpen(s), NEW m
  PROVE  Served(m) = stored[m] /\ ~IsDue(m)
<1>1. Latest > 0 => Latest \in Sent
  BY SentIsAnInterval DEF StreamingInv
<1>2. Latest > 0 => remaining[Latest] = << >> /\ turn[Latest] # "running"
  BY <1>1, OverOrOpen
<1> QED
  BY <1>2 DEF Served, IsDue

LEMMA StepServed ==
  ASSUME TypeInv, StreamingInv, AnswerInv, OnDisplay, StoredAreInHistories, DisplayIsServed, [Next]_vars
  PROVE  DisplayIsServed'
<1> USE DEF display, server, ghosts
<1> SUFFICES ASSUME Undisturbed'
             PROVE  (AsMessages(Served(currentSessionId)) =
                       IF IsDue(currentSessionId) THEN Append(messages, Whole(Latest)) ELSE messages)'
  BY DEF DisplayIsServed
<1>a. /\ currentSessionId' # None /\ ~astray' /\ ~astray /\ ~missing' /\ disturbed' = {} /\ disturbed = {}
      /\ loads' = {} /\ \A s \in Sent' : turn'[s] # "failed"
  BY StepAside, StepDisturbs DEF Undisturbed
<1>b. /\ RestIsToCome /\ OlderAreClosed /\ AccumulatesTheLatest /\ ClientShape
      /\ Sent = 1..Latest /\ Latest \in Nat /\ messages \in Seq(Messages)
      /\ stored \in [Sessions -> Seq(Sent)]
      /\ currentSessionId \in Sessions \union {None}
  BY SentIsAnInterval DEF AnswerInv, StreamingInv, TypeInv, TypeOK
<1>c. \A s \in Sent : turn[s] # "failed" /\ (turn'[s] = turn[s] \/ EndTurn(s))
  <2>1. Sent \subseteq Sent'
    BY StepSessions
  <2> QED
    BY <2>1, <1>a, StepTurns
<1>d. ASSUME loads = {}, ~Navigates
      PROVE  /\ currentSessionId' = currentSessionId
             /\ AsMessages(Served(currentSessionId)) =
                  IF IsDue(currentSessionId) THEN Append(messages, Whole(Latest)) ELSE messages
  BY <1>d, <1>a, <1>c, StepAside DEF DisplayIsServed, Undisturbed
<1>1. CASE sendMessage
  <2> DEFINE n == Latest + 1
             m == currentSessionId
  <2>1. /\ Latest' = n /\ streams'[n].session = m /\ remaining'[n] = Turn /\ turn'[n] = "running"
        /\ Sent' = Sent \union {n} /\ n > 0
    BY <1>1, <1>b, SendingGrows
  <2>2. /\ messages' = Append(messages, UserMessage(n)) /\ UNCHANGED <<currentSessionId, stored>>
        /\ loads = {} /\ m \in Sessions /\ ~Navigates
        /\ \A s \in Sent : ~IsOpen(s)
    <3>1. messages' = Append(messages, UserMessage(n)) /\ UNCHANGED <<currentSessionId, stored>>
          /\ m # None /\ disturbed' = disturbed \union {r \in {n} : \E o \in Sent : IsOpen(o)}
      BY <1>1 DEF sendMessage
    <3>2. ~Navigates
      BY <2>1, <1>b DEF Navigates, leaveSession, selectSession, newSession, Latest
    <3> QED
      BY <1>1, <1>a, <1>b, <3>1, <3>2, StepAside
  <2> HIDE DEF n, m
  <2>3. AsMessages(stored[m]) = messages
    BY <2>2, <1>a, <1>b, <1>d, ServedAtRest DEF m
  <2>4. Served(m)' = Append(stored[m], n) /\ IsDue(m)'
    <3>1. m' = m /\ Turn # << >>
      BY <2>2, TurnAssumption DEF m
    <3> QED
      BY <2>1, <2>2, <3>1 DEF Served, IsDue
  <2>5. AsMessages(Append(stored[m], n)) = Append(Append(AsMessages(stored[m]), UserMessage(n)), Whole(n))
    <3>1. stored[m] \in Seq(Sent')
      <4>1. Sent \subseteq Sent'
        BY <2>1
      <4> QED
        BY <4>1, <2>2, <1>b, SeqGrows
    <3> QED
      BY <3>1, <2>1, HistoryGrows
  <2> QED
    BY <2>1, <2>2, <2>3, <2>4, <2>5 DEF m, AsMessages, Whole, UserMessage
<1>2. ASSUME NEW m \in Sessions, newSession(m)
      PROVE  (AsMessages(Served(currentSessionId)) =
                IF IsDue(currentSessionId) THEN Append(messages, Whole(Latest)) ELSE messages)'
  <2>1. /\ currentSessionId' = m /\ messages' = << >> /\ stored[m] = << >>
        /\ \A s \in Sent : streams[s].session # m
        /\ UNCHANGED <<streams, remaining, turn, stored>>
    BY <1>2 DEF newSession, Displayed
  <2>2. Latest > 0 => streams[Latest].session # m
    BY <2>1, <1>b
  <2>3. Served(currentSessionId)' = << >> /\ ~IsDue(currentSessionId)'
    BY <2>1, <2>2 DEF Served, IsDue, Latest
  <2>4. AsMessages(<< >>) = << >>
    BY DEF AsMessages
  <2> QED
    BY <2>1, <2>3, <2>4 DEF AsMessages, Whole, UserMessage
<1>3. ASSUME NEW l \in loads, ShowHistory(l)
      PROVE  (AsMessages(Served(currentSessionId)) =
                IF IsDue(currentSessionId) THEN Append(messages, Whole(Latest)) ELSE messages)'
  <2>1. /\ l.read /\ messages' = AsMessages(l.turns)
        /\ UNCHANGED <<currentSessionId, streams, remaining, turn, stored>>
    BY <1>3 DEF ShowHistory
  <2>2. l.session = currentSessionId /\ \A s \in Sent : ~IsOpen(s)
    BY <1>a DEF OnDisplay
  <2>3. l.turns = stored[currentSessionId]
    BY <2>1, <2>2, <1>a DEF StoredAreInHistories
  <2>4. Served(currentSessionId) = stored[currentSessionId] /\ ~IsDue(currentSessionId)
    BY <2>2, <1>a, <1>b, ServedAtRest
  <2>5. Served(currentSessionId)' = Served(currentSessionId)
        /\ IsDue(currentSessionId)' = IsDue(currentSessionId)
    BY <2>1 DEF Served, IsDue, Latest
  <2> QED
    BY <2>1, <2>3, <2>4, <2>5 DEF AsMessages, Whole, UserMessage
<1>4. CASE loads = {} /\ ~Navigates /\ ~sendMessage
  <2> DEFINE m == currentSessionId
  <2>1. /\ Latest' = Latest /\ Sent' = Sent /\ m' = m
        /\ \A s \in Sent : streams'[s].session = streams[s].session
    BY <1>4, StepAside, StepOnward DEF Onward
  <2>2. Latest > 0 => Latest \in Sent
    BY <1>b
  <2>3. \A s \in Sent : IsOpen(s) => s = Latest /\ streams[s].session = m
    <3>1. \A s \in Sent : IsOpen(s) => s = Latest
      BY <1>a, <1>b DEF OlderAreClosed
    <3> QED
      BY <3>1, <1>a DEF OnDisplay
  <2>4. Served(m)' = Served(m)
    <3>1. CASE \E s \in Sent : EndTurn(s)
      <4>1. PICK s \in Sent : EndTurn(s)
        BY <3>1
      <4>2. turn[s] = "running" /\ turn'[s] = "stored"
            /\ stored' = [stored EXCEPT ![streams[s].session] = Append(@, s)]
        <5>1. turn[s] = "running" /\ turn'[s] # turn[s]
          BY <4>1 DEF EndTurn, TypeInv, TypeOK
        <5> QED
          BY <5>1, <2>1, <1>a, StepTurns
      <4>3. s = Latest /\ streams[s].session = m
        BY <4>2, <2>3, <1>a, <1>b, OverOrOpen
      <4>4. m \in Sessions
        BY <4>3, <1>b, SessionOfAStream
      <4>5. stored'[m] = Append(stored[m], s)
        BY <4>2, <4>3, <4>4, <1>b
      <4>6. Latest > 0
        BY <4>3, <1>b
      <4> HIDE DEF m
      <4> QED
        BY <4>2, <4>3, <4>5, <4>6, <2>1 DEF Served
    <3>2. CASE ~\E s \in Sent : EndTurn(s)
      <4>1. stored' = stored /\ \A s \in Sent : turn'[s] = turn[s]
        BY <3>2, <1>c, StepStored
      <4> HIDE DEF m
      <4> QED
        BY <4>1, <2>1, <2>2 DEF Served
    <3> QED
      BY <3>1, <3>2
  <2>5. ASSUME NEW s \in Sent, Receive(s)
        PROVE  /\ s = Latest /\ Latest > 0 /\ IsDue(m)
               /\ Head(remaining[s]) = "AgentEnd" <=> remaining'[s] = << >>
               /\ Head(remaining[s]) = "AgentEnd" => messages' = Append(messages, Whole(s))
    <3>1. IsOpen(s) /\ remaining[s] # << >>
      BY <2>5 DEF Receive, NextEvent
    <3>2. Head(remaining[s]) = "AgentEnd" <=> remaining'[s] = << >>
      BY <2>5, <1>a, <1>b, ReceivedIsNext
    <3>3. ASSUME Head(remaining[s]) = "AgentEnd" PROVE messages' = Append(messages, Whole(s))
      <4>1. Answer(acc) = Whole(s)
        BY <2>5, <3>3, <1>a, EndIsWhole
      <4>2. messages' = Append(messages, Answer(acc))
        BY <2>5, <3>3 DEF Receive, Finalised
      <4> QED
        BY <4>1, <4>2
    <3>4. s = Latest /\ Latest > 0 /\ streams[s].session = m
      BY <3>1, <2>3, <1>b
    <3> QED
      BY <3>1, <3>2, <3>3, <3>4 DEF IsDue
  <2>6. CASE \E s \in Sent : Receive(s) /\ Head(remaining[s]) = "AgentEnd"
    <3>1. /\ Latest > 0 /\ IsDue(m) /\ remaining'[Latest] = << >>
          /\ messages' = Append(messages, Whole(Latest))
      BY <2>5, <2>6
    <3>2. ~IsDue(m)'
      BY <3>1, <2>1 DEF IsDue
    <3> QED
      BY <3>1, <3>2, <2>1, <2>4, <1>4, <1>d DEF AsMessages, Whole, UserMessage
  <2>7. CASE ~\E s \in Sent : Receive(s) /\ Head(remaining[s]) = "AgentEnd"
    <3>1. messages' = messages
      <4>1. \A l \in loads : ~ShowHistory(l)
        BY <1>4
      <4>2. \A s \in Sent : ~(CloseStream(s) /\ acc.isStreaming)
        BY <1>a, ClosingFinalises
      <4> QED
        BY <4>1, <4>2, <2>7, <1>4, StepMessages DEF Navigates
    <3>2. Latest > 0 => (remaining'[Latest] = << >> <=> remaining[Latest] = << >>)
      <4>1. ASSUME Latest > 0, Receive(Latest) PROVE remaining'[Latest] # << >> /\ remaining[Latest] # << >>
        BY <4>1, <2>2, <2>5, <2>7 DEF Receive, NextEvent
      <4>2. ASSUME Latest > 0, ~Receive(Latest) PROVE remaining'[Latest] = remaining[Latest]
        BY <4>2, <2>2, <1>4, <1>a, StepOfTurn
      <4> QED
        BY <4>1, <4>2
    <3>3. IsDue(m)' <=> IsDue(m)
      BY <3>2, <2>1, <2>2 DEF IsDue
    <3> QED
      BY <3>1, <3>3, <2>1, <2>4, <1>4, <1>d DEF AsMessages, Whole, UserMessage
  <2> QED
    BY <2>6, <2>7
<1>5. CASE Navigates
  <2>1. ~leaveSession /\ \A m \in Sessions : ~selectSession(m)
    BY <1>a DEF leaveSession, selectSession, Displayed
  <2> QED
    BY <1>2, <1>5, <2>1 DEF Navigates
<1>6. CASE loads # {} /\ ~Navigates /\ ~sendMessage
  <2>1. \A l \in loads : ~ReadHistory(l)
    BY <1>a DEF ReadHistory
  <2> QED
    BY <1>3, <1>6, <1>a, <2>1, StepLoads DEF Navigates
<1> QED
  BY <1>1, <1>4, <1>5, <1>6

LEMMA InitDisplay == Init => DisplayInv
<1> SUFFICES ASSUME Init PROVE DisplayInv
  OBVIOUS
<1>1. Sent = {} /\ loads = {} /\ currentSessionId = None
  BY DEF Init, Sent
<1> QED
  BY <1>1 DEF DisplayInv, StoredAreInHistories, ReceivedAreShown, DisplayIsServed, Undisturbed

LEMMA StepDisplay ==
  TypeInv /\ StreamingInv /\ AnswerInv /\ SessionInv /\ DisplayInv /\ [Next]_vars => DisplayInv'
<1> SUFFICES ASSUME TypeInv, StreamingInv, AnswerInv, SessionInv, DisplayInv, [Next]_vars
             PROVE  DisplayInv'
  OBVIOUS
<1>1. RestIsToCome /\ OnDisplay /\ StoredAreInHistories /\ ReceivedAreShown /\ DisplayIsServed
  BY DEF AnswerInv, SessionInv, DisplayInv
<1>2. StoredAreInHistories'
  BY <1>1, StepStoredAre
<1>3. ReceivedAreShown'
  BY <1>1, StepReceived
<1>4. DisplayIsServed'
  BY <1>1, StepServed
<1> QED
  BY <1>2, <1>3, <1>4 DEF DisplayInv

-----------------------------------------------------------------------------
(* What the web client promises *)

ClientInv == TypeInv /\ StreamingInv /\ AnswerInv /\ SessionInv /\ DisplayInv

\* The layers together are an invariant of the web client against the server:
\* the one all that follows is read off.
THEOREM ClientIsConsistent == Spec => []ClientInv
<1>1. Init => ClientInv
  BY InitStreaming, InitTypes, InitAnswers, InitSessions, InitDisplay DEF ClientInv
<1>2. ClientInv /\ [Next]_vars => ClientInv'
  BY StepStreaming, StepTypes, StepAnswers, StepSession, StepDisplay DEF ClientInv
<1> QED
  BY <1>1, <1>2, PTL DEF Spec

\* The chat store, the fetches and what the server keeps of them have the form
\* the handlers of the web client rely on.
THEOREM TypeCorrect == Spec => []TypeOK
<1>1. ClientInv => TypeOK
  BY DEF ClientInv, TypeInv
<1> QED
  BY <1>1, ClientIsConsistent, PTL

\* While an answer is shown as streaming, the button cancels the stream it
\* comes from (cancelStream, sendMessage, onEvent, onDone and onError of the
\* web client), whatever sessions are opened and whatever is lost on the way.
THEOREM ButtonCancelsTheStream == Spec => []StreamingIsTheLatest
<1>1. ClientInv => StreamingIsTheLatest
  BY DEF ClientInv, StreamingInv
<1> QED
  BY <1>1, ClientIsConsistent, PTL

\* An answer in the list is all of its turn and nothing of another, as long as
\* its turn was not disturbed (onEvent, onDone, the flush timer and pe() of the
\* web client), whatever the events of a turn are and however its tool calls
\* overlap.
THEOREM AnswersStayWhole == Spec => []AnswersAreWhole
<1>1. ClientInv => AnswersAreWhole
  BY DEF ClientInv, AnswerInv
<1> QED
  BY <1>1, ClientIsConsistent, PTL

\* No message of one session is shown in another (selectSession, newSession,
\* the handlers of a stream and the answer to GET .../messages), unless a
\* session was left before what it had under way came in.
THEOREM MessagesStayInTheSession == Spec => []MessagesAreOfTheSession
<1>1. ClientInv => MessagesAreOfTheSession
  BY DEF ClientInv, SessionInv
<1> QED
  BY <1>1, ClientIsConsistent, PTL

\* The answer of an undisturbed turn that was stored stays on display as long
\* as its session does (onEvent, onDone, cancelStream and onError of the turns
\* after it), and comes back with the session unless the GET of its history fails.
THEOREM StoredAnswersStayShown == Spec => []StoredAnswersAreShown
<1>1. ClientInv => StoredAnswersAreShown
  <2> SUFFICES ASSUME ClientInv, NEW s \in Sent \ disturbed,
                      streams[s].state = "closed", turn[s] = "stored",
                      ~astray, ~missing, loads = {}, streams[s].session = currentSessionId
               PROVE  \E k \in 1..Len(messages) : messages[k] = Whole(s)
    BY DEF StoredAnswersAreShown
  <2>1. remaining[s] = << >>
    BY DEF ClientInv, AnswerInv, RestIsToCome
  <2> QED
    BY <2>1 DEF ClientInv, DisplayInv, ReceivedAreShown
<1> QED
  BY <1>1, ClientIsConsistent, PTL

\* At rest the list of messages is what the server has stored of the session on
\* display: nothing is missing, nothing is shown twice or out of order
\* (sendMessage, onEvent and onDone against save_memory and pe()), unless the
\* GET of its history failed (the catch of selectSession).
THEOREM DisplayIsOfTheServer == Spec => []DisplayMatchesServer
<1>1. ClientInv => DisplayMatchesServer
  <2> SUFFICES ASSUME ClientInv, currentSessionId # None, ~astray, ~missing, disturbed = {}, loads = {},
                      \A s \in Sent : ~IsOpen(s) /\ turn[s] = "stored"
               PROVE  messages = HistoryOf(currentSessionId)
    BY DEF DisplayMatchesServer
  <2>1. Undisturbed
    BY DEF Undisturbed
  <2>2. Served(currentSessionId) = stored[currentSessionId] /\ ~IsDue(currentSessionId)
    BY ServedAtRest DEF ClientInv, AnswerInv
  <2> QED
    BY <2>1, <2>2 DEF ClientInv, DisplayInv, DisplayIsServed, HistoryOf
<1> QED
  BY <1>1, ClientIsConsistent, PTL
=============================================================================
