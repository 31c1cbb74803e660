----------------------- MODULE PaymentWorkflowProofs -----------------------
(***************************************************************************)
(* Safety of payments, for any number of actors, invoices, evidence        *)
(* references and amounts. The first part proves what is needed about the  *)
(* sum of a finite set of payments: MapThenSumSet is a recursive function  *)
(* on the subsets of the set, and the induction over their size is done by *)
(* a least counterexample.                                                 *)
(***************************************************************************)
EXTENDS PaymentWorkflow, FiniteSetTheorems, SequenceTheorems,
        WellFoundedInduction, TLAPS

-----------------------------------------------------------------------------
(* Sums                                                                    *)

Chosen(s) == CHOOSE x \in s : TRUE

(* g sums up the amounts of every set of D, element by element.            *)
Sums(P, D, g) ==
  g = [s \in D |-> IF s = {} THEN 0 ELSE P[Chosen(s)].amount + g[s \ {Chosen(s)}]]

SumFn(P, S) == CHOOSE g : Sums(P, SUBSET S, g)

SumOf(P, S) == SumFn(P, S)[S]

(* The sum the model is written with.                                      *)
LEMMA SumIsSum ==
  ASSUME NEW P, NEW S
  PROVE  MapThenSumSet(LAMBDA r : P[r].amount, S) = SumOf(P, S)
BY DEF MapThenSumSet, MapThenFoldSet, SumOf, SumFn, Sums, Chosen

(* A set of naturals has a least element.                                  *)
LEMMA LeastNatural ==
  ASSUME NEW T, T \subseteq Nat, T # {}
  PROVE  \E x \in T : \A y \in T : x <= y
<1>1. PICK x \in T : \A y \in T : ~ (<<y, x>> \in OpToRel(<, Nat))
  BY NatLessThanWellFounded, WFMin
<1>2. \A y \in T : ~(y < x)
  BY <1>1 DEF OpToRel
<1> QED BY <1>2

(* Among the subsets of a finite set that have a property there is one     *)
(* that loses it with each of its elements.                                *)
LEMMA MinimalSubset ==
  ASSUME NEW S, IsFiniteSet(S), NEW B, B \subseteq SUBSET S, B # {}
  PROVE  \E s \in B : \A x \in s : s \ {x} \notin B
<1> DEFINE T == {Cardinality(s) : s \in B}
<1>1. \A s \in B : IsFiniteSet(s) /\ Cardinality(s) \in Nat
  BY FS_Subset, FS_CardinalityType
<1>2. T \subseteq Nat /\ T # {}
  BY <1>1
<1>3. PICK n \in T : \A m \in T : n <= m
  BY <1>2, LeastNatural
<1>4. PICK s \in B : Cardinality(s) = n
  BY <1>3
<1>5. ASSUME NEW x \in s, s \ {x} \in B PROVE FALSE
  <2>1. Cardinality(s \ {x}) = Cardinality(s) - 1
    BY <1>1, FS_RemoveElement
  <2>2. n <= Cardinality(s \ {x})
    BY <1>3, <1>5
  <2> QED BY <1>1, <1>4, <2>1, <2>2
<1> QED BY <1>5

(* An element of a nonempty set.                                           *)
LEMMA ChosenIn == ASSUME NEW s, s # {} PROVE Chosen(s) \in s
BY DEF Chosen

(* The sums of the subsets of a finite set exist.                          *)
LEMMA SumsExist ==
  ASSUME NEW P, NEW S, IsFiniteSet(S)
  PROVE  \E g : Sums(P, SUBSET S, g)
<1> DEFINE D(n) == {s \in SUBSET S : Cardinality(s) <= n}
           Bad == {n \in Nat : ~ \E g : Sums(P, D(n), g)}
<1>0. \A s \in SUBSET S : IsFiniteSet(s) /\ Cardinality(s) \in Nat
                          /\ Cardinality(s) <= Cardinality(S)
  BY FS_Subset, FS_CardinalityType
<1>a. \A s \in SUBSET S : s # {} =>
        /\ s \ {Chosen(s)} \in SUBSET S
        /\ Cardinality(s \ {Chosen(s)}) = Cardinality(s) - 1
  BY <1>0, ChosenIn, FS_RemoveElement
<1>1. Bad = {}
  <2> SUFFICES ASSUME Bad # {} PROVE FALSE
    OBVIOUS
  <2>1. PICK n \in Bad : \A m \in Bad : n <= m
    BY LeastNatural
  <2>2. CASE n = 0
    <3>1. \A s \in D(0) : s = {}
      BY <1>0, FS_EmptySet
    <3> DEFINE g == [s \in D(0) |-> 0]
    <3>2. g = [s \in D(0) |-> IF s = {} THEN 0 ELSE P[Chosen(s)].amount + g[s \ {Chosen(s)}]]
      BY <3>1
    <3> QED BY <2>1, <2>2, <3>2 DEF Sums
  <2>3. CASE n # 0
    <3>0. n \in Nat
      OBVIOUS
    <3>1. n - 1 \in Nat /\ n - 1 \notin Bad
      <4> HIDE DEF Bad
      <4> QED BY <2>1, <2>3, <3>0
    <3>2. PICK h : Sums(P, D(n - 1), h)
      BY <3>1
    <3>3. \A s \in D(n - 1) :
            h[s] = IF s = {} THEN 0 ELSE P[Chosen(s)].amount + h[s \ {Chosen(s)}]
      BY <3>2 DEF Sums
    <3> DEFINE g == [s \in D(n) |-> IF s = {} THEN 0
                                    ELSE P[Chosen(s)].amount + h[s \ {Chosen(s)}]]
    <3>4. \A s \in D(n) : s # {} => s \ {Chosen(s)} \in D(n - 1) /\ s \ {Chosen(s)} \in D(n)
      BY <1>0, <1>a, <2>1
    <3>5. \A s \in D(n) : s # {} => g[s \ {Chosen(s)}] = h[s \ {Chosen(s)}]
      <4> SUFFICES ASSUME NEW s \in D(n), s # {}
                   PROVE  g[s \ {Chosen(s)}] = h[s \ {Chosen(s)}]
        OBVIOUS
      <4> DEFINE u == s \ {Chosen(s)}
      <4>1. u \in D(n - 1) /\ u \in D(n)
        BY <3>4
      <4> HIDE DEF u
      <4>2. g[u] = IF u = {} THEN 0 ELSE P[Chosen(u)].amount + h[u \ {Chosen(u)}]
        BY <4>1
      <4>3. g[u] = h[u]
        BY <3>3, <4>1, <4>2
      <4> QED BY <4>3 DEF u
    <3>6. Sums(P, D(n), g)
      BY <3>5 DEF Sums
    <3> QED BY <2>1, <3>6
  <2> QED BY <2>2, <2>3
<1>2. Cardinality(S) \in Nat
  BY <1>0
<1>3. D(Cardinality(S)) = SUBSET S
  BY <1>0
<1>4. \E g : Sums(P, D(Cardinality(S)), g)
  BY <1>1, <1>2
<1> QED BY <1>3, <1>4

(* The equation of the chosen function.                                    *)
LEMMA SumEquation ==
  ASSUME NEW P, NEW S, IsFiniteSet(S), NEW s \in SUBSET S
  PROVE  SumFn(P, S)[s] =
           IF s = {} THEN 0 ELSE P[Chosen(s)].amount + SumFn(P, S)[s \ {Chosen(s)}]
<1>1. Sums(P, SUBSET S, SumFn(P, S))
  <2>1. \E g : Sums(P, SUBSET S, g)
    BY SumsExist
  <2> QED BY <2>1 DEF SumFn
<1> DEFINE g == SumFn(P, S)
<1> HIDE DEF g
<1>2. g = [t \in SUBSET S |-> IF t = {} THEN 0
                              ELSE P[Chosen(t)].amount + g[t \ {Chosen(t)}]]
  BY <1>1 DEF Sums, g
<1>3. g[s] = IF s = {} THEN 0 ELSE P[Chosen(s)].amount + g[s \ {Chosen(s)}]
  BY <1>2
<1> QED BY <1>3 DEF g

(* It does not matter which set the sum of a set is computed in, nor what  *)
(* the payments outside the set are.                                       *)
LEMMA SumsAgree ==
  ASSUME NEW P, NEW Q, NEW S, IsFiniteSet(S), NEW T, IsFiniteSet(T), S \subseteq T,
         \A r \in S : P[r].amount = Q[r].amount
  PROVE  SumFn(P, S)[S] = SumFn(Q, T)[S]
<1> DEFINE g == SumFn(P, S)
           k == SumFn(Q, T)
           Bad == {s \in SUBSET S : g[s] # k[s]}
<1>1. \A s \in SUBSET S :
        g[s] = IF s = {} THEN 0 ELSE P[Chosen(s)].amount + g[s \ {Chosen(s)}]
  BY SumEquation
<1>2. \A s \in SUBSET T :
        k[s] = IF s = {} THEN 0 ELSE Q[Chosen(s)].amount + k[s \ {Chosen(s)}]
  BY SumEquation
<1> HIDE DEF g, k
<1>3. Bad = {}
  <2> SUFFICES ASSUME Bad # {} PROVE FALSE
    OBVIOUS
  <2>1. PICK s \in Bad : \A x \in s : s \ {x} \notin Bad
    BY MinimalSubset
  <2>2. s \in SUBSET S /\ s \in SUBSET T /\ g[s] # k[s]
    OBVIOUS
  <2>3. s # {}
    BY <1>1, <1>2, <2>2
  <2>4. Chosen(s) \in s /\ s \ {Chosen(s)} \in SUBSET S
    BY <2>2, <2>3, ChosenIn
  <2>5. g[s \ {Chosen(s)}] = k[s \ {Chosen(s)}]
    BY <2>1, <2>4
  <2>6. P[Chosen(s)].amount = Q[Chosen(s)].amount
    BY <2>2, <2>4
  <2>7. g[s] = P[Chosen(s)].amount + g[s \ {Chosen(s)}]
    BY <1>1, <2>2, <2>3
  <2>8. k[s] = Q[Chosen(s)].amount + k[s \ {Chosen(s)}]
    BY <1>2, <2>2, <2>3
  <2> QED BY <2>2, <2>5, <2>6, <2>7, <2>8
<1>4. S \in SUBSET S
  OBVIOUS
<1>5. g[S] = k[S]
  BY <1>3, <1>4
<1> QED BY <1>5 DEF g, k

(* Payments with the same amounts have the same sum.                       *)
LEMMA SumCongruent ==
  ASSUME NEW P, NEW Q, NEW S, IsFiniteSet(S), \A r \in S : P[r].amount = Q[r].amount
  PROVE  SumOf(P, S) = SumOf(Q, S)
BY SumsAgree DEF SumOf

LEMMA SumUnfold ==
  ASSUME NEW P, NEW S, IsFiniteSet(S)
  PROVE  SumOf(P, S) = IF S = {} THEN 0
                       ELSE P[Chosen(S)].amount + SumOf(P, S \ {Chosen(S)})
<1> DEFINE g == SumFn(P, S)
<1>1. g[S] = IF S = {} THEN 0 ELSE P[Chosen(S)].amount + g[S \ {Chosen(S)}]
  BY SumEquation
<1>2. IsFiniteSet(S \ {Chosen(S)}) /\ S \ {Chosen(S)} \subseteq S
  BY FS_RemoveElement
<1>3. SumOf(P, S \ {Chosen(S)}) = g[S \ {Chosen(S)}]
  BY <1>2, SumsAgree DEF SumOf
<1>4. SumOf(P, S) = g[S]
  BY DEF SumOf
<1> HIDE DEF g
<1> QED BY <1>1, <1>3, <1>4

LEMMA SumType ==
  ASSUME NEW P, NEW S, IsFiniteSet(S), \A r \in S : P[r].amount \in Nat
  PROVE  SumOf(P, S) \in Nat
<1> DEFINE Bad == {s \in SUBSET S : SumOf(P, s) \notin Nat}
<1>1. Bad = {}
  <2> SUFFICES ASSUME Bad # {} PROVE FALSE
    OBVIOUS
  <2>1. PICK s \in Bad : \A x \in s : s \ {x} \notin Bad
    BY MinimalSubset
  <2>2. IsFiniteSet(s)
    BY FS_Subset
  <2>3. s # {}
    <3>1. SumOf(P, {}) = 0
      BY SumUnfold, FS_EmptySet
    <3> QED BY <3>1
  <2>4. Chosen(s) \in s /\ SumOf(P, s \ {Chosen(s)}) \in Nat
    BY <2>1, <2>3, ChosenIn
  <2> QED BY <2>2, <2>3, <2>4, SumUnfold
<1> QED BY <1>1

(* Any element may be taken out first.                                     *)
LEMMA SumRemove ==
  ASSUME NEW P, NEW S, IsFiniteSet(S), \A r \in S : P[r].amount \in Nat, NEW x \in S
  PROVE  SumOf(P, S) = P[x].amount + SumOf(P, S \ {x})
<1> DEFINE Bad == {s \in SUBSET S : \E y \in s : SumOf(P, s) # P[y].amount + SumOf(P, s \ {y})}
<1>1. Bad = {}
  <2> SUFFICES ASSUME Bad # {} PROVE FALSE
    OBVIOUS
  <2>1. PICK s \in Bad : \A y \in s : s \ {y} \notin Bad
    BY MinimalSubset
  <2>2. PICK y \in s : SumOf(P, s) # P[y].amount + SumOf(P, s \ {y})
    OBVIOUS
  <2> DEFINE c == Chosen(s)
  <2>3. IsFiniteSet(s) /\ s \subseteq S /\ c \in s
    BY <2>2, FS_Subset, ChosenIn
  <2> HIDE DEF c
  <2>4. SumOf(P, s) = P[c].amount + SumOf(P, s \ {c})
    BY <2>2, <2>3, SumUnfold DEF c
  <2>5. c # y
    BY <2>2, <2>4
  <2>6. SumOf(P, s \ {c}) = P[y].amount + SumOf(P, (s \ {c}) \ {y})
    BY <2>1, <2>3, <2>5
  <2>7. SumOf(P, s \ {y}) = P[c].amount + SumOf(P, (s \ {y}) \ {c})
    BY <2>1, <2>2, <2>3, <2>5
  <2>8. (s \ {c}) \ {y} = (s \ {y}) \ {c}
    OBVIOUS
  <2>9. SumOf(P, (s \ {c}) \ {y}) \in Nat
    <3>1. IsFiniteSet((s \ {c}) \ {y})
      BY <2>3, FS_RemoveElement
    <3> QED BY <2>3, <3>1, SumType
  <2>10. P[c].amount \in Nat /\ P[y].amount \in Nat
    BY <2>3
  <2> DEFINE m == SumOf(P, (s \ {c}) \ {y})
             a == P[c].amount
             b == P[y].amount
  <2>11. SumOf(P, s) = a + (b + m) /\ SumOf(P, s \ {y}) = a + m
    BY <2>4, <2>6, <2>7, <2>8
  <2>12. a + (b + m) = b + (a + m)
    <3>1. a \in Nat /\ b \in Nat /\ m \in Nat
      BY <2>9, <2>10
    <3> HIDE DEF a, b, m
    <3> QED BY <3>1
  <2> QED BY <2>2, <2>11, <2>12
<1> QED BY <1>1

-----------------------------------------------------------------------------
(* The invariant                                                           *)

(* A key of an actor is claimed in one place.                              *)
UniqueClaims ==
  \A i, j \in DOMAIN claims :
    claims[i].actor = claims[j].actor /\ claims[i].key = claims[j].key => i = j

(* The request that holds the lock has its claim, its evidence reference   *)
(* awaits no reconciliation and is not known to have paid, and once the    *)
(* provider has answered it names a payment made with that evidence        *)
(* reference.                                                              *)
CallInv ==
  call.at # "idle" =>
    /\ call.payload.evidence \notin pending
    /\ byEvidence[call.payload.evidence] = NoRef
    /\ \E i \in DOMAIN claims :
         /\ claims[i].actor = call.actor /\ claims[i].key = call.key
         /\ claims[i].payload = call.payload /\ claims[i].outcome = "PENDING"
    /\ call.at = "readback" =>
         /\ call.ref \in DOMAIN payments
         /\ payments[call.ref].evidence = call.payload.evidence

(* A claim that may be tried again names no payment.                       *)
UnpaidNamesNone ==
  \A i \in DOMAIN claims :
    claims[i].outcome \in {"PENDING", "REJECTED"} => claims[i].ref = NoRef

ViewInv == UniqueClaims /\ CallInv /\ UnpaidNamesNone /\ LocalViewIsTrue

(* ReceivableConserved, with the sum the lemmas are about.                 *)
Conserved ==
  \A i \in Invoices :
    IF status[i] = "POSTED" THEN open[i] + SumOf(payments, Live(i)) = Total[i]
    ELSE Live(i) = {}

PaymentInv == PaymentTypeOK /\ ViewInv /\ Conserved

-----------------------------------------------------------------------------
(* What the steps do to the claims and to the payments                     *)

LEMMA SameLength ==
  ASSUME NEW S, NEW n \in Nat, NEW f, f \in [1..n -> S]
  PROVE  f \in Seq(S) /\ Len(f) = n /\ DOMAIN f = 1..n
OBVIOUS

(* A key that is claimed already keeps its place.                          *)
LEMMA PutKnownClaim ==
  ASSUME claims \in Seq(ClaimState), UniqueClaims, NEW c \in ClaimState, PutClaim(c),
         NEW i \in DOMAIN claims, claims[i].actor = c.actor, claims[i].key = c.key
  PROVE  /\ claims' \in Seq(ClaimState) /\ DOMAIN claims' = DOMAIN claims
         /\ claims'[i] = c
         /\ \A j \in DOMAIN claims : j # i => claims'[j] = claims[j]
<1> DEFINE n == Len(claims)
<1>1. n \in Nat /\ DOMAIN claims = 1..n /\ \A j \in 1..n : claims[j] \in ClaimState
  OBVIOUS
<1>2. Claim(c.actor, c.key) = {i}
  BY DEF Claim, UniqueClaims
<1>3. claims' = [j \in 1..n |-> IF j = i THEN c ELSE claims[j]]
  BY <1>1, <1>2 DEF PutClaim
<1> HIDE DEF n
<1>4. claims' \in [1..n -> ClaimState]
  BY <1>1, <1>3
<1>5. claims' \in Seq(ClaimState) /\ DOMAIN claims' = 1..n
  BY <1>1, <1>4, SameLength
<1> QED BY <1>1, <1>3, <1>5

(* A new key goes to the end.                                              *)
LEMMA PutNewClaim ==
  ASSUME claims \in Seq(ClaimState), NEW c \in ClaimState, PutClaim(c),
         Claim(c.actor, c.key) = {}
  PROVE  /\ claims' \in Seq(ClaimState)
         /\ DOMAIN claims' = DOMAIN claims \cup {Len(claims) + 1}
         /\ Len(claims) + 1 \notin DOMAIN claims
         /\ claims'[Len(claims) + 1] = c
         /\ \A j \in DOMAIN claims : claims'[j] = claims[j]
<1>1. claims' = Append(claims, c)
  BY DEF PutClaim
<1> QED BY <1>1

(* A reconciliation changes the outcome and the reference of some claims.  *)
LEMMA ResolvedClaims ==
  ASSUME claims \in Seq(ClaimState), NEW is, NEW o \in Outcomes,
         NEW ref \in {NoRef} \cup Refs, Resolve(is, o, ref)
  PROVE  /\ claims' \in Seq(ClaimState) /\ DOMAIN claims' = DOMAIN claims
         /\ \A i \in DOMAIN claims :
              /\ claims'[i].actor = claims[i].actor /\ claims'[i].key = claims[i].key
              /\ claims'[i].payload = claims[i].payload
              /\ i \in is => claims'[i].outcome = o /\ claims'[i].ref = ref
              /\ i \notin is => claims'[i] = claims[i]
<1> DEFINE n == Len(claims)
           new(c) == [c EXCEPT !.outcome = o, !.ref = ref]
<1>1. n \in Nat /\ DOMAIN claims = 1..n /\ \A j \in 1..n : claims[j] \in ClaimState
  OBVIOUS
<1>2. \A c \in ClaimState : /\ new(c) \in ClaimState /\ new(c).actor = c.actor
                            /\ new(c).key = c.key /\ new(c).payload = c.payload
                            /\ new(c).outcome = o /\ new(c).ref = ref
  BY DEF ClaimState
<1>3. claims' = [i \in 1..n |-> IF i \in is THEN new(claims[i]) ELSE claims[i]]
  BY <1>1 DEF Resolve
<1> HIDE DEF n, new
<1>4. claims' \in [1..n -> ClaimState]
  BY <1>1, <1>2, <1>3
<1>5. claims' \in Seq(ClaimState) /\ DOMAIN claims' = 1..n
  BY <1>1, <1>4, SameLength
<1> QED BY <1>1, <1>2, <1>3, <1>5

(* The provider appends a payment.                                         *)
LEMMA Applied ==
  ASSUME PaymentTypeOK, NEW p \in Payload, ApplyPayment(p), p.amount <= open[p.invoice]
  PROVE  /\ payments' \in Seq(Entry) /\ Len(payments') <= MaxPayments
         /\ Len(payments) + 1 \in Refs /\ Len(payments) + 1 \notin DOMAIN payments
         /\ DOMAIN payments' = DOMAIN payments \cup {Len(payments) + 1}
         /\ \A r \in DOMAIN payments : payments'[r] = payments[r]
         /\ payments'[Len(payments) + 1] =
              [invoice |-> p.invoice, amount |-> p.amount, evidence |-> p.evidence,
               reversed |-> FALSE]
         /\ open' \in [Invoices -> Nat]
<1> DEFINE e == [invoice |-> p.invoice, amount |-> p.amount, evidence |-> p.evidence,
                 reversed |-> FALSE]
<1>1. e \in Entry /\ payments' = Append(payments, e) /\ Len(payments) < MaxPayments
  BY DEF ApplyPayment, Payload, Entry
<1>2. payments \in Seq(Entry) /\ MaxPayments \in Nat
  BY PaymentAssumption DEF PaymentTypeOK
<1>3. p.invoice \in Invoices /\ p.amount \in Nat
  BY PaymentAssumption DEF Payload
<1>4. open' \in [Invoices -> Nat]
  BY <1>3 DEF ApplyPayment, PaymentTypeOK
<1> HIDE DEF e
<1>5. /\ payments' \in Seq(Entry) /\ Len(payments') = Len(payments) + 1
      /\ \A r \in DOMAIN payments : payments'[r] = payments[r]
      /\ payments'[Len(payments) + 1] = e
      /\ DOMAIN payments' = 1..(Len(payments) + 1) /\ DOMAIN payments = 1..Len(payments)
      /\ Len(payments) \in Nat
  BY <1>1, <1>2
<1> QED BY <1>1, <1>2, <1>4, <1>5 DEF e, Refs

(* The provider marks a payment as reversed.                               *)
LEMMA Undone ==
  ASSUME PaymentTypeOK, NEW r \in DOMAIN payments, UndoPayment(r)
  PROVE  /\ payments' \in Seq(Entry) /\ Len(payments') <= MaxPayments
         /\ DOMAIN payments' = DOMAIN payments
         /\ payments'[r].reversed
         /\ \A s \in DOMAIN payments :
              /\ s # r => payments'[s] = payments[s]
              /\ payments'[s].invoice = payments[s].invoice
              /\ payments'[s].amount = payments[s].amount
              /\ payments'[s].evidence = payments[s].evidence
         /\ open' \in [Invoices -> Nat]
<1> DEFINE e == [payments[r] EXCEPT !.reversed = TRUE]
           n == Len(payments)
<1>1. /\ payments \in Seq(Entry) /\ payments[r] \in Entry /\ n \in Nat
      /\ DOMAIN payments = 1..n /\ n <= MaxPayments
  BY DEF PaymentTypeOK
<1>2. \A x \in Entry : LET y == [x EXCEPT !.reversed = TRUE] IN
        /\ y \in Entry /\ y.reversed /\ y.invoice = x.invoice /\ y.amount = x.amount
        /\ y.evidence = x.evidence
  BY DEF Entry
<1>3. /\ e \in Entry /\ e.reversed /\ e.invoice = payments[r].invoice
      /\ e.amount = payments[r].amount /\ e.evidence = payments[r].evidence
  BY <1>1, <1>2
<1>4. payments' = [payments EXCEPT ![r] = e]
  BY <1>1 DEF UndoPayment
<1>5. open' \in [Invoices -> Nat]
  <2>1. payments[r].invoice \in Invoices /\ payments[r].amount \in Nat
    BY <1>1, PaymentAssumption DEF Entry
  <2> QED BY <2>1 DEF UndoPayment, PaymentTypeOK
<1> HIDE DEF e, n
<1>6. payments' \in [1..n -> Entry] /\ payments'[r] = e
      /\ \A s \in DOMAIN payments : s # r => payments'[s] = payments[s]
  BY <1>1, <1>3, <1>4
<1>7. payments' \in Seq(Entry) /\ Len(payments') = n /\ DOMAIN payments' = 1..n
  BY <1>1, <1>6, SameLength
<1> QED BY <1>1, <1>3, <1>5, <1>6, <1>7

-----------------------------------------------------------------------------
(* The books                                                               *)

LEMMA LiveFinite ==
  ASSUME PaymentTypeOK, NEW i
  PROVE  /\ IsFiniteSet(Live(i)) /\ Live(i) \subseteq DOMAIN payments
         /\ \A r \in DOMAIN payments : payments[r].amount \in Nat
<1>1. payments \in Seq(Entry) /\ DOMAIN payments = 1..Len(payments) /\ Len(payments) \in Nat
  BY DEF PaymentTypeOK
<1>2. IsFiniteSet(1..Len(payments))
  BY <1>1, FS_Interval
<1>3. Live(i) \subseteq 1..Len(payments)
  BY <1>1 DEF Live
<1>4. \A r \in DOMAIN payments : payments[r] \in Entry
  BY <1>1
<1> QED BY <1>1, <1>2, <1>3, <1>4, FS_Subset, PaymentAssumption DEF Entry

(* An accepted payment lowers the open amount by what it adds to the sum.  *)
LEMMA ConservedApply ==
  ASSUME PaymentTypeOK, Conserved, NEW p \in Payload, Acceptable(p), ApplyPayment(p)
  PROVE  Conserved'
<1> DEFINE n == Len(payments) + 1
           e == [invoice |-> p.invoice, amount |-> p.amount, evidence |-> p.evidence,
                 reversed |-> FALSE]
<1>0. p.amount <= open[p.invoice] /\ status[p.invoice] = "POSTED" /\ status' = status
  BY DEF Acceptable, ApplyPayment
<1>1. /\ n \notin DOMAIN payments /\ DOMAIN payments' = DOMAIN payments \cup {n}
      /\ \A r \in DOMAIN payments : payments'[r] = payments[r]
      /\ payments'[n] = e
  BY <1>0, Applied
<1>2. p.invoice \in Invoices /\ p.amount \in Nat /\ open \in [Invoices -> Nat]
  BY PaymentAssumption DEF Payload, PaymentTypeOK
<1>3. open' = [open EXCEPT ![p.invoice] = @ - p.amount]
  BY DEF ApplyPayment
<1>4. e.invoice = p.invoice /\ e.amount = p.amount /\ ~e.reversed
  OBVIOUS
<1> HIDE DEF n, e
<1> SUFFICES ASSUME NEW i \in Invoices
             PROVE  IF status'[i] = "POSTED"
                    THEN open'[i] + SumOf(payments', Live(i)') = Total[i]
                    ELSE Live(i)' = {}
  BY DEF Conserved
<1>5. /\ IsFiniteSet(Live(i)) /\ Live(i) \subseteq DOMAIN payments
      /\ \A r \in DOMAIN payments : payments[r].amount \in Nat
  BY LiveFinite
<1>6. SumOf(payments', Live(i)) = SumOf(payments, Live(i))
  BY <1>1, <1>5, SumCongruent
<1>7. SumOf(payments, Live(i)) \in Nat
  BY <1>5, SumType
<1>8. CASE i = p.invoice
  <2>1. Live(i)' = Live(i) \cup {n} /\ n \notin Live(i)
    BY <1>1, <1>4, <1>8 DEF Live
  <2>2. IsFiniteSet(Live(i) \cup {n}) /\ (Live(i) \cup {n}) \ {n} = Live(i)
    BY <1>5, <2>1, FS_AddElement
  <2>3. \A r \in Live(i) \cup {n} : payments'[r].amount \in Nat
    BY <1>1, <1>2, <1>4, <1>5
  <2>4. SumOf(payments', Live(i) \cup {n}) = payments'[n].amount + SumOf(payments', Live(i))
    BY <2>2, <2>3, SumRemove
  <2>5. SumOf(payments', Live(i)') = p.amount + SumOf(payments, Live(i))
    BY <1>1, <1>4, <1>6, <2>1, <2>4
  <2>6. open[i] + SumOf(payments, Live(i)) = Total[i] /\ open[i] \in Nat
    BY <1>0, <1>2, <1>8 DEF Conserved
  <2>7. open'[i] = open[i] - p.amount
    BY <1>2, <1>3, <1>8
  <2>8. open'[i] + SumOf(payments', Live(i)') = Total[i]
    BY <1>2, <1>7, <2>5, <2>6, <2>7
  <2> QED BY <1>0, <1>8, <2>8
<1>9. CASE i # p.invoice
  <2>1. Live(i)' = Live(i)
    BY <1>1, <1>4, <1>9 DEF Live
  <2>2. open'[i] = open[i]
    BY <1>2, <1>3, <1>9
  <2> QED BY <1>0, <1>6, <2>1, <2>2 DEF Conserved
<1> QED BY <1>8, <1>9

(* A reversal raises it by what it takes from the sum.                     *)
LEMMA ConservedUndo ==
  ASSUME PaymentTypeOK, Conserved, NEW r \in DOMAIN payments, ProviderReverses(r)
  PROVE  Conserved'
<1> DEFINE inv == payments[r].invoice
           amt == payments[r].amount
<1>0. /\ ~payments[r].reversed /\ status[inv] = "POSTED" /\ status' = status
      /\ UndoPayment(r) /\ open' = [open EXCEPT ![inv] = @ + amt]
  BY DEF ProviderReverses, UndoPayment
<1>1. /\ DOMAIN payments' = DOMAIN payments /\ payments'[r].reversed
      /\ \A s \in DOMAIN payments :
           /\ s # r => payments'[s] = payments[s]
           /\ payments'[s].invoice = payments[s].invoice
           /\ payments'[s].amount = payments[s].amount
  BY <1>0, Undone
<1>2. inv \in Invoices /\ amt \in Nat /\ open \in [Invoices -> Nat]
  <2>1. payments[r] \in Entry /\ open \in [Invoices -> Nat]
    BY DEF PaymentTypeOK
  <2> QED BY <2>1, PaymentAssumption DEF Entry
<1> HIDE DEF inv, amt
<1> SUFFICES ASSUME NEW i \in Invoices
             PROVE  IF status'[i] = "POSTED"
                    THEN open'[i] + SumOf(payments', Live(i)') = Total[i]
                    ELSE Live(i)' = {}
  BY DEF Conserved
<1>5. /\ IsFiniteSet(Live(i)) /\ Live(i) \subseteq DOMAIN payments
      /\ \A s \in DOMAIN payments : payments[s].amount \in Nat
  BY LiveFinite
<1>6. CASE i = inv
  <2>1. r \in Live(i) /\ Live(i)' = Live(i) \ {r}
    BY <1>0, <1>1, <1>6 DEF Live, inv
  <2>2. SumOf(payments, Live(i)) = amt + SumOf(payments, Live(i) \ {r})
    BY <1>5, <2>1, SumRemove DEF amt
  <2>3. IsFiniteSet(Live(i) \ {r})
    BY <1>5, FS_RemoveElement
  <2>4. SumOf(payments', Live(i) \ {r}) = SumOf(payments, Live(i) \ {r})
    BY <1>1, <1>5, <2>3, SumCongruent
  <2>5. SumOf(payments, Live(i) \ {r}) \in Nat
    BY <1>5, <2>3, SumType
  <2>6. open[i] + SumOf(payments, Live(i)) = Total[i] /\ open[i] \in Nat
    BY <1>0, <1>2, <1>6 DEF Conserved
  <2>7. open'[i] = open[i] + amt
    BY <1>0, <1>2, <1>6
  <2>8. open'[i] + SumOf(payments', Live(i)') = Total[i]
    BY <1>2, <2>1, <2>2, <2>4, <2>5, <2>6, <2>7
  <2> QED BY <1>0, <1>6, <2>8
<1>7. CASE i # inv
  <2>1. Live(i)' = Live(i)
    BY <1>1, <1>7 DEF Live, inv
  <2>2. open'[i] = open[i]
    BY <1>0, <1>2, <1>7
  <2>3. SumOf(payments', Live(i)) = SumOf(payments, Live(i))
    BY <1>1, <1>5, SumCongruent
  <2> QED BY <1>0, <2>1, <2>2, <2>3 DEF Conserved
<1> QED BY <1>6, <1>7

LEMMA ConservedSame ==
  ASSUME Conserved, UNCHANGED providerVars
  PROVE  Conserved'
BY DEF Conserved, providerVars, Live

(* A cancellation finds nobody's money in the invoice.                     *)
LEMMA ConservedVoid ==
  ASSUME Conserved, status \in [Invoices -> {"POSTED", "CANCELLED"}],
         open \in [Invoices -> Nat], NEW i \in Invoices, CancelInvoice(i)
  PROVE  Conserved'
<1>1. /\ payments' = payments /\ Live(i) = {}
      /\ \A j \in Invoices : j # i => status'[j] = status[j] /\ open'[j] = open[j]
      /\ status'[i] = "CANCELLED"
  BY DEF CancelInvoice, VoidInvoice
<1>2. \A j \in Invoices : Live(j)' = Live(j)
  BY <1>1 DEF Live
<1> QED BY <1>1, <1>2 DEF Conserved

-----------------------------------------------------------------------------
(* The steps                                                               *)

(* LocalViewIsTrue, one part per table of the workflow.                    *)
ClaimsTrue ==
  \A i \in DOMAIN claims : claims[i].outcome = "RECORDED" =>
    claims[i].ref \in DOMAIN payments

IndexTrue ==
  \A e \in Evidence : byEvidence[e] # NoRef =>
    byEvidence[e] \in DOMAIN payments /\ payments[byEvidence[e]].evidence = e

ReversalsTrue == \A r \in reversed : r \in DOMAIN payments /\ payments[r].reversed

LEMMA ViewParts ==
  /\ LocalViewIsTrue <=> ClaimsTrue /\ IndexTrue /\ ReversalsTrue
  /\ LocalViewIsTrue' <=> ClaimsTrue' /\ IndexTrue' /\ ReversalsTrue'
BY DEF LocalViewIsTrue, ClaimsTrue, IndexTrue, ReversalsTrue

(* No step of the provider forgets a payment, its evidence or its reversal. *)
Kept ==
  /\ DOMAIN payments \subseteq DOMAIN payments'
  /\ \A r \in DOMAIN payments :
       /\ payments'[r].evidence = payments[r].evidence
       /\ payments[r].reversed => payments'[r].reversed

LEMMA KeptSame ==
  ASSUME payments' = payments
  PROVE  Kept
BY DEF Kept

LEMMA ViewKept ==
  ASSUME LocalViewIsTrue, Kept
  PROVE  /\ byEvidence' = byEvidence => IndexTrue'
         /\ reversed' = reversed => ReversalsTrue'
         /\ \A i \in DOMAIN claims : claims[i].outcome = "RECORDED" =>
              claims[i].ref \in DOMAIN payments'
         /\ claims' = claims => ClaimsTrue'
BY DEF LocalViewIsTrue, Kept, IndexTrue, ReversalsTrue, ClaimsTrue

(* The evidence index gets a payment made with the evidence.               *)
LEMMA IndexedStep ==
  ASSUME PaymentTypeOK, LocalViewIsTrue, payments' = payments, NEW e \in Evidence,
         NEW r \in DOMAIN payments, payments[r].evidence = e,
         byEvidence' = [byEvidence EXCEPT ![e] = r]
  PROVE  IndexTrue'
<1>1. byEvidence'[e] = r /\ \A x \in Evidence : x # e => byEvidence'[x] = byEvidence[x]
  BY DEF PaymentTypeOK
<1> QED BY <1>1 DEF IndexTrue, LocalViewIsTrue

LEMMA CallFields ==
  ASSUME PaymentTypeOK, call.at # "idle"
  PROVE  /\ call \in [at : {"sending", "readback"}, actor : Actors, key : ClaimKeys,
                      payload : Payload, ref : {NoRef} \cup Refs]
         /\ call.actor \in Actors /\ call.key \in ClaimKeys /\ call.payload \in Payload
         /\ call.ref \in {NoRef} \cup Refs
         /\ call.payload.invoice \in Invoices /\ call.payload.amount \in Amounts
         /\ call.payload.evidence \in Evidence
<1>1. call \in [at : {"sending", "readback"}, actor : Actors, key : ClaimKeys,
                payload : Payload, ref : {NoRef} \cup Refs]
  BY DEF PaymentTypeOK, Calls, Idle
<1>2. \A p \in Payload : p.invoice \in Invoices /\ p.amount \in Amounts /\ p.evidence \in Evidence
  BY DEF Payload
<1> QED BY <1>1, <1>2

LEMMA IdleType == Idle \in Calls /\ Idle.at = "idle"
BY DEF Idle, Calls

(* A call that ends changes its own pending claim and no other.            *)
LEMMA SettledClaims ==
  ASSUME PaymentTypeOK, UniqueClaims, CallInv, call.at # "idle", NEW o \in Outcomes,
         NEW ref \in {NoRef} \cup Refs, Settle(o, ref)
  PROVE  /\ claims' \in Seq(ClaimState) /\ DOMAIN claims' = DOMAIN claims
         /\ UniqueClaims' /\ CallInv' /\ call' \in Calls
         /\ \E i \in DOMAIN claims :
              /\ claims[i].outcome = "PENDING"
              /\ claims'[i].outcome = o /\ claims'[i].ref = ref
              /\ \A j \in DOMAIN claims : j # i => claims'[j] = claims[j]
<1> DEFINE c == [actor |-> call.actor, key |-> call.key, payload |-> call.payload,
                 outcome |-> o, ref |-> ref]
<1>1. c \in ClaimState
  BY CallFields DEF ClaimState
<1>2. PutClaim(c) /\ call' = Idle
  BY DEF Settle
<1>3. c.actor = call.actor /\ c.key = call.key /\ c.outcome = o /\ c.ref = ref
  OBVIOUS
<1> HIDE DEF c
<1>4. PICK i \in DOMAIN claims :
        claims[i].actor = c.actor /\ claims[i].key = c.key /\ claims[i].outcome = "PENDING"
  BY <1>3 DEF CallInv
<1>5. /\ claims' \in Seq(ClaimState) /\ DOMAIN claims' = DOMAIN claims
      /\ claims'[i] = c
      /\ \A j \in DOMAIN claims : j # i => claims'[j] = claims[j]
  BY <1>1, <1>2, <1>4, PutKnownClaim DEF PaymentTypeOK
<1>6. UniqueClaims'
  BY <1>4, <1>5 DEF UniqueClaims
<1>7. CallInv' /\ call' \in Calls
  BY <1>2, IdleType DEF CallInv
<1> QED BY <1>3, <1>4, <1>5, <1>6, <1>7

LEMMA InitInv ==
  ASSUME Init
  PROVE  PaymentInv
<1> USE DEF Init
<1>1. PaymentTypeOK
  BY PaymentAssumption, IdleType DEF PaymentTypeOK
<1>2. ViewInv
  BY IdleType DEF ViewInv, UniqueClaims, CallInv, UnpaidNamesNone, LocalViewIsTrue
<1>3. Conserved
  <2> SUFFICES ASSUME NEW i \in Invoices PROVE open[i] + SumOf(payments, Live(i)) = Total[i]
    BY DEF Conserved
  <2>1. Live(i) = {}
    BY DEF Live
  <2>2. SumOf(payments, {}) = 0
    BY SumUnfold, FS_EmptySet
  <2> QED BY <2>1, <2>2, PaymentAssumption
<1> QED BY <1>1, <1>2, <1>3 DEF PaymentInv

LEMMA RecordStep ==
  ASSUME PaymentInv, NEW a \in Actors, NEW p \in Payload,
         NEW k \in Keys \cup {p.evidence}, RecordPayment(a, k, p)
  PROVE  PaymentInv'
<1> DEFINE c == [actor |-> a, key |-> k, payload |-> p, outcome |-> "PENDING", ref |-> NoRef]
           d == [at |-> "sending", actor |-> a, key |-> k, payload |-> p, ref |-> NoRef]
<1>0. PaymentTypeOK /\ UniqueClaims /\ UnpaidNamesNone /\ LocalViewIsTrue /\ Conserved
  BY DEF PaymentInv, ViewInv
<1>1. /\ PutClaim(c) /\ call' = d /\ p.evidence \notin pending
      /\ UNCHANGED <<byEvidence, pending, reversed, payments, open, status>>
  BY DEF RecordPayment, SubmitPayment, providerVars
<1>2. p.evidence \in Evidence /\ k \in ClaimKeys
  BY DEF Payload, ClaimKeys
<1>a. byEvidence[p.evidence] = NoRef
  BY <1>0 DEF RecordPayment, SubmitPayment, ClaimAllows, EvidenceFree, Claim, UnpaidNamesNone
<1>3. c \in ClaimState /\ d \in Calls
  BY <1>2 DEF ClaimState, Calls, Outcomes
<1>4. /\ c.actor = a /\ c.key = k /\ c.payload = p /\ c.outcome = "PENDING" /\ c.ref = NoRef
      /\ d.at = "sending" /\ d.actor = a /\ d.key = k /\ d.payload = p
  OBVIOUS
<1> HIDE DEF c, d
<1>5. /\ claims' \in Seq(ClaimState) /\ UniqueClaims' /\ DOMAIN claims \subseteq DOMAIN claims'
      /\ \E i \in DOMAIN claims' :
           /\ claims'[i] = c
           /\ \A j \in DOMAIN claims' : j # i => j \in DOMAIN claims /\ claims'[j] = claims[j]
  <2>1. CASE Claim(a, k) = {}
    <3> DEFINE n == Len(claims) + 1
    <3>1. /\ claims' \in Seq(ClaimState) /\ DOMAIN claims' = DOMAIN claims \cup {n}
          /\ n \notin DOMAIN claims /\ claims'[n] = c
          /\ \A j \in DOMAIN claims : claims'[j] = claims[j]
      BY <1>0, <1>1, <1>3, <1>4, <2>1, PutNewClaim DEF PaymentTypeOK
    <3> HIDE DEF n
    <3>2. \A j \in DOMAIN claims : ~(claims[j].actor = a /\ claims[j].key = k)
      BY <2>1 DEF Claim
    <3>3. UniqueClaims'
      BY <1>0, <1>4, <3>1, <3>2 DEF UniqueClaims
    <3> QED BY <3>1, <3>3
  <2>2. CASE Claim(a, k) # {}
    <3>1. PICK i \in DOMAIN claims : claims[i].actor = a /\ claims[i].key = k
      BY <2>2 DEF Claim
    <3>2. /\ claims' \in Seq(ClaimState) /\ DOMAIN claims' = DOMAIN claims
          /\ claims'[i] = c
          /\ \A j \in DOMAIN claims : j # i => claims'[j] = claims[j]
      BY <1>0, <1>1, <1>3, <1>4, <3>1, PutKnownClaim DEF PaymentTypeOK
    <3>3. UniqueClaims'
      BY <1>0, <1>4, <3>1, <3>2 DEF UniqueClaims
    <3> QED BY <3>2, <3>3
  <2> QED BY <2>1, <2>2
<1>6. PaymentTypeOK'
  BY <1>0, <1>1, <1>3, <1>5 DEF PaymentTypeOK
<1>7. CallInv'
  BY <1>1, <1>a, <1>4, <1>5 DEF CallInv
<1>8. UnpaidNamesNone'
  BY <1>0, <1>4, <1>5 DEF UnpaidNamesNone
<1>9. ClaimsTrue'
  BY <1>0, <1>1, <1>4, <1>5 DEF ClaimsTrue, LocalViewIsTrue
<1>10. LocalViewIsTrue'
  BY <1>0, <1>1, <1>9, KeptSame, ViewKept, ViewParts
<1>11. Conserved'
  BY <1>0, <1>1, ConservedSame DEF providerVars
<1> QED BY <1>5, <1>6, <1>7, <1>8, <1>10, <1>11 DEF PaymentInv, ViewInv

(* The provider applies a payment it accepts.                              *)
LEMMA AcceptedStep ==
  ASSUME PaymentTypeOK, Conserved, NEW p \in Payload,
         Acceptable(p), ApplyPayment(p)
  PROVE  /\ payments' \in Seq(Entry) /\ Len(payments') <= MaxPayments
         /\ open' \in [Invoices -> Nat] /\ status' = status
         /\ Kept /\ Conserved'
         /\ Len(payments) + 1 \in Refs
         /\ DOMAIN payments' = DOMAIN payments \cup {Len(payments) + 1}
         /\ payments'[Len(payments) + 1].evidence = p.evidence
<1>0. p.amount <= open[p.invoice]
  BY DEF Acceptable
<1> DEFINE n == Len(payments) + 1
           e == [invoice |-> p.invoice, amount |-> p.amount, evidence |-> p.evidence,
                 reversed |-> FALSE]
<1>1. /\ payments' \in Seq(Entry) /\ Len(payments') <= MaxPayments
      /\ n \in Refs /\ n \notin DOMAIN payments
      /\ DOMAIN payments' = DOMAIN payments \cup {n}
      /\ \A r \in DOMAIN payments : payments'[r] = payments[r]
      /\ payments'[n] = e
      /\ open' \in [Invoices -> Nat]
  BY <1>0, Applied
<1>2. e.evidence = p.evidence
  OBVIOUS
<1> HIDE DEF n, e
<1>3. Kept
  BY <1>1 DEF Kept
<1>4. Conserved' /\ status' = status
  BY ConservedApply DEF ApplyPayment
<1> QED BY <1>1, <1>2, <1>3, <1>4 DEF n

(* The end of a call, whatever the provider has done in the same step.     *)
LEMMA SettledStep ==
  ASSUME PaymentInv, call.at # "idle", NEW o \in Outcomes,
         NEW ref \in {NoRef} \cup Refs, Settle(o, ref), Kept,
         o = "RECORDED" => ref \in DOMAIN payments', o = "REJECTED" => ref = NoRef,
         o # "PENDING"
  PROVE  /\ claims' \in Seq(ClaimState) /\ UniqueClaims' /\ CallInv' /\ call' \in Calls
         /\ ClaimsTrue' /\ UnpaidNamesNone'
<1>0. PaymentTypeOK /\ UniqueClaims /\ CallInv /\ UnpaidNamesNone /\ LocalViewIsTrue
  BY DEF PaymentInv, ViewInv
<1>1. /\ claims' \in Seq(ClaimState) /\ DOMAIN claims' = DOMAIN claims
      /\ UniqueClaims' /\ CallInv' /\ call' \in Calls
  BY <1>0, SettledClaims
<1>2. PICK i \in DOMAIN claims :
        /\ claims'[i].outcome = o /\ claims'[i].ref = ref
        /\ \A j \in DOMAIN claims : j # i => claims'[j] = claims[j]
  BY <1>0, SettledClaims
<1>3. ClaimsTrue'
  BY <1>0, <1>1, <1>2, ViewKept DEF ClaimsTrue
<1>4. UnpaidNamesNone'
  BY <1>0, <1>1, <1>2 DEF UnpaidNamesNone
<1> QED BY <1>1, <1>3, <1>4

LEMMA AcceptStep ==
  ASSUME PaymentInv, ProviderAccepts
  PROVE  PaymentInv'
<1> DEFINE p == call.payload
           n == Len(payments) + 1
           d == [call EXCEPT !.at = "readback", !.ref = n]
<1>0. PaymentTypeOK /\ UniqueClaims /\ CallInv /\ UnpaidNamesNone /\ LocalViewIsTrue /\ Conserved
  BY DEF PaymentInv, ViewInv
<1>1. /\ call.at = "sending" /\ Acceptable(p) /\ ApplyPayment(p) /\ call' = d
      /\ UNCHANGED <<claims, byEvidence, pending, reversed>>
  BY DEF ProviderAccepts, workflowVars
<1>2. p \in Payload
  BY <1>0, <1>1, CallFields
<1>3. /\ payments' \in Seq(Entry) /\ Len(payments') <= MaxPayments
      /\ open' \in [Invoices -> Nat] /\ status' = status
      /\ Kept /\ Conserved'
      /\ n \in Refs /\ n \in DOMAIN payments' /\ payments'[n].evidence = p.evidence
  BY <1>0, <1>1, <1>2, AcceptedStep
<1> DEFINE InCall == [at : {"sending", "readback"}, actor : Actors, key : ClaimKeys,
                      payload : Payload, ref : {NoRef} \cup Refs]
<1> HIDE DEF n
<1>4. \A x \in InCall : LET y == [x EXCEPT !.at = "readback", !.ref = n] IN
        /\ y \in InCall /\ y.at = "readback" /\ y.ref = n /\ y.actor = x.actor
        /\ y.key = x.key /\ y.payload = x.payload
  BY <1>3
<1>5. call \in InCall
  BY <1>0, <1>1, CallFields
<1>6. /\ d \in InCall /\ d.at = "readback" /\ d.ref = n /\ d.actor = call.actor
      /\ d.key = call.key /\ d.payload = p
  BY <1>4, <1>5
<1>7. d \in Calls
  BY <1>6 DEF Calls
<1> HIDE DEF d, InCall
<1>8. PaymentTypeOK'
  BY <1>0, <1>1, <1>3, <1>7 DEF PaymentTypeOK
<1>9. CallInv'
  BY <1>0, <1>1, <1>3, <1>6 DEF CallInv
<1>10. UniqueClaims' /\ UnpaidNamesNone'
  BY <1>0, <1>1 DEF UniqueClaims, UnpaidNamesNone
<1>11. LocalViewIsTrue'
  BY <1>0, <1>1, <1>3, ViewKept, ViewParts
<1> QED BY <1>3, <1>8, <1>9, <1>10, <1>11 DEF PaymentInv, ViewInv

LEMMA UncertainStep ==
  ASSUME PaymentInv, NEW applied \in BOOLEAN, ProviderUncertain(applied)
  PROVE  PaymentInv'
<1>0. PaymentTypeOK /\ LocalViewIsTrue /\ Conserved
  BY DEF PaymentInv, ViewInv
<1>1. /\ call.at = "sending" /\ Settle("UNCERTAIN", NoRef)
      /\ pending' = pending \cup {call.payload.evidence} /\ UNCHANGED <<byEvidence, reversed>>
  BY DEF ProviderUncertain
<1>2. call.payload \in Payload /\ call.payload.evidence \in Evidence
  BY <1>0, <1>1, CallFields
<1>3. /\ payments' \in Seq(Entry) /\ Len(payments') <= MaxPayments
      /\ open' \in [Invoices -> Nat] /\ status' = status
      /\ Kept /\ Conserved'
  <2>1. CASE applied
    <3>1. Acceptable(call.payload) /\ ApplyPayment(call.payload)
      BY <2>1 DEF ProviderUncertain
    <3> QED BY <1>0, <1>2, <3>1, AcceptedStep
  <2>2. CASE ~applied
    <3>1. UNCHANGED providerVars
      BY <2>2 DEF ProviderUncertain
    <3>2. payments' = payments /\ open' = open /\ status' = status
      BY <3>1 DEF providerVars
    <3> QED BY <1>0, <3>1, <3>2, KeptSame, ConservedSame DEF PaymentTypeOK
  <2> QED BY <2>1, <2>2
<1>4. "UNCERTAIN" \in Outcomes /\ NoRef \in {NoRef} \cup Refs
  BY DEF Outcomes
<1>5. /\ claims' \in Seq(ClaimState) /\ UniqueClaims' /\ CallInv' /\ call' \in Calls
      /\ ClaimsTrue' /\ UnpaidNamesNone'
  BY <1>1, <1>3, <1>4, SettledStep
<1>6. PaymentTypeOK'
  BY <1>0, <1>1, <1>2, <1>3, <1>5 DEF PaymentTypeOK
<1>7. LocalViewIsTrue'
  BY <1>0, <1>1, <1>3, <1>5, ViewKept, ViewParts
<1> QED BY <1>3, <1>5, <1>6, <1>7 DEF PaymentInv, ViewInv

(* A call that ends without a change at the provider.                      *)
LEMMA QuietStep ==
  ASSUME PaymentInv, call.at # "idle", NEW o \in Outcomes, NEW ref \in {NoRef} \cup Refs,
         Settle(o, ref), o = "RECORDED" => ref \in DOMAIN payments,
         o = "REJECTED" => ref = NoRef, o # "PENDING",
         pending' \subseteq Evidence, byEvidence' \in [Evidence -> {NoRef} \cup Refs],
         IndexTrue', reversed' = reversed, UNCHANGED providerVars
  PROVE  PaymentInv'
<1>0. PaymentTypeOK /\ LocalViewIsTrue /\ Conserved
  BY DEF PaymentInv, ViewInv
<1>1. payments' = payments /\ open' = open /\ status' = status /\ Kept
  BY KeptSame DEF providerVars
<1>2. /\ claims' \in Seq(ClaimState) /\ UniqueClaims' /\ CallInv' /\ call' \in Calls
      /\ ClaimsTrue' /\ UnpaidNamesNone'
  BY <1>1, SettledStep
<1>3. PaymentTypeOK'
  BY <1>0, <1>1, <1>2 DEF PaymentTypeOK
<1>4. LocalViewIsTrue'
  BY <1>0, <1>1, <1>2, ViewKept, ViewParts
<1>5. Conserved'
  BY <1>0, ConservedSame
<1> QED BY <1>2, <1>3, <1>4, <1>5 DEF PaymentInv, ViewInv

LEMMA RejectStep ==
  ASSUME PaymentInv, ProviderRejects
  PROVE  PaymentInv'
<1>0. PaymentTypeOK /\ LocalViewIsTrue
  BY DEF PaymentInv, ViewInv
<1>1. /\ call.at = "sending" /\ Settle("REJECTED", NoRef)
      /\ UNCHANGED <<byEvidence, pending, reversed>> /\ UNCHANGED providerVars
  BY DEF ProviderRejects, providerVars
<1>2. IndexTrue'
  BY <1>0, <1>1, KeptSame, ViewKept DEF providerVars
<1>3. "REJECTED" \in Outcomes /\ "REJECTED" # "RECORDED" /\ NoRef \in {NoRef} \cup Refs
  BY DEF Outcomes
<1>4. pending' \subseteq Evidence /\ byEvidence' \in [Evidence -> {NoRef} \cup Refs]
  BY <1>0, <1>1 DEF PaymentTypeOK
<1> QED BY <1>1, <1>2, <1>3, <1>4, QuietStep

LEMMA ReadBackStep ==
  ASSUME PaymentInv, ReadBack
  PROVE  PaymentInv'
<1>0. PaymentTypeOK /\ CallInv /\ LocalViewIsTrue
  BY DEF PaymentInv, ViewInv
<1>1. /\ call.at = "readback" /\ Settle("RECORDED", call.ref)
      /\ byEvidence' = [byEvidence EXCEPT ![call.payload.evidence] = call.ref]
      /\ pending' = pending /\ reversed' = reversed /\ payments' = payments
      /\ UNCHANGED providerVars
  BY DEF ReadBack, providerVars
<1>2. /\ call.ref \in {NoRef} \cup Refs /\ call.payload.evidence \in Evidence
      /\ call.ref \in DOMAIN payments
      /\ payments[call.ref].evidence = call.payload.evidence
  BY <1>0, <1>1, CallFields DEF CallInv
<1>3. pending' \subseteq Evidence /\ byEvidence' \in [Evidence -> {NoRef} \cup Refs]
  BY <1>0, <1>1, <1>2 DEF PaymentTypeOK
<1>4. IndexTrue'
  BY <1>0, <1>1, <1>2, IndexedStep
<1>5. "RECORDED" \in Outcomes
  BY DEF Outcomes
<1> QED BY <1>1, <1>2, <1>3, <1>4, <1>5, QuietStep

LEMMA ReadBackFailsStep ==
  ASSUME PaymentInv, ReadBackFails
  PROVE  PaymentInv'
<1>0. PaymentTypeOK /\ LocalViewIsTrue
  BY DEF PaymentInv, ViewInv
<1>1. /\ call.at = "readback" /\ Settle("UNCERTAIN", call.ref)
      /\ pending' = pending \cup {call.payload.evidence}
      /\ UNCHANGED <<byEvidence, reversed>> /\ UNCHANGED providerVars
  BY DEF ReadBackFails, providerVars
<1>2. call.ref \in {NoRef} \cup Refs /\ call.payload.evidence \in Evidence
  BY <1>0, <1>1, CallFields
<1>3. pending' \subseteq Evidence /\ byEvidence' \in [Evidence -> {NoRef} \cup Refs]
  BY <1>0, <1>1, <1>2 DEF PaymentTypeOK
<1>4. IndexTrue'
  BY <1>0, <1>1, KeptSame, ViewKept DEF providerVars
<1>5. "UNCERTAIN" \in Outcomes /\ "UNCERTAIN" # "RECORDED"
  BY DEF Outcomes
<1> QED BY <1>1, <1>2, <1>3, <1>4, <1>5, QuietStep

(* A reconciliation finds the lock free and gives some uncertain claims    *)
(* its answer.                                                             *)
LEMMA ResolvedStep ==
  ASSUME PaymentInv, call.at = "idle", call' = call, NEW is, NEW o \in Outcomes,
         NEW ref \in {NoRef} \cup Refs, Resolve(is, o, ref),
         o = "RECORDED" => ref \in DOMAIN payments, o = "REJECTED" => ref = NoRef,
         o # "PENDING",
         pending' \subseteq Evidence, byEvidence' \in [Evidence -> {NoRef} \cup Refs],
         IndexTrue', reversed' = reversed, UNCHANGED providerVars
  PROVE  PaymentInv'
<1>0. PaymentTypeOK /\ UniqueClaims /\ UnpaidNamesNone /\ LocalViewIsTrue /\ Conserved
  BY DEF PaymentInv, ViewInv
<1>1. payments' = payments /\ open' = open /\ status' = status /\ Kept
  BY KeptSame DEF providerVars
<1>2. /\ claims' \in Seq(ClaimState) /\ DOMAIN claims' = DOMAIN claims
      /\ \A i \in DOMAIN claims :
           /\ claims'[i].actor = claims[i].actor /\ claims'[i].key = claims[i].key
           /\ claims'[i].payload = claims[i].payload
           /\ i \in is => claims'[i].outcome = o /\ claims'[i].ref = ref
           /\ i \notin is => claims'[i] = claims[i]
  <2>1. claims \in Seq(ClaimState)
    BY <1>0 DEF PaymentTypeOK
  <2> QED BY <2>1, ResolvedClaims
<1>3. UniqueClaims'
  BY <1>0, <1>2 DEF UniqueClaims
<1>4. CallInv'
  BY DEF CallInv
<1>5. ClaimsTrue'
  BY <1>0, <1>1, <1>2 DEF ClaimsTrue, LocalViewIsTrue
<1>6. PaymentTypeOK'
  BY <1>0, <1>1, <1>2 DEF PaymentTypeOK
<1>7. UnpaidNamesNone'
  BY <1>0, <1>2 DEF UnpaidNamesNone
<1>8. LocalViewIsTrue'
  BY <1>0, <1>1, <1>5, ViewKept, ViewParts
<1>9. Conserved'
  BY <1>0, ConservedSame
<1> QED BY <1>3, <1>4, <1>6, <1>7, <1>8, <1>9 DEF PaymentInv, ViewInv

LEMMA PresentStep ==
  ASSUME PaymentInv, NEW a \in Actors, NEW e \in Evidence, ReconcilePresent(a, e)
  PROVE  PaymentInv'
<1>0. PaymentTypeOK /\ LocalViewIsTrue
  BY DEF PaymentInv, ViewInv
<1>1. PICK unit \in Units, r \in Found(e) :
        /\ call = Idle /\ call' = call /\ pending' = pending \ {e}
        /\ \/ /\ ResolveClaims(unit, "RECORDED", r, Len(claims))
              /\ byEvidence' = [byEvidence EXCEPT ![e] = r]
           \/ /\ \E i \in Uncertain : ResolveClaims(unit, "RECORDED", r, i - 1)
              /\ UNCHANGED byEvidence
        /\ reversed' = reversed /\ payments' = payments /\ UNCHANGED providerVars
  BY DEF ReconcilePresent, MayReconcile, providerVars
<1>2. r \in DOMAIN payments /\ payments[r].evidence = e
  BY DEF Found
<1>3. r \in Refs
  <2>1. DOMAIN payments = 1..Len(payments) /\ Len(payments) \in Nat /\ Len(payments) <= MaxPayments
    BY <1>0 DEF PaymentTypeOK
  <2> QED BY <1>2, <2>1, PaymentAssumption DEF Refs
<1>4. pending' \subseteq Evidence /\ byEvidence' \in [Evidence -> {NoRef} \cup Refs]
  BY <1>0, <1>1, <1>3 DEF PaymentTypeOK
<1>5. IndexTrue'
  <2>1. CASE byEvidence' = byEvidence
    BY <1>0, <1>1, <2>1, KeptSame, ViewKept
  <2>2. CASE byEvidence' = [byEvidence EXCEPT ![e] = r]
    BY <1>0, <1>1, <1>2, <2>2, IndexedStep
  <2> QED BY <1>1, <2>1, <2>2
<1>6. PICK is : Resolve(is, "RECORDED", r)
  BY <1>1 DEF ResolveClaims
<1>7. "RECORDED" \in Outcomes /\ call.at = "idle"
  BY <1>1, IdleType DEF Outcomes
<1> QED BY <1>1, <1>2, <1>3, <1>4, <1>5, <1>6, <1>7, ResolvedStep

LEMMA AbsentStep ==
  ASSUME PaymentInv, NEW a \in Actors, NEW e \in Evidence, ReconcileAbsent(a, e)
  PROVE  PaymentInv'
<1>0. PaymentTypeOK /\ LocalViewIsTrue
  BY DEF PaymentInv, ViewInv
<1>1. PICK unit \in Units :
        /\ call = Idle /\ call' = call /\ pending' = pending \ {e}
        /\ \/ ResolveClaims(unit, "REJECTED", NoRef, Len(claims))
           \/ \E i \in Uncertain : ResolveClaims(unit, "REJECTED", NoRef, i - 1)
        /\ byEvidence' = byEvidence /\ reversed' = reversed /\ payments' = payments
        /\ UNCHANGED providerVars
  BY DEF ReconcileAbsent, MayReconcile, providerVars
<1>2. pending' \subseteq Evidence /\ byEvidence' \in [Evidence -> {NoRef} \cup Refs]
  BY <1>0, <1>1 DEF PaymentTypeOK
<1>3. IndexTrue'
  BY <1>0, <1>1, KeptSame, ViewKept
<1>4. PICK is : Resolve(is, "REJECTED", NoRef)
  BY <1>1 DEF ResolveClaims
<1>5. "REJECTED" \in Outcomes /\ "REJECTED" # "RECORDED" /\ NoRef \in {NoRef} \cup Refs
      /\ call.at = "idle"
  BY <1>1, IdleType DEF Outcomes
<1> QED BY <1>1, <1>2, <1>3, <1>4, <1>5, ResolvedStep

(* The provider reverses a payment, whether or not the workflow hears it.  *)
LEMMA ReverseStep ==
  ASSUME PaymentInv, NEW a \in Actors, NEW r \in Refs,
         ReversePayment(a, r) \/ ReversalAnswerLost(a, r)
  PROVE  PaymentInv'
<1>0. PaymentTypeOK /\ UniqueClaims /\ UnpaidNamesNone /\ LocalViewIsTrue /\ Conserved
  BY DEF PaymentInv, ViewInv
<1>1. /\ call = Idle /\ r \in DOMAIN payments /\ ProviderReverses(r)
      /\ claims' = claims /\ byEvidence' = byEvidence /\ pending' = pending
      /\ call' = call /\ (reversed' = reversed \cup {r} \/ reversed' = reversed)
  BY DEF ReversePayment, ReversalAnswerLost, MayReverse, workflowVars
<1>2. UndoPayment(r) /\ status' = status
  BY <1>1 DEF ProviderReverses, UndoPayment
<1>3. /\ payments' \in Seq(Entry) /\ Len(payments') <= MaxPayments
      /\ DOMAIN payments' = DOMAIN payments
      /\ payments'[r].reversed
      /\ \A s \in DOMAIN payments :
           /\ s # r => payments'[s] = payments[s]
           /\ payments'[s].evidence = payments[s].evidence
      /\ open' \in [Invoices -> Nat]
  BY <1>0, <1>1, <1>2, Undone
<1>4. Kept
  BY <1>3 DEF Kept
<1>5. PaymentTypeOK'
  BY <1>0, <1>1, <1>2, <1>3 DEF PaymentTypeOK
<1>6. UniqueClaims' /\ CallInv'
  BY <1>0, <1>1, IdleType DEF UniqueClaims, CallInv
<1>7. UnpaidNamesNone'
  BY <1>0, <1>1 DEF UnpaidNamesNone
<1>8. ReversalsTrue'
  BY <1>0, <1>1, <1>3, <1>4 DEF Kept, LocalViewIsTrue, ReversalsTrue
<1>9. LocalViewIsTrue'
  BY <1>0, <1>1, <1>4, <1>8, ViewKept, ViewParts
<1>10. Conserved'
  BY <1>0, <1>1, ConservedUndo
<1> QED BY <1>5, <1>6, <1>7, <1>9, <1>10 DEF PaymentInv, ViewInv

LEMMA CancelStep ==
  ASSUME PaymentInv, NEW i \in Invoices, CancelInvoice(i)
  PROVE  PaymentInv'
<1>0. PaymentTypeOK /\ ViewInv /\ Conserved
  BY DEF PaymentInv
<1>1. /\ UNCHANGED <<claims, byEvidence, pending, reversed, call, payments>>
      /\ status' = [status EXCEPT ![i] = "CANCELLED"] /\ open' = [open EXCEPT ![i] = 0]
  BY DEF CancelInvoice, VoidInvoice, workflowVars
<1>2. PaymentTypeOK'
  BY <1>0, <1>1 DEF PaymentTypeOK
<1>3. ViewInv'
  BY <1>0, <1>1 DEF ViewInv, UniqueClaims, CallInv, UnpaidNamesNone, LocalViewIsTrue
<1>4. Conserved'
  BY <1>0, ConservedVoid DEF PaymentTypeOK
<1> QED BY <1>2, <1>3, <1>4 DEF PaymentInv

LEMMA StutterStep ==
  ASSUME PaymentInv, UNCHANGED vars
  PROVE  PaymentInv'
<1>1. PaymentTypeOK'
  BY DEF PaymentInv, vars, PaymentTypeOK
<1>2. ViewInv'
  BY DEF PaymentInv, vars, ViewInv, UniqueClaims, CallInv, UnpaidNamesNone, LocalViewIsTrue
<1>3. Conserved'
  BY ConservedSame DEF PaymentInv, vars, providerVars
<1> QED BY <1>1, <1>2, <1>3 DEF PaymentInv

LEMMA NextInv ==
  ASSUME PaymentInv, [Next]_vars
  PROVE  PaymentInv'
<1>1. CASE \E a \in Actors, p \in Payload :
             \E k \in Keys \cup {p.evidence} : RecordPayment(a, k, p)
  BY <1>1, RecordStep
<1>2. CASE ProviderAccepts
  BY <1>2, AcceptStep
<1>3. CASE \E applied \in BOOLEAN : ProviderUncertain(applied)
  BY <1>3, UncertainStep
<1>4. CASE ProviderRejects
  BY <1>4, RejectStep
<1>5. CASE ReadBack
  BY <1>5, ReadBackStep
<1>6. CASE ReadBackFails
  BY <1>6, ReadBackFailsStep
<1>7. CASE \E a \in Actors, e \in Evidence : ReconcilePresent(a, e) \/ ReconcileAbsent(a, e)
  BY <1>7, PresentStep, AbsentStep
<1>8. CASE \E a \in Actors, r \in Refs : ReversePayment(a, r) \/ ReversalAnswerLost(a, r)
  BY <1>8, ReverseStep
<1>9. CASE \E i \in Invoices : CancelInvoice(i)
  BY <1>9, CancelStep
<1>10. CASE UNCHANGED vars
  BY <1>10, StutterStep
<1> QED BY <1>1, <1>2, <1>3, <1>4, <1>5, <1>6, <1>7, <1>8, <1>9, <1>10 DEF Next

-----------------------------------------------------------------------------
(* The theorems                                                            *)

(* The invariant holds in every reachable state of the payment workflow.   *)
THEOREM PaymentInvariance == Spec => []PaymentInv
<1>1. Init => PaymentInv
  BY InitInv
<1>2. PaymentInv /\ [Next]_vars => PaymentInv'
  BY NextInv
<1> QED BY <1>1, <1>2, PTL DEF Spec

(* The provider's books are well typed, and on every invoice the open      *)
(* amount and the payments that are not reversed add up to the total,      *)
(* whatever payments, lost answers, reversals and cancellations race.      *)
THEOREM BooksBalance == Spec => []BooksInv
<1>1. PaymentInv => BooksInv
  <2> SUFFICES ASSUME PaymentInv PROVE BooksInv
    OBVIOUS
  <2>1. \A i \in Invoices :
          SumOf(payments, Live(i)) = MapThenSumSet(LAMBDA r : payments[r].amount, Live(i))
    BY SumIsSum
  <2>2. ReceivableConserved
    BY <2>1 DEF PaymentInv, Conserved, ReceivableConserved
  <2> QED BY <2>2 DEF PaymentInv, BooksInv
<1> QED BY <1>1, PaymentInvariance, PTL

(* What the workflow tells its callers of payments and reversals exists at *)
(* the provider.                                                           *)
THEOREM ViewIsTrue == Spec => []LocalViewIsTrue
<1>1. PaymentInv => LocalViewIsTrue
  BY DEF PaymentInv, ViewInv
<1> QED BY <1>1, PaymentInvariance, PTL

(* The payments a step makes are made with an evidence reference that      *)
(* awaits no reconciliation and is not known to have paid.                 *)
FreshEvidence ==
  \A r \in DOMAIN payments' \ DOMAIN payments :
    /\ payments'[r].evidence \notin pending
    /\ byEvidence[payments'[r].evidence] = NoRef

(* A payment is made only by the call that holds the lock.                 *)
LEMMA NoBlindRetryStep ==
  ASSUME PaymentInv, [Next]_vars
  PROVE  FreshEvidence
<1>0. PaymentTypeOK /\ CallInv /\ Conserved
  BY DEF PaymentInv, ViewInv
<1>1. ASSUME call.at = "sending", Acceptable(call.payload), ApplyPayment(call.payload)
      PROVE  FreshEvidence
  <2>1. call.payload \in Payload
    BY <1>0, <1>1, CallFields
  <2>2. /\ DOMAIN payments' = DOMAIN payments \cup {Len(payments) + 1}
        /\ payments'[Len(payments) + 1].evidence = call.payload.evidence
    BY <1>0, <1>1, <2>1, AcceptedStep
  <2> QED BY <1>0, <1>1, <2>2 DEF CallInv, FreshEvidence
<1>2. CASE ProviderAccepts
  BY <1>1, <1>2 DEF ProviderAccepts
<1>3. ASSUME NEW applied \in BOOLEAN, ProviderUncertain(applied)
      PROVE  FreshEvidence
  BY <1>1, <1>3 DEF ProviderUncertain, providerVars, FreshEvidence
<1>4. ASSUME NEW r \in Refs, UndoPayment(r), r \in DOMAIN payments
      PROVE  DOMAIN payments' = DOMAIN payments
  BY <1>0, <1>4, Undone
<1>5. CASE \E a \in Actors, r \in Refs : ReversePayment(a, r) \/ ReversalAnswerLost(a, r)
  BY <1>4, <1>5 DEF ReversePayment, ReversalAnswerLost, MayReverse, ProviderReverses,
     FreshEvidence
<1>6. ASSUME payments' = payments
      PROVE  FreshEvidence
  BY <1>6 DEF FreshEvidence
<1>7. CASE \/ \E a \in Actors, p \in Payload :
                \E k \in Keys \cup {p.evidence} : RecordPayment(a, k, p)
           \/ ProviderRejects \/ ReadBack \/ ReadBackFails
           \/ \E a \in Actors, e \in Evidence : ReconcilePresent(a, e) \/ ReconcileAbsent(a, e)
           \/ \E i \in Invoices : CancelInvoice(i)
           \/ UNCHANGED vars
  BY <1>6, <1>7 DEF RecordPayment, SubmitPayment, ProviderRejects, ReadBack, ReadBackFails,
     ReconcilePresent, ReconcileAbsent, CancelInvoice, VoidInvoice, providerVars, vars
<1> QED BY <1>2, <1>3, <1>5, <1>7 DEF Next

(* Nobody pays with an evidence reference that awaits reconciliation or is *)
(* known to have paid.                                                     *)
THEOREM BlindRetryExcluded == Spec => NoBlindRetry
<1>1. PaymentInv /\ [Next]_vars => [FreshEvidence]_vars
  BY NoBlindRetryStep
<1>2. Spec => [][FreshEvidence]_vars
  BY <1>1, PaymentInvariance, PTL DEF Spec
<1> QED BY <1>2 DEF NoBlindRetry, FreshEvidence

(* A step keeps every RECORDED answer.                                     *)
KeepsRecorded ==
  \A i \in DOMAIN claims : claims[i].outcome = "RECORDED" => claims'[i] = claims[i]

(* A reconciliation decides uncertain claims of a unit of its caller.      *)
InScope ==
  \A a \in Actors, e \in Evidence :
    ReconcilePresent(a, e) \/ ReconcileAbsent(a, e) =>
      \E unit \in Units :
        /\ <<a, unit>> \in MayRecord
        /\ \A i \in DOMAIN claims : claims'[i] # claims[i] =>
             i \in Uncertain \cap OfUnit(unit)

(* The claims a reconciliation changes.                                    *)
LEMMA ResolvesOnly ==
  ASSUME NEW unit, NEW o, NEW ref, NEW last, ResolveClaims(unit, o, ref, last)
  PROVE  \A i \in DOMAIN claims : claims'[i] # claims[i] => i \in Uncertain \cap OfUnit(unit)
BY DEF ResolveClaims, Resolve

LEMMA InScopeStep == InScope
<1> SUFFICES ASSUME NEW a \in Actors, NEW e \in Evidence,
                    ReconcilePresent(a, e) \/ ReconcileAbsent(a, e)
             PROVE  \E unit \in Units :
                      /\ <<a, unit>> \in MayRecord
                      /\ \A i \in DOMAIN claims : claims'[i] # claims[i] =>
                           i \in Uncertain \cap OfUnit(unit)
  BY DEF InScope
<1>1. PICK unit \in Units :
        /\ MayReconcile(a, e, unit)
        /\ \E o, ref, last : ResolveClaims(unit, o, ref, last)
  BY DEF ReconcilePresent, ReconcileAbsent
<1> QED BY <1>1, ResolvesOnly DEF MayReconcile

LEMMA KeepsRecordedStep ==
  ASSUME PaymentInv, [Next]_vars
  PROVE  KeepsRecorded
<1>0. PaymentTypeOK /\ UniqueClaims /\ CallInv /\ claims \in Seq(ClaimState)
  BY DEF PaymentInv, ViewInv, PaymentTypeOK
<1>1. ASSUME NEW i \in DOMAIN claims, claims[i].outcome # "RECORDED",
             \A j \in DOMAIN claims : j # i => claims'[j] = claims[j]
      PROVE  KeepsRecorded
  BY <1>1 DEF KeepsRecorded
<1>2. ASSUME NEW a \in Actors, NEW p \in Payload, NEW k \in Keys \cup {p.evidence},
             RecordPayment(a, k, p)
      PROVE  KeepsRecorded
  <2> DEFINE c == [actor |-> a, key |-> k, payload |-> p, outcome |-> "PENDING", ref |-> NoRef]
  <2>1. PutClaim(c) /\ ClaimAllows(a, k, p)
    BY <1>2 DEF RecordPayment, SubmitPayment
  <2>2. c \in ClaimState
    <3>1. k \in ClaimKeys
      BY DEF ClaimKeys, Payload
    <3> QED BY <3>1 DEF ClaimState, Outcomes
  <2>3. c.actor = a /\ c.key = k
    OBVIOUS
  <2> HIDE DEF c
  <2>4. CASE Claim(a, k) = {}
    <3>1. \A j \in DOMAIN claims : claims'[j] = claims[j]
      BY <1>0, <2>1, <2>2, <2>3, <2>4, PutNewClaim
    <3> QED BY <3>1 DEF KeepsRecorded
  <2>5. CASE Claim(a, k) # {}
    <3>1. PICK i \in DOMAIN claims :
            claims[i].actor = a /\ claims[i].key = k /\ claims[i].outcome # "RECORDED"
      BY <2>1, <2>5 DEF Claim, ClaimAllows
    <3>2. \A j \in DOMAIN claims : j # i => claims'[j] = claims[j]
      BY <1>0, <2>1, <2>2, <2>3, <3>1, PutKnownClaim
    <3> QED BY <1>1, <3>1, <3>2
  <2> QED BY <2>4, <2>5
<1>3. ASSUME call.at # "idle", NEW o \in Outcomes, NEW ref \in {NoRef} \cup Refs, Settle(o, ref)
      PROVE  KeepsRecorded
  <2>1. PICK i \in DOMAIN claims :
          /\ claims[i].outcome = "PENDING"
          /\ \A j \in DOMAIN claims : j # i => claims'[j] = claims[j]
    BY <1>0, <1>3, SettledClaims
  <2> QED BY <1>1, <2>1
<1>4. {"UNCERTAIN", "REJECTED", "RECORDED"} \subseteq Outcomes /\ NoRef \in {NoRef} \cup Refs
      /\ (call.at # "idle" => call.ref \in {NoRef} \cup Refs)
  BY <1>0, CallFields DEF Outcomes
<1>5. CASE (\E applied \in BOOLEAN : ProviderUncertain(applied)) \/ ProviderRejects
           \/ ReadBack \/ ReadBackFails
  <2>1. CASE (\E applied \in BOOLEAN : ProviderUncertain(applied))
    BY <1>3, <1>4, <2>1 DEF ProviderUncertain
  <2>2. CASE ProviderRejects
    BY <1>3, <1>4, <2>2 DEF ProviderRejects
  <2>3. CASE ReadBack
    BY <1>3, <1>4, <2>3 DEF ReadBack
  <2>4. CASE ReadBackFails
    BY <1>3, <1>4, <2>4 DEF ReadBackFails
  <2> QED BY <1>5, <2>1, <2>2, <2>3, <2>4
<1>6. ASSUME NEW unit, NEW o, NEW ref, NEW last, ResolveClaims(unit, o, ref, last)
      PROVE  KeepsRecorded
  BY <1>6, ResolvesOnly DEF KeepsRecorded, Uncertain
<1>7. CASE \E a \in Actors, e \in Evidence : ReconcilePresent(a, e) \/ ReconcileAbsent(a, e)
  BY <1>6, <1>7 DEF ReconcilePresent, ReconcileAbsent
<1>8. CASE \/ ProviderAccepts
           \/ \E a \in Actors, r \in Refs : ReversePayment(a, r) \/ ReversalAnswerLost(a, r)
           \/ \E i \in Invoices : CancelInvoice(i)
           \/ UNCHANGED vars
  <2>1. claims' = claims
    BY <1>8 DEF ProviderAccepts, ReversePayment, ReversalAnswerLost, CancelInvoice,
       VoidInvoice, workflowVars, vars
  <2> QED BY <2>1 DEF KeepsRecorded
<1> QED BY <1>2, <1>5, <1>7, <1>8 DEF Next

(* A RECORDED answer is never withdrawn, and a reconciliation decides only *)
(* uncertain claims of one unit of its caller.                             *)
THEOREM ScopeKept == Spec => ReconcileStaysInScope
<1>1. PaymentInv /\ [Next]_vars =>
        [/\ \A i \in DOMAIN claims :
              claims[i].outcome = "RECORDED" => claims'[i] = claims[i]
         /\ \A a \in Actors, e \in Evidence :
              ReconcilePresent(a, e) \/ ReconcileAbsent(a, e) =>
                \E unit \in Units :
                  /\ <<a, unit>> \in MayRecord
                  /\ \A i \in DOMAIN claims : claims'[i] # claims[i] =>
                       i \in Uncertain \cap OfUnit(unit)]_vars
  BY KeepsRecordedStep, InScopeStep DEF KeepsRecorded, InScope
<1> QED BY <1>1, PaymentInvariance, PTL DEF Spec, ReconcileStaysInScope

=============================================================================
