---------------------- MODULE DurableClaimStoreProofs ----------------------
(***************************************************************************)
(* Safety of the durable claim store, for any number of processes, keys    *)
(* and payloads. The invariant relates what each process was told to the   *)
(* row of the key: its payload, and a token no smaller than the one of the *)
(* claim.                                                                  *)
(***************************************************************************)
EXTENDS DurableClaimStore, FiniteSetTheorems, TLAPS

(* A claim under way read the clock in the past, under a real lease.       *)
CallInv ==
  \A w \in Workers : call[w].pc = "begin" =>
    lease[w].token > 0 /\ call[w].at <= clock

(* A granted claim has its row, bound to the payload it was granted for,   *)
(* and the token of the row is at least the one of the claim.              *)
GrantInv ==
  \A w \in Workers : \A g \in grants[w] :
    /\ g.lease.token > 0
    /\ rows[g.key].status # "NONE"
    /\ rows[g.key].payload = {g.payload}
    /\ g.lease.token <= rows[g.key].token

ClaimStoreInv ==
  /\ TypeOK /\ IsFiniteSet(Stored)
  /\ CallInv /\ GrantInv

-----------------------------------------------------------------------------

(* Renewing the lease of a row changes nothing else of it.                 *)
LEMMA RowToken ==
  ASSUME NEW r \in Row, NEW t \in Tokens
  PROVE  [r EXCEPT !.token = t] =
           [status |-> r.status, payload |-> r.payload, token |-> t, expires |-> r.expires]
BY DEF Row

LEMMA RowExpiry ==
  ASSUME NEW r \in Row, NEW e \in Expiry
  PROVE  [r EXCEPT !.expires = e] =
           [status |-> r.status, payload |-> r.payload, token |-> r.token, expires |-> e]
BY DEF Row

LEMMA RowRenewed ==
  ASSUME rows \in [Keys -> Row], NEW k \in Keys, NEW t \in Tokens, NEW e \in Expiry
  PROVE  [rows EXCEPT ![k].token = t, ![k].expires = e] =
           [rows EXCEPT ![k] = [status |-> rows[k].status, payload |-> rows[k].payload,
                                token |-> t, expires |-> e]]
<1> DEFINE r == rows[k]
           q == [status |-> r.status, payload |-> r.payload, token |-> t,
                 expires |-> r.expires]
<1>1. [rows EXCEPT ![k].token = t, ![k].expires = e] =
        [rows EXCEPT ![k] = [[r EXCEPT !.token = t] EXCEPT !.expires = e]]
  OBVIOUS
<1>2. r \in Row
  OBVIOUS
<1>3. [r EXCEPT !.token = t] = q
  BY <1>2, RowToken
<1>4. q \in Row
  BY <1>2 DEF Row
<1>5. [q EXCEPT !.expires = e] =
        [status |-> q.status, payload |-> q.payload, token |-> q.token, expires |-> e]
  <2> HIDE DEF q
  <2> QED BY <1>4, RowExpiry
<1> QED BY <1>1, <1>3, <1>5

(* What a process is told when its claim succeeds.                         *)
Told(w, k, p) ==
  grants' = [grants EXCEPT ![w] = @ \cup {[key |-> k, payload |-> p, lease |-> lease[w]]}]

Refused(w, k, p) == rows' = rows /\ grants' = grants

Inserted(w, k, p) ==
  /\ rows[k].status = "NONE" /\ ~Full
  /\ rows' = [rows EXCEPT ![k] = [status |-> "PENDING", payload |-> {p},
                token |-> lease[w].token, expires |-> lease[w].expires]]
  /\ Told(w, k, p)

TakenOver(w, k, p) ==
  /\ rows[k].status \in NonTerminal /\ rows[k].payload = {p}
  /\ rows[k].token < lease[w].token /\ rows[k].expires <= call[w].at
  /\ rows' = [rows EXCEPT ![k] = [status |-> rows[k].status, payload |-> {p},
                token |-> lease[w].token, expires |-> lease[w].expires]]
  /\ Told(w, k, p)

Confirmed(w, k, p) ==
  /\ rows[k].status \in NonTerminal /\ rows[k].payload = {p}
  /\ rows[k].token = lease[w].token
  /\ rows' = rows
  /\ Told(w, k, p)

(* A transaction refuses, inserts, takes over or confirms.                 *)
LEMMA TransactionCases ==
  ASSUME TypeOK, NEW w \in Workers, NEW k \in Keys, NEW p \in Payloads,
         Transaction(w, k, p)
  PROVE  \/ Refused(w, k, p) \/ Inserted(w, k, p)
         \/ TakenOver(w, k, p) \/ Confirmed(w, k, p)
<1> DEFINE row == rows[k]
           token == lease[w].token
           at == call[w].at
           answer == Answer(row, p, token, at)
           new == [status |-> row.status, payload |-> row.payload,
                   token |-> token, expires |-> lease[w].expires]
<1>1. row \in Row /\ token \in Nat /\ at \in Nat /\ row.token \in Nat /\ row.expires \in Nat
  BY ClaimAssumption DEF TypeOK, Row, Lease, Call, Tokens, Expiry
<1>2. /\ rows' = CASE answer = "INSERT" ->
                    [rows EXCEPT ![k] = [status |-> "PENDING", payload |-> {p},
                       token |-> lease[w].token, expires |-> lease[w].expires]]
               [] answer = "TAKEOVER" ->
                    [rows EXCEPT ![k].token = lease[w].token,
                                 ![k].expires = lease[w].expires]
               [] OTHER -> rows
      /\ answer \in {"INSERT", "TAKEOVER", "CLAIM_HELD"} => Told(w, k, p)
      /\ answer \notin {"INSERT", "TAKEOVER", "CLAIM_HELD"} => grants' = grants
  BY DEF Transaction, Told
<1>3. /\ answer = "INSERT" => row.status = "NONE" /\ ~Full
      /\ answer = "TAKEOVER" => /\ row.status \in NonTerminal /\ row.payload = {p}
                                /\ row.token < token /\ row.expires <= at
      /\ answer = "CLAIM_HELD" => /\ row.status \in NonTerminal /\ row.payload = {p}
                                  /\ row.token = token
  BY <1>1 DEF Answer, Fencing, SamePayload, Row, NonTerminal, Terminal
<1>4. CASE answer = "INSERT"
  BY <1>2, <1>3, <1>4 DEF Inserted
<1>5. CASE answer = "TAKEOVER"
  <2> HIDE DEF answer
  <2>1. rows' = [rows EXCEPT ![k].token = token, ![k].expires = lease[w].expires]
    BY <1>2, <1>5
  <2>2. token \in Tokens /\ lease[w].expires \in Expiry /\ rows \in [Keys -> Row]
    BY DEF TypeOK, Lease
  <2>3. \A t \in Tokens, e \in Expiry :
          [rows EXCEPT ![k].token = t, ![k].expires = e] =
            [rows EXCEPT ![k] = [status |-> rows[k].status, payload |-> rows[k].payload,
                                 token |-> t, expires |-> e]]
    BY <2>2, RowRenewed
  <2>4. rows' = [rows EXCEPT ![k] = new]
    BY <2>1, <2>2, <2>3, Zenon
  <2> QED BY <2>4, <1>2, <1>3, <1>5 DEF TakenOver
<1>6. CASE answer = "CLAIM_HELD"
  BY <1>2, <1>3, <1>6 DEF Confirmed
<1>7. CASE answer \notin {"INSERT", "TAKEOVER", "CLAIM_HELD"}
  BY <1>2, <1>7 DEF Refused
<1> QED BY <1>4, <1>5, <1>6, <1>7

-----------------------------------------------------------------------------

(* The initial state satisfies the invariant.                              *)
LEMMA InitInv == Init => ClaimStoreInv
<1> SUFFICES ASSUME Init PROVE ClaimStoreInv
  OBVIOUS
<1> USE ClaimAssumption DEF Init, NoLease, Idle, NoRow
<1>1. Stored = {}
  BY DEF Stored
<1>2. IsFiniteSet(Stored) /\ Cardinality(Stored) <= Capacity
  BY <1>1, FS_EmptySet
<1>3. TypeOK
  BY <1>2 DEF TypeOK, Lease, Call, Row, Tokens, Expiry
<1>4. CallInv /\ GrantInv
  BY DEF CallInv, GrantInv
<1> QED BY <1>2, <1>3, <1>4 DEF ClaimStoreInv

(* Types of what a lease and a row carry.                                  *)
LEMMA FieldTypes ==
  ASSUME TypeOK
  PROVE  /\ clock \in Nat
         /\ \A w \in Workers : /\ lease[w] \in Lease /\ counter[w] \in Nat
                               /\ call[w] \in Call /\ grants[w] \in SUBSET Grant
                               /\ lease[w].token \in Nat /\ lease[w].expires \in Nat
                               /\ call[w].at \in Nat
         /\ \A k \in Keys : /\ rows[k] \in Row
                            /\ rows[k].token \in Nat /\ rows[k].expires \in Nat
         /\ \A w \in Workers : \A g \in grants[w] :
              g.key \in Keys /\ g.lease \in Lease
         /\ \A l \in Lease : l.token \in Nat /\ l.expires \in Nat
BY ClaimAssumption DEF TypeOK, Lease, Call, Row, Grant, Tokens, Expiry

(* The table grows by one row at most, and only when it is not full.       *)
LEMMA Bounded ==
  ASSUME TypeOK, IsFiniteSet(Stored), NEW k \in Keys,
         Stored' = Stored \/ (Stored' = Stored \cup {k} /\ ~Full)
  PROVE  IsFiniteSet(Stored') /\ Cardinality(Stored') <= Capacity
<1>1. CASE Stored' = Stored
  BY <1>1 DEF TypeOK
<1>2. CASE Stored' = Stored \cup {k} /\ ~Full
  <2>1. /\ IsFiniteSet(Stored \cup {k})
        /\ Cardinality(Stored \cup {k}) = Cardinality(Stored)
             \/ Cardinality(Stored \cup {k}) = Cardinality(Stored) + 1
    BY FS_AddElement
  <2>2. Cardinality(Stored) \in Nat
    BY FS_CardinalityType
  <2> QED BY <1>2, <2>1, <2>2, ClaimAssumption DEF Full
<1> QED BY <1>1, <1>2

(* Types and capacity.                                                     *)
LEMMA TypeNext ==
  ASSUME ClaimStoreInv, [Next]_vars
  PROVE  TypeOK' /\ IsFiniteSet(Stored')
<1> USE ClaimAssumption DEF ClaimStoreInv
<1>0. TypeOK /\ IsFiniteSet(Stored)
  OBVIOUS
<1>a. rows' = rows => IsFiniteSet(Stored') /\ Cardinality(Stored') <= Capacity
  BY <1>0 DEF Stored, TypeOK
<1>1. CASE Tick
  BY <1>0, <1>a, <1>1 DEF Tick, TypeOK
<1>2. ASSUME NEW w \in Workers, NewLease(w) PROVE TypeOK' /\ IsFiniteSet(Stored')
  <2>1. [token |-> counter[w], expires |-> clock + TTL] \in Lease
    BY <1>0, <1>2 DEF NewLease, TypeOK, Lease, Tokens, Expiry
  <2>2. lease' \in [Workers -> Lease]
    BY <1>0, <1>2, <2>1 DEF NewLease, TypeOK
  <2>3. counter' \in [Workers -> 1..(MaxToken + 1)]
    BY <1>0, <1>2 DEF NewLease, TypeOK
  <2> QED BY <1>0, <1>a, <1>2, <2>2, <2>3 DEF NewLease, TypeOK
<1>3. ASSUME NEW w \in Workers, Restart(w) PROVE TypeOK' /\ IsFiniteSet(Stored')
  <2>1. lease' \in [Workers -> Lease] /\ call' \in [Workers -> Call]
    BY <1>0, <1>3 DEF Restart, TypeOK, Lease, Call, NoLease, Idle, Tokens, Expiry
  <2>2. counter' \in [Workers -> 1..(MaxToken + 1)]
    BY <1>0, <1>3 DEF Restart, TypeOK
  <2>3. grants' \in [Workers -> SUBSET Grant]
    BY <1>0, <1>3 DEF Restart, TypeOK
  <2> QED BY <1>0, <1>a, <1>3, <2>1, <2>2, <2>3 DEF Restart, TypeOK
<1>4. ASSUME NEW w \in Workers, NEW k \in Keys, NEW p \in Payloads, BeginClaim(w, k, p)
      PROVE  TypeOK' /\ IsFiniteSet(Stored')
  <2>1. call' \in [Workers -> Call]
    BY <1>0, <1>4 DEF BeginClaim, TypeOK, Call
  <2> QED BY <1>0, <1>a, <1>4, <2>1 DEF BeginClaim, TypeOK
<1>5. ASSUME NEW w \in Workers, NEW k \in Keys, NEW p \in Payloads, Transaction(w, k, p)
      PROVE  TypeOK' /\ IsFiniteSet(Stored')
  <2>1. call' \in [Workers -> Call]
    BY <1>0, <1>5 DEF Transaction, TypeOK, Call, Idle
  <2>2. UNCHANGED <<clock, counter, lease, restarts>>
    BY <1>5 DEF Transaction
  <2>3. [key |-> k, payload |-> p, lease |-> lease[w]] \in Grant
    BY <1>0 DEF TypeOK, Grant
  <2>4. grants' \in [Workers -> SUBSET Grant]
    BY <1>0, <1>5, <2>3, TransactionCases
       DEF TypeOK, Refused, Inserted, TakenOver, Confirmed, Told
  <2>5. rows' \in [Keys -> Row] /\ (Stored' = Stored \/ (Stored' = Stored \cup {k} /\ ~Full))
    <3>1. CASE Refused(w, k, p) \/ Confirmed(w, k, p)
      BY <1>0, <3>1 DEF Refused, Confirmed, TypeOK, Stored
    <3>2. CASE Inserted(w, k, p)
      BY <1>0, <3>2 DEF Inserted, TypeOK, Stored, Row, Lease, NonTerminal
    <3>3. CASE TakenOver(w, k, p)
      BY <1>0, <3>3 DEF TakenOver, TypeOK, Stored, Row, Lease, NonTerminal
    <3> QED BY <1>0, <1>5, <3>1, <3>2, <3>3, TransactionCases
  <2>6. IsFiniteSet(Stored') /\ Cardinality(Stored') <= Capacity
    BY <1>0, <2>5, Bounded
  <2> QED BY <1>0, <2>1, <2>2, <2>4, <2>5, <2>6 DEF TypeOK
<1>6. ASSUME NEW w \in Workers, NEW g \in grants[w], NEW s \in Recorded,
             RecordOutcome(w, g, s)
      PROVE  TypeOK' /\ IsFiniteSet(Stored')
  <2>1. g.key \in Keys
    BY <1>0, FieldTypes
  <2>2. rows' \in [Keys -> Row] /\ Stored' = Stored
    BY <1>0, <1>6, <2>1, RecordedAssumption
       DEF RecordOutcome, TypeOK, Stored, Row, NonTerminal, Terminal
  <2> QED BY <1>0, <1>6, <2>2 DEF RecordOutcome, TypeOK
<1>7. CASE UNCHANGED vars
  BY <1>0, <1>a, <1>7 DEF vars, TypeOK
<1> QED BY <1>1, <1>2, <1>3, <1>4, <1>5, <1>6, <1>7 DEF Next

(* Nobody is told anything but by a transaction, whose row then is bound   *)
(* to the payload; no other step unbinds it.                               *)
LEMMA GrantNext ==
  ASSUME ClaimStoreInv, [Next]_vars
  PROVE  CallInv' /\ GrantInv'
<1>0. TypeOK /\ CallInv /\ GrantInv
  BY DEF ClaimStoreInv
<1> USE <1>0, FieldTypes DEF CallInv, GrantInv
<1>1. CASE Tick
  BY <1>1 DEF Tick
<1>2. ASSUME NEW w \in Workers, NewLease(w) PROVE CallInv' /\ GrantInv'
  <2>1. \A v \in Workers : call[v].pc = "begin" => lease'[v] = lease[v]
    BY <1>2 DEF NewLease, TypeOK
  <2> QED BY <1>2, <2>1 DEF NewLease
<1>3. ASSUME NEW w \in Workers, Restart(w) PROVE CallInv' /\ GrantInv'
  <2>1. \A v \in Workers : /\ call'[v].pc = "begin" => call'[v] = call[v] /\ lease'[v] = lease[v]
                           /\ grants'[v] \subseteq grants[v]
    BY <1>3 DEF Restart, TypeOK, Idle
  <2> QED BY <1>3, <2>1 DEF Restart
<1>4. ASSUME NEW w \in Workers, NEW k \in Keys, NEW p \in Payloads, BeginClaim(w, k, p)
      PROVE  CallInv' /\ GrantInv'
  BY <1>4 DEF BeginClaim, Fresh, TypeOK
<1>5. ASSUME NEW w \in Workers, NEW k \in Keys, NEW p \in Payloads, Transaction(w, k, p)
      PROVE  CallInv' /\ GrantInv'
  <2>1. /\ UNCHANGED <<clock, lease>>
        /\ \A v \in Workers : call'[v].pc = "begin" => call'[v] = call[v]
        /\ call[w].pc = "begin"
    BY <1>5 DEF Transaction, TypeOK, Idle
  <2>2. CallInv'
    BY <2>1
  <2>3. lease[w].token > 0
    BY <2>1
  <2> DEFINE new == [key |-> k, payload |-> p, lease |-> lease[w]]
  <2>4. CASE Refused(w, k, p)
    BY <2>2, <2>4 DEF Refused
  <2>5. ASSUME Told(w, k, p), rows'[k].payload = {p}, rows'[k].status # "NONE",
               \A j \in Keys : j # k => rows'[j] = rows[j],
               rows[k].status # "NONE" => rows[k].payload = {p} /\ rows[k].token <= lease[w].token,
               rows'[k].token = lease[w].token
        PROVE  CallInv' /\ GrantInv'
    <3>1. \A v \in Workers : grants'[v] \subseteq grants[v] \cup {new}
      BY <2>5 DEF Told, TypeOK
    <3>2. ASSUME NEW v \in Workers, NEW g \in grants'[v]
          PROVE  /\ g.lease.token > 0 /\ rows'[g.key].status # "NONE"
                 /\ rows'[g.key].payload = {g.payload}
                 /\ g.lease.token <= rows'[g.key].token
      <4>1. CASE g = new
        BY <2>3, <2>5, <4>1
      <4>2. CASE g \in grants[v]
        BY <2>5, <4>2
      <4> QED BY <3>1, <4>1, <4>2
    <3> QED BY <2>2, <3>2
  <2>6. CASE Inserted(w, k, p)
    BY <2>5, <2>6 DEF Inserted, TypeOK
  <2>7. CASE TakenOver(w, k, p)
    <3>1. /\ rows[k].payload = {p} /\ rows[k].token < lease[w].token
          /\ rows[k].status # "NONE" /\ Told(w, k, p)
          /\ rows' = [rows EXCEPT ![k] = [status |-> rows[k].status, payload |-> {p},
                        token |-> lease[w].token, expires |-> lease[w].expires]]
      BY <2>7 DEF TakenOver, NonTerminal
    <3>2. /\ rows'[k].payload = {p} /\ rows'[k].status # "NONE"
          /\ rows'[k].token = lease[w].token
          /\ \A j \in Keys : j # k => rows'[j] = rows[j]
      BY <3>1 DEF TypeOK
    <3>3. rows[k].token <= lease[w].token
      BY <3>1
    <3> QED BY <2>5, <3>1, <3>2, <3>3
  <2>8. CASE Confirmed(w, k, p)
    <3>1. /\ rows[k].payload = {p} /\ rows[k].token = lease[w].token /\ rows' = rows
          /\ rows[k].status # "NONE" /\ Told(w, k, p)
      BY <2>8 DEF Confirmed, NonTerminal
    <3>2. rows[k].token <= lease[w].token
      BY <3>1
    <3> QED BY <2>5, <3>1, <3>2
  <2> QED BY <1>5, <2>4, <2>6, <2>7, <2>8, TransactionCases
<1>6. ASSUME NEW w \in Workers, NEW g \in grants[w], NEW s \in Recorded,
             RecordOutcome(w, g, s)
      PROVE  CallInv' /\ GrantInv'
  <2>1. \A j \in Keys : /\ rows'[j].payload = rows[j].payload
                        /\ rows'[j].token = rows[j].token
                        /\ rows[j].status # "NONE" => rows'[j].status # "NONE"
    BY <1>6, RecordedAssumption DEF RecordOutcome, TypeOK, Row, NonTerminal, Terminal
  <2> QED BY <1>6, <2>1 DEF RecordOutcome
<1>7. CASE UNCHANGED vars
  BY <1>7 DEF vars
<1> QED BY <1>1, <1>2, <1>3, <1>4, <1>5, <1>6, <1>7 DEF Next

-----------------------------------------------------------------------------

(* Every step keeps the invariant.                                         *)
LEMMA NextInv == ClaimStoreInv /\ [Next]_vars => ClaimStoreInv'
<1> SUFFICES ASSUME ClaimStoreInv, [Next]_vars PROVE ClaimStoreInv'
  OBVIOUS
<1> QED BY TypeNext, GrantNext DEF ClaimStoreInv

(* The invariant holds of the claim store in every reachable state.        *)
THEOREM ClaimStoreInvariance == Spec => []ClaimStoreInv
BY InitInv, NextInv, PTL DEF Spec

(* The table of claims never overflows, and everyone who was told it owns  *)
(* a key was told so for the payload the key is bound to, whatever tokens  *)
(* processes share (DurableMutationStore.claim).                           *)
THEOREM ClaimsSafe == Spec => []ClaimsInv
<1>1. ClaimStoreInv => ClaimsInv
  BY DEF ClaimStoreInv, GrantInv, ClaimsInv, OwnersShareThePayload
<1> QED BY <1>1, ClaimStoreInvariance, PTL

(* A row never disappears, keeps its payload, never accepts an older       *)
(* token, and is final once its outcome is terminal.                       *)
THEOREM FencingMonotone == Spec => FencingNeverRegresses
<1>1. ASSUME ClaimStoreInv, [Next]_vars
      PROVE  [\A k \in Stored :
                /\ rows'[k].payload = rows[k].payload
                /\ rows'[k].token >= rows[k].token
                /\ rows[k].status \in Terminal => rows'[k] = rows[k]]_vars
  <2>0. TypeOK
    BY <1>1 DEF ClaimStoreInv
  <2> SUFFICES ASSUME NEW k \in Stored, Next
               PROVE  /\ rows'[k].payload = rows[k].payload
                      /\ rows'[k].token >= rows[k].token
                      /\ rows[k].status \in Terminal => rows'[k] = rows[k]
    BY <1>1
  <2>a. k \in Keys /\ rows[k].status # "NONE" /\ rows[k].token \in Nat
    BY <2>0, FieldTypes DEF Stored
  <2>1. CASE rows' = rows
    BY <2>a, <2>1
  <2>2. ASSUME NEW w \in Workers, NEW j \in Keys, NEW p \in Payloads, Transaction(w, j, p)
        PROVE  /\ rows'[k].payload = rows[k].payload
               /\ rows'[k].token >= rows[k].token
               /\ rows[k].status \in Terminal => rows'[k] = rows[k]
    <3>1. CASE Refused(w, j, p) \/ Confirmed(w, j, p)
      BY <2>1, <3>1 DEF Refused, Confirmed
    <3>2. CASE Inserted(w, j, p)
      BY <2>0, <2>a, <3>2 DEF Inserted, TypeOK
    <3>3. CASE TakenOver(w, j, p)
      <4>1. /\ rows[j].status \notin Terminal /\ rows[j].payload = {p}
            /\ rows[j].token < lease[w].token
            /\ rows' = [rows EXCEPT ![j] = [status |-> rows[j].status, payload |-> {p},
                          token |-> lease[w].token, expires |-> lease[w].expires]]
        BY <3>3 DEF TakenOver, NonTerminal, Terminal
      <4>2. CASE k = j
        <5>1. rows'[k].payload = {p} /\ rows'[k].token = lease[w].token
          BY <2>0, <2>a, <4>1, <4>2 DEF TypeOK
        <5>2. lease[w].token \in Nat
          BY <2>0, FieldTypes
        <5>3. rows'[k].payload = rows[k].payload /\ rows[k].status \notin Terminal
          BY <4>1, <4>2, <5>1
        <5>4. rows'[k].token >= rows[k].token
          BY <2>a, <4>1, <4>2, <5>1, <5>2
        <5> QED BY <5>3, <5>4
      <4>3. CASE k # j
        BY <2>0, <2>a, <4>1, <4>3 DEF TypeOK
      <4> QED BY <4>2, <4>3
    <3> QED BY <2>0, <2>2, <3>1, <3>2, <3>3, TransactionCases
  <2>3. ASSUME NEW w \in Workers, NEW g \in grants[w], NEW s \in Recorded,
               RecordOutcome(w, g, s)
        PROVE  /\ rows'[k].payload = rows[k].payload
               /\ rows'[k].token >= rows[k].token
               /\ rows[k].status \in Terminal => rows'[k] = rows[k]
    <3>1. rows' = [rows EXCEPT ![g.key].status = s] /\ rows[g.key].status \notin Terminal
      BY <2>3 DEF RecordOutcome, NonTerminal, Terminal
    <3>2. rows'[k].payload = rows[k].payload /\ rows'[k].token = rows[k].token
      BY <2>0, <2>a, <3>1 DEF TypeOK, Row
    <3>3. k # g.key => rows'[k] = rows[k]
      BY <2>0, <2>a, <3>1 DEF TypeOK
    <3> QED BY <2>a, <3>1, <3>2, <3>3
  <2> QED BY <2>1, <2>2, <2>3 DEF Next, Tick, NewLease, Restart, BeginClaim
<1> QED BY <1>1, ClaimStoreInvariance, PTL DEF FencingNeverRegresses, Spec

(* A row changes hands only after the expiry it carries.                   *)
THEOREM NoEarlyTakeover == Spec => TakeoverWaits
<1>1. ASSUME ClaimStoreInv, [Next]_vars
      PROVE  [\A k \in Stored :
                rows'[k].token # rows[k].token => rows[k].expires <= clock]_vars
  <2>0. TypeOK /\ CallInv
    BY <1>1 DEF ClaimStoreInv
  <2> SUFFICES ASSUME Next, NEW k \in Stored, rows'[k].token # rows[k].token
               PROVE  rows[k].expires <= clock
    BY <1>1
  <2>1. k \in Keys /\ rows[k].status # "NONE" /\ rows' # rows
    BY DEF Stored
  <2>2. ASSUME NEW w \in Workers, NEW g \in grants[w], NEW s \in Recorded,
               RecordOutcome(w, g, s)
        PROVE  FALSE
    BY <2>0, <2>1, <2>2 DEF RecordOutcome, TypeOK, Row
  <2>3. PICK w \in Workers, j \in Keys, p \in Payloads : Transaction(w, j, p)
    BY <2>1, <2>2 DEF Next, Tick, NewLease, Restart, BeginClaim
  <2>4. ~Refused(w, j, p) /\ ~Confirmed(w, j, p) /\ ~Inserted(w, j, p)
    BY <2>0, <2>1 DEF Refused, Confirmed, Inserted, TypeOK
  <2>5. TakenOver(w, j, p)
    BY <2>0, <2>3, <2>4, TransactionCases
  <2>6. k = j
    BY <2>0, <2>1, <2>5 DEF TakenOver, TypeOK
  <2>7. call[w].at <= clock
    BY <2>0, <2>3 DEF Transaction, CallInv
  <2> QED BY <2>0, <2>5, <2>6, <2>7, FieldTypes DEF TakenOver
<1> QED BY <1>1, ClaimStoreInvariance, PTL DEF TakeoverWaits, Spec

(* Nobody is told that it owns a key under a smaller token than a living   *)
(* process was told so before.                                             *)
THEOREM LatestOwner == Spec => LatestOwnerOnly
<1>1. ASSUME ClaimStoreInv, [Next]_vars
      PROVE  [\A w \in Workers : \A g \in grants'[w] \ grants[w] :
                \A v \in Workers : \A h \in grants[v] :
                  h.key = g.key => h.lease.token <= g.lease.token]_vars
  <2>0. TypeOK /\ GrantInv
    BY <1>1 DEF ClaimStoreInv
  <2> SUFFICES ASSUME Next,
                      NEW w \in Workers, NEW g \in grants'[w] \ grants[w],
                      NEW v \in Workers, NEW h \in grants[v], h.key = g.key
               PROVE  h.lease.token <= g.lease.token
    BY <1>1
  <2>2. PICK u \in Workers, k \in Keys, p \in Payloads : Transaction(u, k, p)
    BY <2>0 DEF Next, Tick, NewLease, Restart, BeginClaim, RecordOutcome, TypeOK
  <2> DEFINE new == [key |-> k, payload |-> p, lease |-> lease[u]]
  <2>3. ~Refused(u, k, p)
    BY DEF Refused
  <2>4. Told(u, k, p)
    BY <2>0, <2>2, <2>3, TransactionCases DEF Inserted, TakenOver, Confirmed
  <2>5. g = new
    BY <2>0, <2>4 DEF Told, TypeOK
  <2>6. g.key = k /\ g.lease = lease[u]
    BY <2>5
  <2>7. ~Inserted(u, k, p)
    BY <2>0, <2>6 DEF Inserted, GrantInv
  <2>8. rows[k].token <= lease[u].token /\ h.lease.token <= rows[k].token
    BY <2>0, <2>2, <2>3, <2>6, <2>7, TransactionCases, FieldTypes
       DEF TakenOver, Confirmed, GrantInv
  <2> QED BY <2>0, <2>6, <2>8, FieldTypes
<1> QED BY <1>1, ClaimStoreInvariance, PTL DEF LatestOwnerOnly, Spec

=============================================================================
