----------------------- MODULE MutationExecutorProofs -----------------------
(***************************************************************************)
(* Proofs about MutationExecutor, for any number of keys, payloads,        *)
(* references, workers, leases and faults, and any capacity of the store.  *)
(*                                                                         *)
(* ProviderAtMostOnce is not inductive: it needs to be known who may still *)
(* call the provider. ClaimInv says that a worker between its claim and    *)
(* the provider call owns a PENDING row of a key never called for, that    *)
(* no second worker does, and that the row of a key that was called for    *)
(* never disappears, so that no later claim can create it again.           *)
(***************************************************************************)
EXTENDS MutationExecutor, FiniteSetTheorems, TLAPS

At(w, k, pcs) == worker[w].pc \in pcs /\ worker[w].key = {k}

(* Between the claim and the provider call: the row is the worker's own.   *)
BeforeCall == {"pre", "rollback", "provider"}

(* Between the provider call and the first write of its outcome.           *)
Writing == {"writeFailure", "writeSuccess", "storeSuccess"}

(* Between that write and the success audit or the downgrade.              *)
Confirming == {"post", "downgrade"}

Owning == BeforeCall \cup Writing \cup Confirming

BeforeCallInv ==
  \A w \in Workers, k \in Keys : At(w, k, BeforeCall) =>
    /\ data[k].status = Pending
    /\ data[k].payload = worker[w].payload
    /\ calls[k] = 0

WritingInv ==
  \A w \in Workers, k \in Keys : At(w, k, Writing) =>
    /\ data[k].status = Pending
    /\ calls[k] = 1
    /\ worker[w].pc # "writeFailure" =>
         worker[w].ref # {} /\ worker[w].ref \subseteq applied[k]

ConfirmingInv ==
  \A w \in Workers, k \in Keys : At(w, k, Confirming) =>
    data[k].status = ResolvedPresent /\ data[k].ref = worker[w].ref

ResolvingInv ==
  \A w \in Workers, k \in Keys : At(w, k, {"resolve"}) =>
    /\ data[k].status \in {Uncertain, ResolvedPresent}
    /\ data[k].ref = worker[w].ref

OneOwner ==
  \A v, w \in Workers, k \in Keys :
    At(v, k, Owning) /\ At(w, k, Owning) => v = w

RowInv ==
  \A k \in Keys :
    /\ calls[k] <= 1
    /\ data[k].status = Absent => calls[k] = 0
    /\ data[k].status \notin {Absent, Pending} => calls[k] = 1
    /\ data[k].status # ResolvedAbsent
    /\ data[k].status \in {Uncertain, ResolvedPresent} =>
         data[k].ref # {} /\ data[k].ref \subseteq applied[k]

AuditInv ==
  \A k \in Keys :
    /\ calls[k] > 0 => Logged(k, {"pre_mutation"})
    /\ \A w \in Workers : At(w, k, {"provider"}) => Logged(k, {"pre_mutation"})

ClaimInv ==
  /\ BeforeCallInv
  /\ WritingInv
  /\ ConfirmingInv
  /\ ResolvingInv
  /\ OneOwner
  /\ RowInv
  /\ AuditInv

-----------------------------------------------------------------------------
(* What the helpers do to the worker that uses them.                       *)

(* An Optional is absent or holds one element.                             *)
LEMMA OptionalFacts ==
  ASSUME NEW S
  PROVE  /\ {} \in Optional(S)
         /\ \A x \in S : {x} \in Optional(S)
BY DEF Optional

(* A worker outside any call is a well-formed call record.                 *)
LEMMA IdleType == Idle \in Call
<1>1. {} \in Optional(Keys) /\ {} \in Optional(Payloads) /\ {} \in Optional(Refs)
      /\ {} \in Optional(Nat)
  BY OptionalFacts
<1> QED
  BY <1>1 DEF Idle, Call, Pc

(* Goto moves one worker and forgets what it had read of shared state.     *)
LEMMA GotoEffect ==
  ASSUME worker \in [Workers -> Call], NEW w \in Workers, NEW pc \in Pc,
         Goto(w, pc)
  PROVE  /\ worker' \in [Workers -> Call]
         /\ worker'[w].pc = pc
         /\ worker'[w].key = worker[w].key
         /\ worker'[w].payload = worker[w].payload
         /\ worker'[w].ref = worker[w].ref
         /\ \A v \in Workers \ {w} : worker'[v] = worker[v]
<1>1. {} \in Optional(Nat)
  BY OptionalFacts
<1> QED
  BY <1>1 DEF Goto, Call

(* Return makes one worker idle and touches no other.                      *)
LEMMA ReturnEffect ==
  ASSUME worker \in [Workers -> Call], NEW w \in Workers, Return(w)
  PROVE  /\ worker' \in [Workers -> Call]
         /\ worker'[w] = Idle
         /\ \A v \in Workers \ {w} : worker'[v] = worker[v]
BY IdleType DEF Return

(* Every audit event is one of the known actions, and a call resumes at a  *)
(* known place after it.                                                   *)
LEMMA AuditPcFacts ==
  ASSUME NEW pc \in AuditPc
  PROVE  /\ AuditAction(pc) \in AuditActions
         /\ AfterAppend(pc) \in Pc
         /\ AfterFailure(pc) \in Pc
         /\ (AuditAction(pc) = "pre_mutation") <=> (pc = "pre")
BY DEF AuditPc, AuditAction, AuditActions, AfterAppend, AfterFailure, Pc, StorePc

-----------------------------------------------------------------------------
(* Type correctness.                                                       *)

(* Going on after an audit append, elsewhere or by returning, keeps the    *)
(* type of the calls.                                                      *)
LEMMA ResumeType ==
  ASSUME worker \in [Workers -> Call], NEW w \in Workers, NEW pc \in Pc,
         Resume(w, pc)
  PROVE  worker' \in [Workers -> Call]
BY GotoEffect, ReturnEffect DEF Resume

(* Writing a status and a reference keeps the type of the rows.            *)
LEMMA SetRowType ==
  ASSUME data \in [Keys -> Row], NEW k \in Keys,
         NEW status \in MutationStatus, NEW ref \in Optional(Refs),
         SetRow(k, status, ref)
  PROVE  data' \in [Keys -> Row]
BY DEF SetRow, Row

(* store.resolve, applied or refused by a full store, keeps the types of   *)
(* the rows, the references and the calls.                                 *)
LEMMA StoreResolveType ==
  ASSUME TypeOK, NEW w \in Workers, NEW k \in Keys,
         NEW status \in MutationStatus, NEW next \in Pc,
         StoreResolve(w, k, status, next)
  PROVE  /\ data' \in [Keys -> Row]
         /\ extRefs' \in [Refs -> Optional(Keys)]
         /\ worker' \in [Workers -> Call]
<1>1. worker[w].ref \in Optional(Refs)
  BY DEF TypeOK, Call
<1>2. {k} \in Optional(Keys)
  BY OptionalFacts
<1>3. CASE ~Full
  <2>1. data' \in [Keys -> Row]
    BY <1>1, <1>3, SetRowType DEF StoreResolve, TypeOK
  <2>2. extRefs' \in [Refs -> Optional(Keys)]
    BY <1>2, <1>3 DEF StoreResolve, TypeOK
  <2>3. worker' \in [Workers -> Call]
    BY <1>3, GotoEffect DEF StoreResolve, TypeOK
  <2> QED
    BY <2>1, <2>2, <2>3
<1>4. CASE Full
  BY <1>4, ReturnEffect DEF StoreResolve, TypeOK
<1> QED
  BY <1>3, <1>4

(* The empty store, registry and chain are type correct.                   *)
LEMMA TypeInit == Init => TypeOK
<1> SUFFICES ASSUME Init PROVE TypeOK
  OBVIOUS
<1>1. {} \in Optional(Keys) /\ {} \in Optional(Payloads) /\ {} \in Optional(Refs)
  BY OptionalFacts
<1>2. NoRow \in Row /\ NoLease \in Lease
  BY <1>1, ConstantsAssumption DEF NoRow, Row, NoLease, Lease
<1> QED
  BY <1>1, <1>2, IdleType, ConstantsAssumption DEF Init, TypeOK

(* Every step of every worker keeps the types.                             *)
LEMMA TypeNext == TypeOK /\ [Next]_vars => TypeOK'
<1> SUFFICES ASSUME TypeOK, [Next]_vars PROVE TypeOK'
  OBVIOUS
<1>o. /\ {} \in Optional(Keys) /\ {} \in Optional(Refs) /\ {} \in Optional(Payloads)
      /\ \A k \in Keys : {k} \in Optional(Keys)
      /\ \A p \in Payloads : {p} \in Optional(Payloads)
      /\ \A r \in Refs : {r} \in Optional(Refs)
      /\ \A n \in Nat : {n} \in Optional(Nat)
  BY OptionalFacts
<1>s. /\ {Pending, FailedNoMutation, Uncertain, ResolvedPresent, ResolvedAbsent}
           \subseteq MutationStatus
      /\ StorePc \subseteq Pc /\ AuditPc \subseteq Pc /\ "idle" \in Pc
  BY DEF MutationStatus, Pc
<1>f. ASSUME NEW kind, Inject(kind) PROVE faults' \in 0..MaxFaults
  BY <1>f, ConstantsAssumption DEF Inject, TypeOK
<1>1. ASSUME NEW w \in Workers, NEW k \in Keys, LeaseClaim(w, k) PROVE TypeOK'
  <2>1. [key |-> {k}, token |-> nextToken, expired |-> FALSE] \in Lease
    BY <1>1, <1>o, ConstantsAssumption DEF LeaseClaim, TypeOK, Lease
  <2> QED
    BY <1>1, <2>1, ConstantsAssumption DEF LeaseClaim, TypeOK
<1>2. ASSUME NEW w \in Workers, LeaseExpires(w) PROVE TypeOK'
  BY <1>2 DEF LeaseExpires, TypeOK, Lease
<1>3. ASSUME NEW w \in Workers, NEW k \in Keys, NEW p \in Payloads,
             NEW bound \in BOOLEAN, BeginExecute(w, k, p, bound)
      PROVE TypeOK'
  <2>1. {fencing[k]} \in Optional(Nat)
    BY <1>o, ConstantsAssumption DEF TypeOK
  <2>2. [pc |-> "register", key |-> {k}, payload |-> {p}, ref |-> {},
         seen |-> {fencing[k]}] \in Call
    BY <1>o, <1>s, <2>1 DEF Call, StorePc
  <2> QED
    BY <1>3, <2>2 DEF BeginExecute, TypeOK
<1>4. ASSUME NEW w \in Workers, NEW k \in Keys, RegisterFencing(w, k) PROVE TypeOK'
  <2>1. worker' \in [Workers -> Call]
    BY <1>4, <1>s, GotoEffect DEF RegisterFencing, TypeOK, StorePc
  <2>2. fencing' \in [Keys -> 0..MaxToken]
    BY <1>4 DEF RegisterFencing, TypeOK, Lease
  <2> QED
    BY <1>4, <2>1, <2>2 DEF RegisterFencing, TypeOK
<1>5. ASSUME NEW w \in Workers, NEW k \in Keys, Claim(w, k) PROVE TypeOK'
  <2>1. worker' \in [Workers -> Call]
    BY <1>5, <1>s, GotoEffect, ReturnEffect DEF Claim, TypeOK, AuditPc
  <2>p. worker[w].payload \in Optional(Payloads)
    BY DEF TypeOK, Call
  <2>r. [status |-> Pending, payload |-> worker[w].payload, ref |-> {}] \in Row
    BY <1>o, <1>s, <2>p DEF Row
  <2>2. data' \in [Keys -> Row]
    BY <1>5, <2>r DEF Claim, TypeOK
  <2> QED
    BY <1>5, <2>1, <2>2 DEF Claim, TypeOK
<1>6. ASSUME NEW w \in Workers, NEW k \in Keys, RollbackClaim(w, k) PROVE TypeOK'
  <2>1. worker' \in [Workers -> Call]
    BY <1>6, ReturnEffect DEF RollbackClaim, TypeOK
  <2>2. NoRow \in Row
    BY <1>o DEF NoRow, Row
  <2>3. data' \in [Keys -> Row]
    BY <1>6, <2>2 DEF RollbackClaim, TypeOK
  <2> QED
    BY <1>6, <2>1, <2>3 DEF RollbackClaim, TypeOK
<1>7. ASSUME NEW w \in Workers, ReadHead(w) PROVE TypeOK'
  <2>s. chain \in Seq(AuditRecord)
    BY DEF TypeOK
  <2>1. {Len(chain)} \in Optional(Nat)
    BY <1>o, <2>s
  <2>2. worker' \in [Workers -> Call]
    BY <1>7, <2>1 DEF ReadHead, TypeOK, Call
  <2> QED
    BY <1>7, <2>2 DEF ReadHead, TypeOK
<1>8. ASSUME NEW w \in Workers, NEW k \in Keys, Append_(w, k) PROVE TypeOK'
  <2>1. worker' \in [Workers -> Call]
    BY <1>8, AuditPcFacts, ResumeType DEF Append_, TypeOK
  <2>2. PICK n \in worker[w].seen :
          chain' = Append(chain, [sequence |-> n + 1,
                                  action |-> AuditAction(worker[w].pc), key |-> k])
    BY <1>8 DEF Append_
  <2>3. n \in Nat
    BY DEF TypeOK, Call, Optional
  <2>4. [sequence |-> n + 1, action |-> AuditAction(worker[w].pc), key |-> k]
          \in AuditRecord
    BY <1>8, <2>3, AuditPcFacts DEF Append_, AuditRecord
  <2>5. chain' \in Seq(AuditRecord)
    BY <2>2, <2>4 DEF TypeOK
  <2> QED
    BY <1>8, <2>1, <2>5 DEF Append_, TypeOK
<1>9. ASSUME NEW w \in Workers, AppendRejected(w) PROVE TypeOK'
  BY <1>9, ReturnEffect DEF AppendRejected, TypeOK
<1>10. ASSUME NEW w \in Workers, AppendFails(w) PROVE TypeOK'
  <2>1. worker' \in [Workers -> Call]
    BY <1>10, AuditPcFacts, ResumeType DEF AppendFails, TypeOK
  <2> QED
    BY <1>10, <1>f, <2>1 DEF AppendFails, TypeOK
<1>11. ASSUME NEW w \in Workers, NEW k \in Keys, NEW r \in Refs,
              ProviderReturns(w, k, r)
       PROVE TypeOK'
  <2>1. worker' \in [Workers -> Call]
    BY <1>11, <1>o, <1>s DEF ProviderReturns, TypeOK, Call, StorePc
  <2> QED
    BY <1>11, <2>1 DEF ProviderReturns, TypeOK
<1>12. ASSUME NEW w \in Workers, NEW k \in Keys, ProviderFails(w, k) PROVE TypeOK'
  <2>1. worker' \in [Workers -> Call]
    BY <1>12, <1>s, GotoEffect DEF ProviderFails, TypeOK, StorePc
  <2> QED
    BY <1>12, <1>f, <2>1 DEF ProviderFails, TypeOK
<1>13. ASSUME NEW w \in Workers, NEW k \in Keys, NEW r \in Refs,
              ProviderTimesOut(w, k, r)
       PROVE TypeOK'
  <2>1. worker' \in [Workers -> Call]
    BY <1>13, <1>s, GotoEffect DEF ProviderTimesOut, TypeOK, StorePc
  <2> QED
    BY <1>13, <1>f, <2>1 DEF ProviderTimesOut, TypeOK
<1>14. ASSUME NEW w \in Workers, NEW k \in Keys, WriteFailure(w, k) PROVE TypeOK'
  <2>1. worker' \in [Workers -> Call]
    BY <1>14, <1>s, GotoEffect, ReturnEffect DEF WriteFailure, TypeOK, AuditPc
  <2>2. data' \in [Keys -> Row]
    BY <1>14, <1>o, <1>s, SetRowType DEF WriteFailure, TypeOK
  <2> QED
    BY <1>14, <2>1, <2>2 DEF WriteFailure, TypeOK
<1>15. ASSUME NEW w \in Workers, NEW k \in Keys, NEW r \in Refs,
              CheckCollision(w, k, r)
       PROVE TypeOK'
  BY <1>15, <1>s, GotoEffect, ReturnEffect DEF CheckCollision, TypeOK, StorePc
<1>16. ASSUME NEW w \in Workers, NEW k \in Keys, NEW r \in Refs,
              WriteSuccessFails(w, k, r)
       PROVE TypeOK'
  <2>1. worker' \in [Workers -> Call]
    BY <1>16, <1>s, GotoEffect DEF WriteSuccessFails, TypeOK, AuditPc
  <2>2. data' \in [Keys -> Row]
    BY <1>16, <1>o, <1>s, SetRowType DEF WriteSuccessFails, TypeOK
  <2> QED
    BY <1>16, <1>o, <1>f, <2>1, <2>2 DEF WriteSuccessFails, TypeOK
<1>17. ASSUME NEW w \in Workers, NEW k \in Keys, NEW r \in Refs,
              StoreSuccess(w, k, r)
       PROVE TypeOK'
  <2>1. worker' \in [Workers -> Call]
    BY <1>17, <1>s, GotoEffect DEF StoreSuccess, TypeOK, AuditPc
  <2>2. data' \in [Keys -> Row]
    BY <1>17, <1>o, <1>s, SetRowType DEF StoreSuccess, TypeOK
  <2> QED
    BY <1>17, <1>o, <2>1, <2>2 DEF StoreSuccess, TypeOK
<1>18. ASSUME NEW w \in Workers, NEW k \in Keys, Downgrade(w, k) PROVE TypeOK'
  <2>1. /\ data' \in [Keys -> Row]
        /\ extRefs' \in [Refs -> Optional(Keys)]
        /\ worker' \in [Workers -> Call]
    BY <1>18, <1>s, StoreResolveType DEF Downgrade, AuditPc
  <2> QED
    BY <1>18, <2>1 DEF Downgrade, TypeOK
<1>19. ASSUME NEW w \in Workers, NEW k \in Keys, BeginRecover(w, k) PROVE TypeOK'
  <2>1. [Idle EXCEPT !.pc = "readBack", !.key = {k}] \in Call
    BY <1>o, <1>s, IdleType DEF Call, StorePc, Idle
  <2> QED
    BY <1>19, <2>1 DEF BeginRecover, TypeOK
<1>20. ASSUME NEW w \in Workers, NEW k \in Keys, ReadBack(w, k) PROVE TypeOK'
  <2>1. CASE data[k].status = Uncertain
    <3>r. data[k].ref \in Optional(Refs)
      BY DEF TypeOK, Row
    <3>p. "resolve" \in Pc
      BY DEF Pc, StorePc
    <3>1. worker' = [worker EXCEPT ![w].pc = "resolve", ![w].ref = data[k].ref]
      BY <1>20, <2>1 DEF ReadBack
    <3>2. worker \in [Workers -> Call]
      BY DEF TypeOK
    <3>3. worker' \in [Workers -> Call]
      BY <3>1, <3>2, <3>r, <3>p DEF Call
    <3> QED
      BY <1>20, <3>3 DEF ReadBack, TypeOK
  <2>2. CASE data[k].status # Uncertain
    BY <1>20, <2>2, ReturnEffect DEF ReadBack, TypeOK
  <2> QED
    BY <2>1, <2>2
<1>21. ASSUME NEW w \in Workers, NEW k \in Keys, Resolve(w, k) PROVE TypeOK'
  <2>1. /\ data' \in [Keys -> Row]
        /\ extRefs' \in [Refs -> Optional(Keys)]
        /\ worker' \in [Workers -> Call]
    BY <1>21, <1>s, StoreResolveType DEF Resolve, AuditPc
  <2> QED
    BY <1>21, <2>1 DEF Resolve, TypeOK
<1>22. ASSUME NEW w \in Workers, WorkerDies(w) PROVE TypeOK'
  BY <1>22, <1>f, ReturnEffect DEF WorkerDies, TypeOK
<1>23. CASE UNCHANGED vars
  BY <1>23 DEF vars, TypeOK
<1>24. CASE OtherKeys
  <2>1. Cardinality({k \in Keys : data[k].status # Absent}) \in Nat
    BY ConstantsAssumption, FS_Subset, FS_CardinalityType
  <2>2. others' \in 0..Capacity
    BY <1>24, <2>1, ConstantsAssumption DEF OtherKeys, Full, TypeOK
  <2> QED
    BY <1>24, <2>2 DEF OtherKeys, TypeOK
<1> QED
  BY <1>1, <1>2, <1>3, <1>4, <1>5, <1>6, <1>7, <1>8, <1>9, <1>10, <1>11, <1>12,
     <1>13, <1>14, <1>15, <1>16, <1>17, <1>18, <1>19, <1>20, <1>21, <1>22, <1>23,
     <1>24
  DEF Next, Execute, Recover

(* Every variable keeps its type, for every value of the constants.        *)
THEOREM TypeCorrect == Spec => []TypeOK
BY TypeInit, TypeNext, PTL DEF Spec

-----------------------------------------------------------------------------
(* The claim invariant.                                                    *)

(* A call that leaves the store alone and goes to a place that owns        *)
(* nothing (it returns, dies, or has not claimed yet) keeps ClaimInv.      *)
LEMMA LeavesClaimInv ==
  ASSUME ClaimInv, NEW w \in Workers,
         UNCHANGED <<data, chain, calls, applied>>,
         \A v \in Workers \ {w} : worker'[v] = worker[v],
         worker'[w].pc \notin Owning \cup {"resolve"}
  PROVE  ClaimInv'
<1>1. ASSUME NEW v \in Workers, NEW k \in Keys,
             NEW pcs \in SUBSET (Owning \cup {"resolve"}), At(v, k, pcs)'
      PROVE  v # w /\ At(v, k, pcs) /\ worker'[v] = worker[v]
  BY <1>1 DEF At
<1>2. /\ BeforeCall \in SUBSET (Owning \cup {"resolve"})
      /\ Writing \in SUBSET (Owning \cup {"resolve"})
      /\ Confirming \in SUBSET (Owning \cup {"resolve"})
      /\ {"resolve"} \in SUBSET (Owning \cup {"resolve"})
      /\ Owning \in SUBSET (Owning \cup {"resolve"})
      /\ {"provider"} \in SUBSET (Owning \cup {"resolve"})
  BY DEF Owning, BeforeCall
<1>3. BeforeCallInv'
  BY <1>1, <1>2 DEF ClaimInv, BeforeCallInv
<1>4. WritingInv'
  BY <1>1, <1>2 DEF ClaimInv, WritingInv
<1>5. ConfirmingInv'
  BY <1>1, <1>2 DEF ClaimInv, ConfirmingInv
<1>6. ResolvingInv'
  BY <1>1, <1>2 DEF ClaimInv, ResolvingInv
<1>7. OneOwner'
  BY <1>1, <1>2 DEF ClaimInv, OneOwner
<1>8. RowInv'
  BY DEF ClaimInv, RowInv
<1>9. AuditInv'
  BY <1>1, <1>2 DEF ClaimInv, AuditInv, Logged
<1> QED
  BY <1>3, <1>4, <1>5, <1>6, <1>7, <1>8, <1>9 DEF ClaimInv

(* A worker that returns without writing keeps ClaimInv.                   *)
LEMMA ReturnKeeps ==
  ASSUME TypeOK, ClaimInv, NEW w \in Workers, Return(w),
         UNCHANGED <<data, chain, calls, applied>>
  PROVE  ClaimInv'
<1>1. /\ worker'[w] = Idle
      /\ \A v \in Workers \ {w} : worker'[v] = worker[v]
  BY ReturnEffect DEF TypeOK
<1>2. worker'[w].pc \notin Owning \cup {"resolve"}
  BY <1>1 DEF Idle, Owning, BeforeCall, Writing, Confirming
<1> QED
  BY <1>1, <1>2, LeavesClaimInv

(* A step that only changes what a worker has read keeps ClaimInv.         *)
LEMMA ReadsClaimInv ==
  ASSUME ClaimInv,
         UNCHANGED <<data, chain, calls, applied>>,
         \A v \in Workers : /\ worker'[v].pc = worker[v].pc
                            /\ worker'[v].key = worker[v].key
                            /\ worker'[v].payload = worker[v].payload
                            /\ worker'[v].ref = worker[v].ref
  PROVE  ClaimInv'
<1>1. \A pcs : \A v \in Workers, k \in Keys : At(v, k, pcs)' <=> At(v, k, pcs)
  BY DEF At
<1>2. BeforeCallInv' /\ WritingInv'
  BY <1>1 DEF ClaimInv, BeforeCallInv, WritingInv
<1>3. ConfirmingInv' /\ ResolvingInv' /\ OneOwner'
  BY <1>1 DEF ClaimInv, ConfirmingInv, ResolvingInv, OneOwner
<1>4. RowInv' /\ AuditInv'
  BY <1>1 DEF ClaimInv, RowInv, AuditInv, Logged
<1> QED
  BY <1>2, <1>3, <1>4 DEF ClaimInv

(* Events are only added to the chain.                                     *)
LEMMA LoggedStays ==
  ASSUME chain \in Seq(AuditRecord), NEW e \in AuditRecord,
         chain' = Append(chain, e), NEW k, NEW actions
  PROVE  /\ Logged(k, actions) => Logged(k, actions)'
         /\ e.key = k /\ e.action \in actions => Logged(k, actions)'
<1>1. /\ DOMAIN chain' = DOMAIN chain \cup {Len(chain) + 1}
      /\ \A i \in DOMAIN chain : chain'[i] = chain[i]
      /\ chain'[Len(chain) + 1] = e
  OBVIOUS
<1> QED
  BY <1>1 DEF Logged

(* With no rows and no calls there is nothing to own.                      *)
LEMMA ClaimInvInit == Init => ClaimInv
<1> SUFFICES ASSUME Init PROVE ClaimInv
  OBVIOUS
<1>1. \A w \in Workers : worker[w].pc = "idle"
  BY DEF Init, Idle
<1>2. \A w \in Workers, k \in Keys : ~At(w, k, Owning \cup {"resolve"})
  BY <1>1 DEF At, Owning, BeforeCall, Writing, Confirming
<1>3. BeforeCallInv /\ WritingInv /\ ConfirmingInv /\ ResolvingInv /\ OneOwner
  BY <1>2 DEF BeforeCallInv, WritingInv, ConfirmingInv, ResolvingInv, OneOwner, At,
     Owning
<1>4. RowInv
  BY DEF Init, RowInv, NoRow, Absent, Pending, Uncertain, ResolvedPresent,
     ResolvedAbsent
<1>5. AuditInv
  BY <1>1 DEF Init, AuditInv, At
<1> QED
  BY <1>3, <1>4, <1>5 DEF ClaimInv

(* The steps that disturb the invariant. Each is shown conjunct by         *)
(* conjunct: other workers and other keys are untouched, and by OneOwner   *)
(* no other worker owns the row that changes.                              *)

(* store.claim makes its caller the only owner of the new row, or changes  *)
(* nothing.                                                                *)
LEMMA ClaimKeeps ==
  ASSUME TypeOK, ClaimInv, NEW w \in Workers, NEW k \in Keys, Claim(w, k)
  PROVE  ClaimInv'
<1>1. CASE Full \/ data[k].status # Absent
  <2>1. Return(w) /\ UNCHANGED <<data, chain, calls, applied>>
    BY <1>1 DEF Claim
  <2> QED
    BY <2>1, ReturnKeeps
<1>2. CASE ~Full /\ data[k].status = Absent
  <2>1. /\ worker'[w].pc = "pre" /\ worker'[w].key = {k}
        /\ worker'[w].payload = worker[w].payload
        /\ \A v \in Workers \ {w} : worker'[v] = worker[v]
    BY <1>2, GotoEffect DEF Claim, KeyIs, TypeOK, Pc, AuditPc
  <2>2. /\ data'[k].status = Pending /\ data'[k].payload = worker[w].payload
        /\ \A j \in Keys \ {k} : data'[j] = data[j]
        /\ UNCHANGED <<chain, calls, applied>>
    BY <1>2 DEF Claim, TypeOK
  <2>3. \A v \in Workers : ~At(v, k, Owning) /\ ~At(v, k, {"resolve"})
    BY <1>2 DEF ClaimInv, BeforeCallInv, WritingInv, ConfirmingInv, ResolvingInv,
       At, Owning, BeforeCall, Writing, Confirming, Absent, Pending, FailedNoMutation, Uncertain, ResolvedPresent, ResolvedAbsent
  <2>4. BeforeCallInv'
    BY <1>2, <2>1, <2>2, <2>3 DEF ClaimInv, BeforeCallInv, RowInv, At, Owning
  <2>5. WritingInv'
    BY <2>1, <2>2, <2>3 DEF ClaimInv, WritingInv, At, Owning, Writing
  <2>6. ConfirmingInv'
    BY <2>1, <2>2, <2>3 DEF ClaimInv, ConfirmingInv, At, Owning, Confirming
  <2>7. ResolvingInv'
    BY <2>1, <2>2, <2>3 DEF ClaimInv, ResolvingInv, At
  <2>8. OneOwner'
    BY <2>1, <2>3 DEF ClaimInv, OneOwner, At
  <2>9. RowInv'
    BY <1>2, <2>2 DEF ClaimInv, RowInv, Absent, Pending, FailedNoMutation, Uncertain, ResolvedPresent, ResolvedAbsent
  <2>10. AuditInv'
    BY <2>1, <2>2 DEF ClaimInv, AuditInv, At, Logged
  <2> QED
    BY <2>4, <2>5, <2>6, <2>7, <2>8, <2>9, <2>10 DEF ClaimInv
<1> QED
  BY <1>1, <1>2

(* Rolling back removes the owner together with its row, before any        *)
(* provider call.                                                          *)
LEMMA RollbackKeeps ==
  ASSUME TypeOK, ClaimInv, NEW w \in Workers, NEW k \in Keys, RollbackClaim(w, k)
  PROVE  ClaimInv'
<1>1. /\ worker'[w].pc = "idle"
      /\ \A v \in Workers \ {w} : worker'[v] = worker[v]
      /\ UNCHANGED <<chain, calls, applied>>
  BY ReturnEffect DEF RollbackClaim, TypeOK, Idle
<1>2. At(w, k, BeforeCall) /\ At(w, k, Owning)
  BY DEF RollbackClaim, KeyIs, At, BeforeCall, Owning
<1>3. data[k].status = Pending /\ calls[k] = 0
  BY <1>2 DEF ClaimInv, BeforeCallInv
<1>4. /\ data'[k] = NoRow
      /\ \A j \in Keys \ {k} : data'[j] = data[j]
  BY <1>3 DEF RollbackClaim, TypeOK
<1>5. \A v \in Workers : ~At(v, k, Owning)' /\ ~At(v, k, {"resolve"})'
  BY <1>1, <1>2, <1>3 DEF ClaimInv, OneOwner, ResolvingInv, At, Owning, BeforeCall, Writing, Confirming, Absent, Pending, FailedNoMutation, Uncertain, ResolvedPresent, ResolvedAbsent
<1>6. BeforeCallInv'
  BY <1>1, <1>4, <1>5 DEF ClaimInv, BeforeCallInv, At, Owning, BeforeCall
<1>7. WritingInv'
  BY <1>1, <1>4, <1>5 DEF ClaimInv, WritingInv, At, Owning, Writing
<1>8. ConfirmingInv'
  BY <1>1, <1>4, <1>5 DEF ClaimInv, ConfirmingInv, At, Owning, Confirming
<1>9. ResolvingInv'
  BY <1>1, <1>4, <1>5 DEF ClaimInv, ResolvingInv, At
<1>10. OneOwner'
  BY <1>1, <1>5 DEF ClaimInv, OneOwner, At, Owning, BeforeCall, Writing, Confirming
<1>11. RowInv'
  BY <1>1, <1>3, <1>4 DEF ClaimInv, RowInv, NoRow, Absent, Pending, FailedNoMutation, Uncertain, ResolvedPresent, ResolvedAbsent
<1>12. AuditInv'
  BY <1>1 DEF ClaimInv, AuditInv, At, Logged
<1> QED
  BY <1>6, <1>7, <1>8, <1>9, <1>10, <1>11, <1>12 DEF ClaimInv

(* An append moves the owner on with its event in the chain; in particular *)
(* it reaches the provider call only with its pre_mutation event logged.   *)
LEMMA AppendKeeps ==
  ASSUME TypeOK, ClaimInv, NEW w \in Workers, NEW k \in Keys, Append_(w, k)
  PROVE  ClaimInv'
<1>1. PICK n \in worker[w].seen :
        chain' = Append(chain, [sequence |-> n + 1,
                                action |-> AuditAction(worker[w].pc), key |-> k])
  BY DEF Append_
<1>2. n \in Nat
  BY DEF TypeOK, Call, Optional
<1>3. [sequence |-> n + 1, action |-> AuditAction(worker[w].pc), key |-> k]
        \in AuditRecord
  BY <1>2, AuditPcFacts DEF Append_, AuditRecord
<1>4. /\ \A j, actions : Logged(j, actions) => Logged(j, actions)'
      /\ worker[w].pc = "pre" => Logged(k, {"pre_mutation"})'
  BY <1>1, <1>3, LoggedStays, AuditPcFacts DEF Append_, TypeOK
<1>5. UNCHANGED <<data, calls, applied>> /\ worker[w].key = {k}
  BY DEF Append_, KeyIs
<1>6. CASE worker[w].pc = "pre"
  <2>1. /\ worker'[w].pc = "provider" /\ worker'[w].key = {k}
        /\ worker'[w].payload = worker[w].payload
        /\ \A v \in Workers \ {w} : worker'[v] = worker[v]
    <3>1. Goto(w, "provider")
      BY <1>6 DEF Append_, Resume, AfterAppend
    <3> QED
      BY <1>5, <3>1, GotoEffect DEF TypeOK, Pc, StorePc
  <2>2. BeforeCallInv' /\ WritingInv'
    BY <1>5, <1>6, <2>1 DEF ClaimInv, BeforeCallInv, WritingInv, At, BeforeCall,
       Writing
  <2>3. ConfirmingInv' /\ ResolvingInv'
    BY <1>5, <2>1 DEF ClaimInv, ConfirmingInv, ResolvingInv, At, Confirming
  <2>4. OneOwner'
    BY <1>5, <1>6, <2>1 DEF ClaimInv, OneOwner, At, Owning, BeforeCall, Writing, Confirming
  <2>5. RowInv'
    BY <1>5 DEF ClaimInv, RowInv
  <2>6. AuditInv'
    BY <1>4, <1>5, <1>6, <2>1 DEF ClaimInv, AuditInv, At
  <2> QED
    BY <2>2, <2>3, <2>4, <2>5, <2>6 DEF ClaimInv
<1>7. CASE worker[w].pc # "pre"
  <2>1. /\ worker'[w].pc = "idle"
        /\ \A v \in Workers \ {w} : worker'[v] = worker[v]
    BY <1>7, ReturnEffect DEF Append_, Resume, AfterAppend, TypeOK, Idle
  <2>2. BeforeCallInv' /\ WritingInv'
    BY <1>5, <2>1 DEF ClaimInv, BeforeCallInv, WritingInv, At, BeforeCall, Writing
  <2>3. ConfirmingInv' /\ ResolvingInv'
    BY <1>5, <2>1 DEF ClaimInv, ConfirmingInv, ResolvingInv, At, Confirming
  <2>4. OneOwner'
    BY <2>1 DEF ClaimInv, OneOwner, At, Owning, BeforeCall, Writing, Confirming
  <2>5. RowInv'
    BY <1>5 DEF ClaimInv, RowInv
  <2>6. AuditInv'
    BY <1>4, <1>5, <2>1 DEF ClaimInv, AuditInv, At
  <2> QED
    BY <2>2, <2>3, <2>4, <2>5, <2>6 DEF ClaimInv
<1> QED
  BY <1>6, <1>7

(* A failed append sends the owner to the rollback before the provider     *)
(* call and to the downgrade after it, never to the call.                  *)
LEMMA AppendFailsKeeps ==
  ASSUME TypeOK, ClaimInv, NEW w \in Workers, AppendFails(w)
  PROVE  ClaimInv'
<1>1. UNCHANGED <<data, chain, calls, applied>>
  BY DEF AppendFails
<1>2. CASE worker[w].pc \notin {"pre", "post"}
  <2>1. Return(w)
    BY <1>2 DEF AppendFails, Resume, AfterFailure
  <2> QED
    BY <1>1, <2>1, ReturnKeeps
<1>3. CASE worker[w].pc \in {"pre", "post"}
  <2>1. /\ worker'[w].pc = IF worker[w].pc = "pre" THEN "rollback" ELSE "downgrade"
        /\ worker'[w].key = worker[w].key
        /\ worker'[w].payload = worker[w].payload
        /\ worker'[w].ref = worker[w].ref
        /\ \A v \in Workers \ {w} : worker'[v] = worker[v]
    <3>1. Goto(w, IF worker[w].pc = "pre" THEN "rollback" ELSE "downgrade")
      BY <1>3 DEF AppendFails, Resume, AfterFailure
    <3> QED
      BY <3>1, GotoEffect DEF TypeOK, Pc, StorePc
  <2>2. BeforeCallInv' /\ WritingInv'
    BY <1>1, <1>3, <2>1 DEF ClaimInv, BeforeCallInv, WritingInv, At, BeforeCall,
       Writing
  <2>3. ConfirmingInv' /\ ResolvingInv'
    BY <1>1, <1>3, <2>1 DEF ClaimInv, ConfirmingInv, ResolvingInv, At, Confirming
  <2>4. OneOwner'
    BY <1>3, <2>1 DEF ClaimInv, OneOwner, At, Owning, BeforeCall, Writing, Confirming
  <2>5. RowInv'
    BY <1>1 DEF ClaimInv, RowInv
  <2>6. AuditInv'
    BY <1>1, <1>3, <2>1 DEF ClaimInv, AuditInv, At, Logged
  <2> QED
    BY <2>2, <2>3, <2>4, <2>5, <2>6 DEF ClaimInv
<1> QED
  BY <1>2, <1>3

(* The provider call, whatever its outcome: the caller was the only owner  *)
(* and the key had never been called for.                                  *)
LEMMA ProviderKeeps ==
  ASSUME TypeOK, ClaimInv, NEW w \in Workers, NEW k \in Keys,
         worker[w].pc = "provider", KeyIs(w, k),
         calls' = [calls EXCEPT ![k] = @ + 1],
         UNCHANGED <<data, chain>>,
         \A j \in Keys : applied[j] \subseteq applied'[j],
         worker'[w].pc \in {"writeFailure", "writeSuccess"},
         worker'[w].key = {k},
         worker'[w].pc = "writeSuccess" =>
           worker'[w].ref # {} /\ worker'[w].ref \subseteq applied'[k],
         \A v \in Workers \ {w} : worker'[v] = worker[v]
  PROVE  ClaimInv'
<1>1. At(w, k, BeforeCall) /\ At(w, k, Owning) /\ At(w, k, {"provider"})
  BY DEF KeyIs, At, BeforeCall, Owning
<1>2. data[k].status = Pending /\ calls[k] = 0
  BY <1>1 DEF ClaimInv, BeforeCallInv
<1>3. calls'[k] = 1 /\ \A j \in Keys \ {k} : calls'[j] = calls[j]
  BY <1>2 DEF TypeOK
<1>4. \A v \in Workers \ {w} : ~At(v, k, Owning) /\ ~At(v, k, {"resolve"})
  BY <1>1, <1>2 DEF ClaimInv, OneOwner, ResolvingInv, Absent, Pending, FailedNoMutation, Uncertain, ResolvedPresent, ResolvedAbsent
<1>5. BeforeCallInv'
  BY <1>3, <1>4 DEF ClaimInv, BeforeCallInv, At, Owning, BeforeCall
<1>6. WritingInv'
  BY <1>2, <1>3, <1>4 DEF ClaimInv, WritingInv, At, Owning, Writing
<1>7. ConfirmingInv' /\ ResolvingInv'
  BY DEF ClaimInv, ConfirmingInv, ResolvingInv, At, Confirming
<1>8. OneOwner'
  BY <1>1 DEF ClaimInv, OneOwner, At, Owning, BeforeCall, Writing, Confirming
<1>9. RowInv'
  BY <1>2, <1>3 DEF ClaimInv, RowInv, Absent, Pending, FailedNoMutation, Uncertain, ResolvedPresent, ResolvedAbsent
<1>10. AuditInv'
  <2>1. Logged(k, {"pre_mutation"})
    BY <1>1 DEF ClaimInv, AuditInv
  <2> QED
    BY <1>3, <2>1 DEF ClaimInv, AuditInv, At, Logged
<1> QED
  BY <1>5, <1>6, <1>7, <1>8, <1>9, <1>10 DEF ClaimInv

(* The first write of the outcome by the owner of a PENDING row, when it   *)
(* gives up ownership: FAILED, or UNCERTAIN with the reference it was given.*)
LEMMA FirstWriteKeeps ==
  ASSUME TypeOK, ClaimInv, NEW w \in Workers, NEW k \in Keys,
         At(w, k, Writing),
         NEW status \in {FailedNoMutation, Uncertain}, NEW ref,
         status = Uncertain => worker[w].pc # "writeFailure" /\ ref = worker[w].ref,
         SetRow(k, status, ref),
         UNCHANGED <<chain, calls, applied>>,
         \A v \in Workers \ {w} : worker'[v] = worker[v],
         worker'[w].pc \notin Owning \cup {"resolve"}
  PROVE  ClaimInv'
<1>0. UNCHANGED <<chain, calls, applied>>
  OBVIOUS
<1>1. /\ data[k].status = Pending /\ calls[k] = 1
      /\ status = Uncertain => ref # {} /\ ref \subseteq applied[k]
  BY DEF ClaimInv, WritingInv
<1>2. /\ data'[k].status = status /\ data'[k].ref = ref
      /\ \A j \in Keys \ {k} : data'[j] = data[j]
  BY DEF SetRow, TypeOK, Row
<1>3. \A v \in Workers \ {w} : ~At(v, k, Owning) /\ ~At(v, k, {"resolve"})
  BY <1>0, <1>1 DEF ClaimInv, OneOwner, ResolvingInv, At, Owning, BeforeCall, Writing, Confirming, Absent, Pending, FailedNoMutation, Uncertain, ResolvedPresent, ResolvedAbsent
<1>4. BeforeCallInv'
  BY <1>0, <1>2, <1>3 DEF ClaimInv, BeforeCallInv, At, Owning, BeforeCall, Writing, Confirming
<1>5. WritingInv'
  BY <1>0, <1>2, <1>3 DEF ClaimInv, WritingInv, At, Owning, BeforeCall, Writing, Confirming
<1>6. ConfirmingInv'
  BY <1>0, <1>2, <1>3 DEF ClaimInv, ConfirmingInv, At, Owning, BeforeCall, Writing, Confirming
<1>7. ResolvingInv'
  BY <1>0, <1>2, <1>3 DEF ClaimInv, ResolvingInv, At
<1>8. OneOwner'
  BY <1>0, <1>3 DEF ClaimInv, OneOwner, At, Owning, BeforeCall, Writing, Confirming
<1>9. RowInv'
  BY <1>0, <1>1, <1>2 DEF ClaimInv, RowInv, Absent, Pending, FailedNoMutation, Uncertain, ResolvedPresent, ResolvedAbsent
<1>10. AuditInv'
  BY <1>0 DEF ClaimInv, AuditInv, At, Logged, Owning, BeforeCall
<1> QED
  BY <1>4, <1>5, <1>6, <1>7, <1>8, <1>9, <1>10 DEF ClaimInv

(* The other first write, RESOLVED_PRESENT: the owner goes on to confirm.  *)
LEMMA StoreSuccessKeeps ==
  ASSUME TypeOK, ClaimInv, NEW w \in Workers, NEW k \in Keys, NEW r \in Refs,
         StoreSuccess(w, k, r)
  PROVE  ClaimInv'
<1>0. /\ UNCHANGED <<chain, calls, applied>>
      /\ At(w, k, Writing) /\ worker[w].pc = "storeSuccess" /\ worker[w].ref = {r}
      /\ worker'[w].pc = "post" /\ worker'[w].key = {k} /\ worker'[w].ref = {r}
      /\ \A v \in Workers \ {w} : worker'[v] = worker[v]
  BY GotoEffect DEF StoreSuccess, KeyIs, At, Writing, TypeOK, Pc, AuditPc
<1>1. /\ data[k].status = Pending /\ calls[k] = 1
      /\ {r} \subseteq applied[k]
  BY <1>0 DEF ClaimInv, WritingInv
<1>2. /\ data'[k].status = ResolvedPresent /\ data'[k].ref = {r}
      /\ \A j \in Keys \ {k} : data'[j] = data[j]
  BY DEF StoreSuccess, SetRow, TypeOK, Row
<1>3. \A v \in Workers \ {w} : ~At(v, k, Owning) /\ ~At(v, k, {"resolve"})
  BY <1>0, <1>1 DEF ClaimInv, OneOwner, ResolvingInv, At, Owning, BeforeCall, Writing, Confirming, Absent, Pending, FailedNoMutation, Uncertain, ResolvedPresent, ResolvedAbsent
<1>4. BeforeCallInv'
  BY <1>0, <1>2, <1>3 DEF ClaimInv, BeforeCallInv, At, Owning, BeforeCall, Writing, Confirming
<1>5. WritingInv'
  BY <1>0, <1>2, <1>3 DEF ClaimInv, WritingInv, At, Owning, BeforeCall, Writing, Confirming
<1>6. ConfirmingInv'
  <2> SUFFICES ASSUME NEW v \in Workers, NEW j \in Keys, At(v, j, Confirming)'
               PROVE  (data[j].status = ResolvedPresent /\ data[j].ref = worker[v].ref)'
    BY DEF ConfirmingInv
  <2>1. CASE v = w
    <3>1. j = k
      BY <1>0, <2>1 DEF At
    <3> QED
      BY <1>0, <1>2, <2>1, <3>1
  <2>2. CASE v # w
    <3>1. At(v, j, Confirming) /\ j # k
      BY <1>0, <1>3, <2>2 DEF At, Owning
    <3> QED
      BY <1>0, <1>2, <2>2, <3>1 DEF ClaimInv, ConfirmingInv
  <2> QED
    BY <2>1, <2>2
<1>7. ResolvingInv'
  BY <1>0, <1>2, <1>3 DEF ClaimInv, ResolvingInv, At
<1>8. OneOwner'
  BY <1>0, <1>3 DEF ClaimInv, OneOwner, At, Owning, BeforeCall, Writing, Confirming
<1>9. RowInv'
  BY <1>0, <1>1, <1>2 DEF ClaimInv, RowInv, Absent, Pending, FailedNoMutation, Uncertain, ResolvedPresent, ResolvedAbsent
<1>10. AuditInv'
  BY <1>0 DEF ClaimInv, AuditInv, At, Logged, Owning, BeforeCall
<1> QED
  BY <1>4, <1>5, <1>6, <1>7, <1>8, <1>9, <1>10 DEF ClaimInv

(* A later write, the downgrade or a recovery: the row already is          *)
(* UNCERTAIN or PRESENT, and stays so with the same reference.             *)
LEMMA LaterWriteKeeps ==
  ASSUME TypeOK, ClaimInv, NEW w \in Workers, NEW k \in Keys,
         worker[w].pc \in {"downgrade", "resolve"}, KeyIs(w, k),
         NEW status \in {Uncertain, ResolvedPresent},
         worker[w].pc = "resolve" => status = ResolvedPresent,
         SetRow(k, status, worker[w].ref),
         UNCHANGED <<chain, calls, applied>>,
         worker'[w].pc \notin Owning \cup {"resolve"},
         \A v \in Workers \ {w} : worker'[v] = worker[v]
  PROVE  ClaimInv'
<1>1. /\ data[k].status \in {Uncertain, ResolvedPresent}
      /\ data[k].ref = worker[w].ref
  BY DEF ClaimInv, ConfirmingInv, ResolvingInv, KeyIs, At, Confirming
<1>2. /\ data'[k].status = status /\ data'[k].ref = data[k].ref
      /\ \A j \in Keys \ {k} : data'[j] = data[j]
  BY <1>1 DEF SetRow, TypeOK, Row
<1>3. \A v \in Workers : ~At(v, k, BeforeCall) /\ ~At(v, k, Writing)
  BY <1>1 DEF ClaimInv, BeforeCallInv, WritingInv, Absent, Pending, FailedNoMutation, Uncertain, ResolvedPresent, ResolvedAbsent
<1>4. BeforeCallInv' /\ WritingInv'
  BY <1>2, <1>3 DEF ClaimInv, BeforeCallInv, WritingInv, At, Owning, BeforeCall, Writing, Confirming
<1>5. ConfirmingInv'
  <2>1. ASSUME NEW v \in Workers, At(v, k, Confirming)' PROVE status = ResolvedPresent
    <3>1. v # w /\ At(v, k, Owning)
      BY <2>1 DEF At, Owning, BeforeCall, Writing, Confirming
    <3> QED
      BY <3>1 DEF ClaimInv, OneOwner, KeyIs, At, Owning, BeforeCall, Writing, Confirming
  <2> QED
    BY <1>2, <2>1 DEF ClaimInv, ConfirmingInv, At, Owning, BeforeCall, Writing, Confirming
<1>6. ResolvingInv'
  BY <1>2 DEF ClaimInv, ResolvingInv, At
<1>7. OneOwner'
  BY DEF ClaimInv, OneOwner, At, Owning, BeforeCall, Writing, Confirming
<1>8. RowInv'
  BY <1>1, <1>2 DEF ClaimInv, RowInv, Absent, Pending, FailedNoMutation, Uncertain, ResolvedPresent, ResolvedAbsent
<1>9. AuditInv'
  BY DEF ClaimInv, AuditInv, At, Logged, Owning, BeforeCall
<1> QED
  BY <1>4, <1>5, <1>6, <1>7, <1>8, <1>9 DEF ClaimInv

(* ClaimInv is inductive: one step per action.                             *)
LEMMA ClaimInvNext == TypeOK /\ ClaimInv /\ [Next]_vars => ClaimInv'
<1> SUFFICES ASSUME TypeOK, ClaimInv, [Next]_vars PROVE ClaimInv'
  OBVIOUS
<1>w. worker \in [Workers -> Call]
  BY DEF TypeOK
<1>1. ASSUME NEW w \in Workers, NEW k \in Keys, LeaseClaim(w, k) PROVE ClaimInv'
  BY <1>1, ReadsClaimInv DEF LeaseClaim
<1>2. ASSUME NEW w \in Workers, LeaseExpires(w) PROVE ClaimInv'
  BY <1>2, ReadsClaimInv DEF LeaseExpires
<1>3. ASSUME NEW w \in Workers, NEW k \in Keys, NEW p \in Payloads,
             NEW bound \in BOOLEAN, BeginExecute(w, k, p, bound)
      PROVE ClaimInv'
  <2>1. /\ worker'[w].pc = "register"
        /\ \A v \in Workers \ {w} : worker'[v] = worker[v]
        /\ UNCHANGED <<data, chain, calls, applied>>
    BY <1>3, <1>w DEF BeginExecute
  <2>2. worker'[w].pc \notin Owning \cup {"resolve"}
    BY <2>1 DEF Owning, BeforeCall, Writing, Confirming
  <2> QED
    BY <2>1, <2>2, LeavesClaimInv
<1>4. ASSUME NEW w \in Workers, NEW k \in Keys, RegisterFencing(w, k) PROVE ClaimInv'
  <2>1. /\ worker'[w].pc = "claim"
        /\ \A v \in Workers \ {w} : worker'[v] = worker[v]
        /\ UNCHANGED <<data, chain, calls, applied>>
    BY <1>4, <1>w, GotoEffect DEF RegisterFencing, Pc, StorePc
  <2>2. worker'[w].pc \notin Owning \cup {"resolve"}
    BY <2>1 DEF Owning, BeforeCall, Writing, Confirming
  <2> QED
    BY <2>1, <2>2, LeavesClaimInv
<1>5. ASSUME NEW w \in Workers, NEW k \in Keys, Claim(w, k) PROVE ClaimInv'
  BY <1>5, ClaimKeeps
<1>6. ASSUME NEW w \in Workers, NEW k \in Keys, RollbackClaim(w, k) PROVE ClaimInv'
  BY <1>6, RollbackKeeps
<1>7. ASSUME NEW w \in Workers, ReadHead(w) PROVE ClaimInv'
  <2>1. \A v \in Workers : /\ worker'[v].pc = worker[v].pc
                           /\ worker'[v].key = worker[v].key
                           /\ worker'[v].payload = worker[v].payload
                           /\ worker'[v].ref = worker[v].ref
    BY <1>7, <1>w DEF ReadHead, Call
  <2> QED
    BY <1>7, <2>1, ReadsClaimInv DEF ReadHead
<1>8. ASSUME NEW w \in Workers, NEW k \in Keys, Append_(w, k) PROVE ClaimInv'
  BY <1>8, AppendKeeps
<1>9. ASSUME NEW w \in Workers, AppendRejected(w) PROVE ClaimInv'
  BY <1>9, ReturnKeeps DEF AppendRejected
<1>10. ASSUME NEW w \in Workers, AppendFails(w) PROVE ClaimInv'
  BY <1>10, AppendFailsKeeps
<1>11. ASSUME NEW w \in Workers, NEW k \in Keys, NEW r \in Refs,
              ProviderReturns(w, k, r)
       PROVE ClaimInv'
  <2>1. /\ worker'[w].pc = "writeSuccess" /\ worker'[w].key = {k}
        /\ worker'[w].ref = {r}
        /\ \A v \in Workers \ {w} : worker'[v] = worker[v]
    BY <1>11, <1>w DEF ProviderReturns, KeyIs, Call
  <2>2. r \in applied'[k] /\ \A j \in Keys : applied[j] \subseteq applied'[j]
    BY <1>11 DEF ProviderReturns, TypeOK
  <2> QED
    BY <1>11, <2>1, <2>2, ProviderKeeps DEF ProviderReturns
<1>12. ASSUME NEW w \in Workers, NEW k \in Keys, ProviderFails(w, k) PROVE ClaimInv'
  <2>1. /\ worker'[w].pc = "writeFailure" /\ worker'[w].key = {k}
        /\ \A v \in Workers \ {w} : worker'[v] = worker[v]
    BY <1>12, <1>w, GotoEffect DEF ProviderFails, KeyIs, Pc, StorePc
  <2> QED
    BY <1>12, <2>1, ProviderKeeps DEF ProviderFails
<1>13. ASSUME NEW w \in Workers, NEW k \in Keys, NEW r \in Refs,
              ProviderTimesOut(w, k, r)
       PROVE ClaimInv'
  <2>1. /\ worker'[w].pc = "writeFailure" /\ worker'[w].key = {k}
        /\ \A v \in Workers \ {w} : worker'[v] = worker[v]
    BY <1>13, <1>w, GotoEffect DEF ProviderTimesOut, KeyIs, Pc, StorePc
  <2>2. \A j \in Keys : applied[j] \subseteq applied'[j]
    BY <1>13 DEF ProviderTimesOut, TypeOK
  <2> QED
    BY <1>13, <2>1, <2>2, ProviderKeeps DEF ProviderTimesOut
<1>14. ASSUME NEW w \in Workers, NEW k \in Keys, WriteFailure(w, k) PROVE ClaimInv'
  <2>1. CASE Full
    BY <1>14, <2>1, ReturnKeeps DEF WriteFailure
  <2>2. CASE ~Full
    <3>1. At(w, k, Writing)
      BY <1>14 DEF WriteFailure, KeyIs, At, Writing
    <3>2. /\ worker'[w].pc = "failedAudit"
          /\ \A v \in Workers \ {w} : worker'[v] = worker[v]
      BY <1>14, <2>2, <1>w, GotoEffect DEF WriteFailure, Pc, AuditPc
    <3>3. worker'[w].pc \notin Owning \cup {"resolve"}
      BY <3>2 DEF Owning, BeforeCall, Writing, Confirming
    <3>4. SetRow(k, FailedNoMutation, {}) /\ UNCHANGED <<chain, calls, applied>>
      BY <1>14, <2>2 DEF WriteFailure
    <3> QED
      BY <3>1, <3>2, <3>3, <3>4, FirstWriteKeeps DEF FailedNoMutation, Uncertain
  <2> QED
    BY <2>1, <2>2
<1>15. ASSUME NEW w \in Workers, NEW k \in Keys, NEW r \in Refs,
              CheckCollision(w, k, r)
       PROVE ClaimInv'
  <2>0. UNCHANGED <<data, chain, calls, applied>>
    BY <1>15 DEF CheckCollision
  <2>1. CASE Return(w)
    BY <2>0, <2>1, ReturnKeeps
  <2>2. CASE Goto(w, "storeSuccess")
    <3>1. /\ worker'[w].pc = "storeSuccess" /\ worker[w].pc = "writeSuccess"
          /\ worker'[w].key = worker[w].key /\ worker'[w].ref = worker[w].ref
          /\ \A v \in Workers \ {w} : worker'[v] = worker[v]
      BY <1>15, <2>2, <1>w, GotoEffect DEF CheckCollision, Pc, StorePc
    <3>2. BeforeCallInv' /\ WritingInv'
      BY <2>0, <3>1 DEF ClaimInv, BeforeCallInv, WritingInv, At, BeforeCall, Writing
    <3>3. ConfirmingInv' /\ ResolvingInv'
      BY <2>0, <3>1 DEF ClaimInv, ConfirmingInv, ResolvingInv, At, Confirming
    <3>4. OneOwner'
      BY <3>1 DEF ClaimInv, OneOwner, At, Owning, BeforeCall, Writing, Confirming
    <3>5. RowInv' /\ AuditInv'
      BY <2>0, <3>1 DEF ClaimInv, RowInv, AuditInv, At, Logged
    <3> QED
      BY <3>2, <3>3, <3>4, <3>5 DEF ClaimInv
  <2> QED
    BY <1>15, <2>1, <2>2 DEF CheckCollision
<1>16. ASSUME NEW w \in Workers, NEW k \in Keys, NEW r \in Refs,
              WriteSuccessFails(w, k, r)
       PROVE ClaimInv'
  <2>1. At(w, k, Writing) /\ worker[w].pc # "writeFailure" /\ worker[w].ref = {r}
    BY <1>16 DEF WriteSuccessFails, KeyIs, At, Writing
  <2>2. /\ worker'[w].pc = "lostWriteAudit"
        /\ \A v \in Workers \ {w} : worker'[v] = worker[v]
    BY <1>16, <1>w, GotoEffect DEF WriteSuccessFails, Pc, AuditPc
  <2>3. worker'[w].pc \notin Owning \cup {"resolve"}
    BY <2>2 DEF Owning, BeforeCall, Writing, Confirming
  <2>4. SetRow(k, Uncertain, {r}) /\ UNCHANGED <<chain, calls, applied>>
    BY <1>16 DEF WriteSuccessFails
  <2> QED
    BY <2>1, <2>2, <2>3, <2>4, FirstWriteKeeps
<1>17. ASSUME NEW w \in Workers, NEW k \in Keys, NEW r \in Refs,
              StoreSuccess(w, k, r)
       PROVE ClaimInv'
  BY <1>17, StoreSuccessKeeps
<1>18. ASSUME NEW w \in Workers, NEW k \in Keys, Downgrade(w, k) PROVE ClaimInv'
  <2>1. CASE Full
    BY <1>18, <2>1, ReturnKeeps DEF Downgrade, StoreResolve
  <2>2. CASE ~Full
    <3>1. /\ worker'[w].pc = "uncertainAudit"
          /\ \A v \in Workers \ {w} : worker'[v] = worker[v]
      BY <1>18, <2>2, <1>w, GotoEffect DEF Downgrade, StoreResolve, Pc, AuditPc
    <3>2. worker'[w].pc \notin Owning \cup {"resolve"}
      BY <3>1 DEF Owning, BeforeCall, Writing, Confirming
    <3>3. /\ SetRow(k, Uncertain, worker[w].ref) /\ UNCHANGED <<chain, calls, applied>>
          /\ worker[w].pc = "downgrade" /\ KeyIs(w, k)
      BY <1>18, <2>2 DEF Downgrade, StoreResolve
    <3> QED
      BY <3>1, <3>2, <3>3, LaterWriteKeeps
  <2> QED
    BY <2>1, <2>2
<1>19. ASSUME NEW w \in Workers, NEW k \in Keys, BeginRecover(w, k) PROVE ClaimInv'
  <2>1. /\ worker'[w].pc = "readBack"
        /\ \A v \in Workers \ {w} : worker'[v] = worker[v]
        /\ UNCHANGED <<data, chain, calls, applied>>
    BY <1>19, <1>w DEF BeginRecover, Idle
  <2>2. worker'[w].pc \notin Owning \cup {"resolve"}
    BY <2>1 DEF Owning, BeforeCall, Writing, Confirming
  <2> QED
    BY <2>1, <2>2, LeavesClaimInv
<1>20. ASSUME NEW w \in Workers, NEW k \in Keys, ReadBack(w, k) PROVE ClaimInv'
  <2>1. CASE data[k].status # Uncertain
    BY <1>20, <2>1, ReturnKeeps DEF ReadBack
  <2>2. CASE data[k].status = Uncertain
    <3>1. /\ worker'[w].pc = "resolve" /\ worker'[w].key = {k}
          /\ worker'[w].ref = data[k].ref
          /\ \A v \in Workers \ {w} : worker'[v] = worker[v]
          /\ UNCHANGED <<data, chain, calls, applied>>
      BY <1>20, <2>2, <1>w DEF ReadBack, KeyIs, Call
    <3>2. BeforeCallInv' /\ WritingInv'
      BY <3>1 DEF ClaimInv, BeforeCallInv, WritingInv, At, BeforeCall, Writing
    <3>3. ConfirmingInv' /\ ResolvingInv'
      BY <2>2, <3>1 DEF ClaimInv, ConfirmingInv, ResolvingInv, At, Confirming
    <3>4. OneOwner'
      BY <3>1 DEF ClaimInv, OneOwner, At, Owning, BeforeCall, Writing, Confirming
    <3>5. RowInv' /\ AuditInv'
      BY <3>1 DEF ClaimInv, RowInv, AuditInv, At, Logged
    <3> QED
      BY <3>2, <3>3, <3>4, <3>5 DEF ClaimInv
  <2> QED
    BY <2>1, <2>2
<1>21. ASSUME NEW w \in Workers, NEW k \in Keys, Resolve(w, k) PROVE ClaimInv'
  <2>1. CASE Full
    BY <1>21, <2>1, ReturnKeeps DEF Resolve, StoreResolve
  <2>2. CASE ~Full
    <3>0. worker[w].ref # {}
      BY <1>21 DEF Resolve, KeyIs, ClaimInv, ResolvingInv, RowInv, At
    <3>1. /\ worker'[w].pc = "recoveryAudit"
          /\ \A v \in Workers \ {w} : worker'[v] = worker[v]
      BY <1>21, <2>2, <1>w, GotoEffect DEF Resolve, StoreResolve, Pc, AuditPc
    <3>2. worker'[w].pc \notin Owning \cup {"resolve"}
      BY <3>1 DEF Owning, BeforeCall, Writing, Confirming
    <3>3. /\ SetRow(k, ResolvedPresent, worker[w].ref)
          /\ UNCHANGED <<chain, calls, applied>>
          /\ worker[w].pc = "resolve" /\ KeyIs(w, k)
      BY <1>21, <2>2, <3>0 DEF Resolve, StoreResolve
    <3> QED
      BY <3>1, <3>2, <3>3, LaterWriteKeeps
  <2> QED
    BY <2>1, <2>2
<1>22. ASSUME NEW w \in Workers, WorkerDies(w) PROVE ClaimInv'
  BY <1>22, ReturnKeeps DEF WorkerDies
<1>23. CASE UNCHANGED vars
  BY <1>23, ReadsClaimInv DEF vars
<1>24. CASE OtherKeys
  BY <1>24, ReadsClaimInv DEF OtherKeys
<1> QED
  BY <1>1, <1>2, <1>3, <1>4, <1>5, <1>6, <1>7, <1>8, <1>9, <1>10, <1>11, <1>12,
     <1>13, <1>14, <1>15, <1>16, <1>17, <1>18, <1>19, <1>20, <1>21, <1>22, <1>23,
     <1>24
  DEF Next, Execute, Recover

-----------------------------------------------------------------------------
(* The theorems.                                                           *)

(* ClaimInv is an invariant: ownership of a claimed row is exclusive and   *)
(* every recorded outcome is backed by exactly one provider call.          *)
THEOREM ClaimSafety == Spec => []ClaimInv
BY TypeInit, TypeNext, ClaimInvInit, ClaimInvNext, PTL DEF Spec

(* The executor never calls the provider twice for one key, for any number *)
(* of workers, retries, rollbacks, crashes and audit or store failures.    *)
THEOREM AtMostOnce == Spec => []ProviderAtMostOnce
<1>1. ClaimInv => ProviderAtMostOnce
  BY DEF ClaimInv, RowInv, ProviderAtMostOnce
<1> QED
  BY <1>1, ClaimSafety, PTL

(* No provider call without a pre_mutation event of its key in the chain.  *)
THEOREM FailClosedAudit == Spec => []AuditBeforeProvider
<1>1. ClaimInv => AuditBeforeProvider
  BY DEF ClaimInv, AuditInv, AuditBeforeProvider
<1> QED
  BY <1>1, ClaimSafety, PTL

(* The provider is called with the payload the claim is bound to.          *)
THEOREM PayloadBinding == Spec => []CallsClaimedPayload
<1>1. ClaimInv => CallsClaimedPayload
  BY DEF ClaimInv, BeforeCallInv, CallsClaimedPayload, At, KeyIs, BeforeCall
<1> QED
  BY <1>1, ClaimSafety, PTL

(* UNCERTAIN and RESOLVED_PRESENT rows carry a reference the provider      *)
(* issued for that key, so recovery has something true to read back.       *)
THEOREM RealOutcomes == Spec => []ReferencesAreReal
<1>1. ClaimInv => ReferencesAreReal
  BY DEF ClaimInv, RowInv, ReferencesAreReal
<1> QED
  BY <1>1, ClaimSafety, PTL

(* The steps that leave the rows, the calls and the effects alone.         *)
Quiet(w) ==
  \/ LeaseExpires(w) \/ ReadHead(w) \/ AppendRejected(w) \/ AppendFails(w)
  \/ WorkerDies(w)
  \/ \E k \in Keys :
       \/ LeaseClaim(w, k) \/ RegisterFencing(w, k) \/ Append_(w, k)
       \/ BeginRecover(w, k) \/ ReadBack(w, k)
       \/ \E r \in Refs : CheckCollision(w, k, r)
       \/ \E p \in Payloads, bound \in BOOLEAN : BeginExecute(w, k, p, bound)

(* A quiet step changes none of them.                                      *)
LEMMA QuietSteps ==
  ASSUME NEW w \in Workers, Quiet(w)
  PROVE  UNCHANGED <<data, calls, applied>>
<1>1. ASSUME \/ LeaseExpires(w) \/ ReadHead(w) \/ AppendRejected(w)
             \/ AppendFails(w) \/ WorkerDies(w)
      PROVE  UNCHANGED <<data, calls, applied>>
  BY <1>1 DEF LeaseExpires, ReadHead, AppendRejected, AppendFails, WorkerDies
<1>2. ASSUME NEW k \in Keys,
             \/ LeaseClaim(w, k) \/ RegisterFencing(w, k) \/ Append_(w, k)
             \/ BeginRecover(w, k) \/ ReadBack(w, k)
      PROVE  UNCHANGED <<data, calls, applied>>
  BY <1>2 DEF LeaseClaim, RegisterFencing, Append_, BeginRecover, ReadBack
<1>3. ASSUME NEW k \in Keys, NEW r \in Refs, CheckCollision(w, k, r)
      PROVE  UNCHANGED <<data, calls, applied>>
  BY <1>3 DEF CheckCollision
<1>4. ASSUME NEW k \in Keys, NEW p \in Payloads, NEW bound \in BOOLEAN,
             BeginExecute(w, k, p, bound)
      PROVE  UNCHANGED <<data, calls, applied>>
  BY <1>4 DEF BeginExecute
<1> QED
  BY <1>1, <1>2, <1>3, <1>4 DEF Quiet

(* Every step is quiet, one of the writes and provider calls, or one of    *)
(* the other keys, which is as quiet.                                      *)
LEMMA NextCases ==
  ASSUME Next
  PROVE  \/ UNCHANGED <<data, calls, applied>>
         \/ \E w \in Workers :
              \/ Quiet(w)
              \/ \E k \in Keys :
                   \/ Claim(w, k) \/ RollbackClaim(w, k) \/ WriteFailure(w, k)
                   \/ Downgrade(w, k) \/ Resolve(w, k) \/ ProviderFails(w, k)
                   \/ \E r \in Refs :
                        \/ ProviderReturns(w, k, r) \/ ProviderTimesOut(w, k, r)
                        \/ WriteSuccessFails(w, k, r) \/ StoreSuccess(w, k, r)
<1>1. OtherKeys => UNCHANGED <<data, calls, applied>>
  BY DEF OtherKeys
<1> QED
  BY <1>1 DEF Next, Execute, Recover, Quiet

(* A row that changes by one write is a legal step of every outcome.       *)
LEMMA RowStep ==
  ASSUME TypeOK, NEW k \in Keys, NEW status, NEW ref, SetRow(k, status, ref),
         \/ data[k].status = Pending
         \/ /\ <<data[k].status, status>> \in {<<ResolvedPresent, Uncertain>>,
                                               <<Uncertain, ResolvedPresent>>}
            /\ ref = data[k].ref
         \/ data[k].status = status /\ ref = data[k].ref
  PROVE  \A j \in Keys : OutcomeStep(data[j], data'[j])
<1>1. data \in [Keys -> Row]
  BY DEF TypeOK
<1>2. ASSUME NEW j \in Keys, j # k PROVE data'[j] = data[j]
  BY <1>1, <1>2 DEF SetRow
<1>3. /\ data'[k].status = status /\ data'[k].ref = ref
      /\ data'[k].payload = data[k].payload
      /\ data[k].status = status /\ data[k].ref = ref => data'[k] = data[k]
  BY <1>1 DEF SetRow, Row
<1> QED
  BY <1>2, <1>3 DEF OutcomeStep

(* Every step develops every outcome only in the allowed ways.             *)
LEMMA OutcomeNext ==
  TypeOK /\ ClaimInv /\ [Next]_vars => \A j \in Keys : OutcomeStep(data[j], data'[j])
<1> SUFFICES ASSUME TypeOK, ClaimInv, [Next]_vars, UNCHANGED data \/ Next
             PROVE  \A j \in Keys : OutcomeStep(data[j], data'[j])
  BY DEF vars
<1>t. data \in [Keys -> Row]
  BY DEF TypeOK
<1>1. CASE UNCHANGED data
  BY <1>1 DEF OutcomeStep
<1>2. ASSUME NEW w \in Workers, NEW k \in Keys, Claim(w, k)
      PROVE  \A j \in Keys : OutcomeStep(data[j], data'[j])
  <2>1. CASE ~Full /\ data[k].status = Absent
    <3>1. data' = [data EXCEPT ![k] = [status |-> Pending,
                                       payload |-> worker[w].payload, ref |-> {}]]
      BY <1>2, <2>1 DEF Claim
    <3>2. data'[k].status = Pending /\ \A j \in Keys \ {k} : data'[j] = data[j]
      BY <3>1, <1>t
    <3> QED
      BY <2>1, <3>2 DEF OutcomeStep
  <2> QED
    BY <1>2, <2>1, <1>1 DEF Claim
<1>3. ASSUME NEW w \in Workers, NEW k \in Keys, RollbackClaim(w, k)
      PROVE  \A j \in Keys : OutcomeStep(data[j], data'[j])
  <2>1. CASE data[k].status = Pending
    <3>1. \A j \in Keys \ {k} : data'[j] = data[j]
      BY <1>3, <2>1, <1>t DEF RollbackClaim
    <3> QED
      BY <2>1, <3>1 DEF OutcomeStep
  <2> QED
    BY <1>3, <2>1, <1>1 DEF RollbackClaim
<1>4. ASSUME NEW w \in Workers, NEW k \in Keys, WriteFailure(w, k)
      PROVE  \A j \in Keys : OutcomeStep(data[j], data'[j])
  <2>1. data[k].status = Pending
    BY <1>4 DEF WriteFailure, ClaimInv, WritingInv, At, Writing, KeyIs
  <2> QED
    BY <1>4, <2>1, <1>1, RowStep DEF WriteFailure
<1>5. ASSUME NEW w \in Workers, NEW k \in Keys, NEW r \in Refs,
             WriteSuccessFails(w, k, r) \/ StoreSuccess(w, k, r)
      PROVE  \A j \in Keys : OutcomeStep(data[j], data'[j])
  <2>1. data[k].status = Pending
    BY <1>5 DEF WriteSuccessFails, StoreSuccess, ClaimInv, WritingInv, At, Writing, KeyIs
  <2> QED
    BY <1>5, <2>1, RowStep DEF WriteSuccessFails, StoreSuccess
<1>6. ASSUME NEW w \in Workers, NEW k \in Keys, Downgrade(w, k)
      PROVE  \A j \in Keys : OutcomeStep(data[j], data'[j])
  <2>1. data[k].status = ResolvedPresent /\ data[k].ref = worker[w].ref
    BY <1>6 DEF Downgrade, ClaimInv, ConfirmingInv, At, Confirming, KeyIs
  <2> QED
    BY <1>6, <2>1, <1>1, RowStep DEF Downgrade, StoreResolve
<1>7. ASSUME NEW w \in Workers, NEW k \in Keys, Resolve(w, k)
      PROVE  \A j \in Keys : OutcomeStep(data[j], data'[j])
  <2>1. /\ data[k].status \in {Uncertain, ResolvedPresent}
        /\ data[k].ref = worker[w].ref
    BY <1>7 DEF Resolve, ClaimInv, ResolvingInv, At, KeyIs
  <2>2. worker[w].ref # {}
    BY <2>1 DEF ClaimInv, RowInv
  <2>3. UNCHANGED data \/ SetRow(k, ResolvedPresent, worker[w].ref)
    BY <1>7, <2>2 DEF Resolve, StoreResolve
  <2> QED
    BY <2>1, <2>3, <1>1, RowStep
<1>8. ASSUME NEW w \in Workers, Quiet(w) PROVE UNCHANGED data
  BY <1>8, QuietSteps
<1>9. ASSUME NEW w \in Workers, NEW k \in Keys, ProviderFails(w, k)
      PROVE  UNCHANGED data
  BY <1>9 DEF ProviderFails
<1>10. ASSUME NEW w \in Workers, NEW k \in Keys, NEW r \in Refs,
              ProviderReturns(w, k, r) \/ ProviderTimesOut(w, k, r)
       PROVE  UNCHANGED data
  BY <1>10 DEF ProviderReturns, ProviderTimesOut
<1> QED
  BY <1>1, <1>2, <1>3, <1>4, <1>5, <1>6, <1>7, <1>8, <1>9, <1>10, NextCases

(* Outcomes never regress, also when recoveries race: a row disappears     *)
(* only while PENDING, and a reference once recorded is kept.              *)
THEOREM OutcomesDevelop == Spec => OutcomeProgress
<1>1. TypeOK /\ ClaimInv /\ [Next]_vars =>
        [\A k \in Keys : OutcomeStep(data[k], data'[k])]_data
  BY OutcomeNext
<1> QED
  BY <1>1, TypeCorrect, ClaimSafety, PTL DEF Spec, OutcomeProgress

-----------------------------------------------------------------------------
(* The refinement rests on two more facts: a row without a successful      *)
(* first write names no reference, and no effect precedes the call.        *)
ShapeInv ==
  \A k \in Keys :
    /\ data[k].status \in {Absent, Pending, FailedNoMutation} => data[k].ref = {}
    /\ calls[k] = 0 => applied[k] = {}

(* Both hold of the empty store.                                           *)
LEMMA ShapeInit == Init => ShapeInv
BY DEF Init, ShapeInv, NoRow

(* A step that writes one row with a reference that fits its status keeps  *)
(* ShapeInv.                                                               *)
LEMMA ShapeRow ==
  ASSUME TypeOK, ShapeInv, NEW k \in Keys, NEW status, NEW ref,
         SetRow(k, status, ref), UNCHANGED <<calls, applied>>,
         status \in {Absent, Pending, FailedNoMutation} => ref = {}
  PROVE  ShapeInv'
<1>1. /\ data'[k].status = status /\ data'[k].ref = ref
      /\ \A j \in Keys \ {k} : data'[j] = data[j]
  BY DEF SetRow, TypeOK, Row
<1> QED
  BY <1>1 DEF ShapeInv

(* Every step keeps ShapeInv.                                              *)
LEMMA ShapeNext == TypeOK /\ ShapeInv /\ [Next]_vars => ShapeInv'
<1> SUFFICES ASSUME TypeOK, ShapeInv, [Next]_vars PROVE ShapeInv'
  OBVIOUS
<1>t. data \in [Keys -> Row] /\ calls \in [Keys -> Nat]
      /\ applied \in [Keys -> SUBSET Refs]
  BY DEF TypeOK
<1>1. CASE UNCHANGED <<data, calls, applied>>
  BY <1>1 DEF ShapeInv
<1>2. ASSUME NEW w \in Workers, NEW k \in Keys, Claim(w, k) \/ RollbackClaim(w, k)
      PROVE  ShapeInv'
  <2>1. /\ UNCHANGED <<calls, applied>>
        /\ \/ UNCHANGED data
           \/ data' = [data EXCEPT ![k] = NoRow]
           \/ data' = [data EXCEPT ![k] = [status |-> Pending, ref |-> {},
                                           payload |-> worker[w].payload]]
    BY <1>2 DEF Claim, RollbackClaim
  <2>2. data'[k] = data[k] \/ data'[k].ref = {}
    BY <2>1, <1>t DEF NoRow
  <2>3. \A j \in Keys \ {k} : data'[j] = data[j]
    BY <2>1, <1>t
  <2> QED
    BY <2>1, <2>2, <2>3 DEF ShapeInv
<1>3. ASSUME NEW w \in Workers, NEW k \in Keys,
             WriteFailure(w, k) \/ Downgrade(w, k) \/ Resolve(w, k)
      PROVE  ShapeInv'
  <2>1. /\ UNCHANGED <<calls, applied>>
        /\ \/ UNCHANGED data
           \/ SetRow(k, FailedNoMutation, {})
           \/ \E status \in {Uncertain, ResolvedPresent, ResolvedAbsent} :
                SetRow(k, status, worker[w].ref)
    BY <1>3 DEF WriteFailure, Downgrade, Resolve, StoreResolve
  <2>2. {Uncertain, ResolvedPresent, ResolvedAbsent}
          \cap {Absent, Pending, FailedNoMutation} = {}
    BY DEF Uncertain, ResolvedPresent, ResolvedAbsent, Absent, Pending, FailedNoMutation
  <2> QED
    BY <2>1, <2>2, <1>1, ShapeRow
<1>4. ASSUME NEW w \in Workers, NEW k \in Keys, NEW r \in Refs,
             WriteSuccessFails(w, k, r) \/ StoreSuccess(w, k, r)
      PROVE  ShapeInv'
  <2>1. {Uncertain, ResolvedPresent} \cap {Absent, Pending, FailedNoMutation} = {}
    BY DEF Uncertain, ResolvedPresent, Absent, Pending, FailedNoMutation
  <2> QED
    BY <1>4, <2>1, ShapeRow DEF WriteSuccessFails, StoreSuccess
<1>5. ASSUME NEW w \in Workers, NEW k \in Keys,
             UNCHANGED data, calls' = [calls EXCEPT ![k] = @ + 1],
             \A j \in Keys \ {k} : applied'[j] = applied[j]
      PROVE  ShapeInv'
  <2>1. calls'[k] # 0 /\ \A j \in Keys \ {k} : calls'[j] = calls[j]
    BY <1>5, <1>t
  <2> QED
    BY <1>5, <2>1 DEF ShapeInv
<1>6. ASSUME NEW w \in Workers, NEW k \in Keys, NEW r \in Refs,
             \/ ProviderReturns(w, k, r) \/ ProviderTimesOut(w, k, r)
             \/ ProviderFails(w, k)
      PROVE  ShapeInv'
  <2>1. /\ UNCHANGED data
        /\ calls' = [calls EXCEPT ![k] = @ + 1]
        /\ UNCHANGED applied \/ applied' = [applied EXCEPT ![k] = @ \cup {r}]
    BY <1>6 DEF ProviderReturns, ProviderTimesOut, ProviderFails
  <2>2. \A j \in Keys \ {k} : applied'[j] = applied[j]
    BY <2>1, <1>t
  <2> QED
    BY <2>1, <2>2, <1>5
<1>7. ASSUME NEW w \in Workers, NEW k \in Keys, ProviderFails(w, k)
      PROVE  ShapeInv'
  BY <1>7, <1>5 DEF ProviderFails
<1>8. ASSUME NEW w \in Workers, Quiet(w) PROVE ShapeInv'
  BY <1>8, <1>1, QuietSteps
<1> QED
  BY <1>2, <1>3, <1>4, <1>6, <1>7, <1>8, <1>1, NextCases DEF vars

(* The refinement. A step that leaves rows, calls and effects alone is a   *)
(* stuttering step of the contract.                                        *)
LEMMA ContractStutters ==
  ASSUME UNCHANGED <<data, calls, applied>>
  PROVE  UNCHANGED Contract!contractVars
BY DEF Contract!contractVars

(* How the contract sees a step that changes one row.                      *)
LEMMA ContractRow ==
  ASSUME NEW k \in Keys, NEW status, NEW ref,
         data'[k].status = status, data'[k].ref = ref,
         \A j \in Keys \ {k} : data'[j] = data[j],
         UNCHANGED <<calls, applied>>
  PROVE  /\ [j \in Keys |-> data[j].status]' =
              [[j \in Keys |-> data[j].status] EXCEPT ![k] = status]
         /\ [j \in Keys |-> data[j].ref]' =
              [[j \in Keys |-> data[j].ref] EXCEPT ![k] = ref]
         /\ ref = data[k].ref => UNCHANGED [j \in Keys |-> data[j].ref]
         /\ UNCHANGED <<[j \in Keys |-> calls[j] > 0], applied>>
OBVIOUS

(* The same for a write of a status and a reference.                       *)
LEMMA ContractSetRow ==
  ASSUME TypeOK, NEW k \in Keys, NEW status, NEW ref,
         SetRow(k, status, ref), UNCHANGED <<calls, applied>>
  PROVE  /\ [j \in Keys |-> data[j].status]' =
              [[j \in Keys |-> data[j].status] EXCEPT ![k] = status]
         /\ [j \in Keys |-> data[j].ref]' =
              [[j \in Keys |-> data[j].ref] EXCEPT ![k] = ref]
         /\ ref = data[k].ref => UNCHANGED [j \in Keys |-> data[j].ref]
         /\ UNCHANGED <<[j \in Keys |-> calls[j] > 0], applied>>
<1>1. /\ data'[k].status = status /\ data'[k].ref = ref
      /\ \A j \in Keys \ {k} : data'[j] = data[j]
  BY DEF SetRow, TypeOK, Row
<1> QED
  BY <1>1, ContractRow

(* A first write of an outcome settles the contract.                       *)
LEMMA SettleStep ==
  ASSUME TypeOK, ShapeInv, NEW k \in Keys, NEW status, NEW ref,
         SetRow(k, status, ref), UNCHANGED <<calls, applied>>,
         data[k].status = Pending, calls[k] = 1,
         \/ status = FailedNoMutation /\ ref = {}
         \/ /\ status \in {Uncertain, ResolvedPresent}
            /\ \E r \in applied[k] : ref = {r}
  PROVE  Contract!Settle(k)
<1>1. calls[k] > 0
  OBVIOUS
<1>2. data[k].ref = {}
  BY DEF ShapeInv
<1>3. CASE status = FailedNoMutation /\ ref = {}
  BY <1>1, <1>2, <1>3, ContractSetRow DEF Contract!Settle, Pending, FailedNoMutation
<1>4. CASE /\ status \in {Uncertain, ResolvedPresent}
           /\ \E r \in applied[k] : ref = {r}
  <2>1. PICK r \in applied[k] : ref = {r}
    BY <1>4
  <2>2. /\ [j \in Keys |-> data[j].status]' =
             [[j \in Keys |-> data[j].status] EXCEPT ![k] = status]
        /\ [j \in Keys |-> data[j].ref]' =
             [[j \in Keys |-> data[j].ref] EXCEPT ![k] = {r}]
        /\ UNCHANGED <<[j \in Keys |-> calls[j] > 0], applied>>
    <3>1. /\ data'[k].status = status /\ data'[k].ref = {r}
          /\ \A j \in Keys \ {k} : data'[j] = data[j]
      BY <2>1 DEF SetRow, TypeOK, Row
    <3> QED
      BY <3>1
  <2>3. /\ [j \in Keys |-> data[j].status][k] = "PENDING"
        /\ [j \in Keys |-> calls[j] > 0][k]
        /\ status \in {"UNCERTAIN", "RESOLVED_PRESENT"}
    BY <1>1, <1>4 DEF Pending, Uncertain, ResolvedPresent
  <2> QED
    BY <2>1, <2>2, <2>3, Zenon DEF Contract!Settle
<1> QED
  BY <1>3, <1>4

(* A later write revises the contract or leaves it alone.                  *)
LEMMA ReviseStep ==
  ASSUME TypeOK, NEW k \in Keys, NEW status,
         SetRow(k, status, data[k].ref), UNCHANGED <<calls, applied>>,
         \/ data[k].status = ResolvedPresent /\ status = Uncertain
         \/ /\ data[k].status \in {Uncertain, ResolvedPresent}
            /\ status = ResolvedPresent
  PROVE  Contract!Revise(k) \/ UNCHANGED Contract!contractVars
<1>1. CASE data[k].status = status
  <2>1. UNCHANGED [j \in Keys |-> data[j].status]
    <3>1. /\ data'[k].status = status
          /\ \A j \in Keys \ {k} : data'[j] = data[j]
      BY DEF SetRow, TypeOK, Row
    <3> QED
      BY <1>1, <3>1
  <2> QED
    BY <2>1, ContractSetRow DEF Contract!contractVars
<1>2. CASE data[k].status # status
  <2>1. /\ [j \in Keys |-> data[j].status]' =
             [[j \in Keys |-> data[j].status] EXCEPT ![k] = status]
        /\ UNCHANGED [j \in Keys |-> data[j].ref]
        /\ UNCHANGED <<[j \in Keys |-> calls[j] > 0], applied>>
    BY ContractSetRow
  <2>2. \/ /\ [j \in Keys |-> data[j].status][k] = "RESOLVED_PRESENT"
           /\ status = "UNCERTAIN"
        \/ /\ [j \in Keys |-> data[j].status][k] = "UNCERTAIN"
           /\ status = "RESOLVED_PRESENT"
    BY <1>2 DEF Uncertain, ResolvedPresent
  <2> QED
    BY <2>1, <2>2, Zenon DEF Contract!Revise
<1> QED
  BY <1>1, <1>2

(* The one call of the provider for a key is the contract's.               *)
LEMMA CallStep ==
  ASSUME TypeOK, ClaimInv, ShapeInv, NEW w \in Workers, NEW k \in Keys,
         worker[w].pc = "provider", KeyIs(w, k), UNCHANGED data,
         calls' = [calls EXCEPT ![k] = @ + 1],
         \/ UNCHANGED applied
         \/ \E r \in Refs : applied' = [applied EXCEPT ![k] = @ \cup {r}]
  PROVE  Contract!CallProvider(k)
<1>1. data[k].status = Pending /\ calls[k] = 0
  BY DEF ClaimInv, BeforeCallInv, At, BeforeCall, KeyIs
<1>2. applied[k] = {}
  BY <1>1 DEF ShapeInv
<1>3. [j \in Keys |-> calls[j] > 0]' = [[j \in Keys |-> calls[j] > 0] EXCEPT ![k] = TRUE]
  <2> DEFINE f == [j \in Keys |-> calls[j] > 0]
             g == [j \in Keys |-> calls'[j] > 0]
  <2>1. calls'[k] > 0 /\ \A j \in Keys \ {k} : calls'[j] = calls[j]
    BY <1>1 DEF TypeOK
  <2>2. \A j \in Keys : g[j] = [f EXCEPT ![k] = TRUE][j]
    <3>1. (calls'[k] > 0) = TRUE
      BY <2>1
    <3>2. ASSUME NEW j \in Keys, j # k PROVE (calls'[j] > 0) = (calls[j] > 0)
      BY <2>1, <3>2
    <3> QED
      BY <3>1, <3>2, Zenon
  <2>3. g = [f EXCEPT ![k] = TRUE]
    BY <2>2, Zenon
  <2> QED
    BY <2>3
<1>4. \/ applied' = applied
      \/ \E r \in Refs : applied' = [applied EXCEPT ![k] = {r}]
  BY <1>2 DEF TypeOK
<1>5. ~(calls[k] > 0)
  BY <1>1
<1> QED
  BY <1>1, <1>3, <1>4, <1>5 DEF Contract!CallProvider, Pending

(* Every step of the executor is a step of the contract or a stutter.      *)
LEMMA ContractStep ==
  TypeOK /\ ClaimInv /\ ShapeInv /\ [Next]_vars =>
    [Contract!ContractNext]_(Contract!contractVars)
<1> SUFFICES ASSUME TypeOK, ClaimInv, ShapeInv, [Next]_vars
             PROVE  Contract!ContractNext \/ UNCHANGED Contract!contractVars
  OBVIOUS
<1>1. ASSUME NEW w \in Workers, NEW k \in Keys, Claim(w, k)
      PROVE  Contract!Accept(k) \/ UNCHANGED Contract!contractVars
  <2>1. CASE ~Full /\ data[k].status = Absent
    <3>1. /\ data' = [data EXCEPT ![k] = [status |-> Pending, ref |-> {},
                                          payload |-> worker[w].payload]]
          /\ UNCHANGED <<calls, applied>>
      BY <1>1, <2>1 DEF Claim
    <3>2. data[k].ref = {}
      BY <2>1 DEF ShapeInv
    <3>3. /\ [j \in Keys |-> data[j].status]' =
               [[j \in Keys |-> data[j].status] EXCEPT ![k] = "PENDING"]
          /\ UNCHANGED [j \in Keys |-> data[j].ref]
          /\ UNCHANGED <<[j \in Keys |-> calls[j] > 0], applied>>
      <4>1. /\ data'[k].status = "PENDING" /\ data'[k].ref = data[k].ref
            /\ \A j \in Keys \ {k} : data'[j] = data[j]
        BY <3>1, <3>2 DEF TypeOK, Pending
      <4> QED
        BY <3>1, <4>1, ContractRow
    <3>4. [j \in Keys |-> data[j].status][k] = "ABSENT"
      BY <2>1 DEF Absent
    <3> QED
      BY <3>3, <3>4, Zenon DEF Contract!Accept
  <2> QED
    BY <1>1, <2>1, ContractStutters DEF Claim
<1>2. ASSUME NEW w \in Workers, NEW k \in Keys, RollbackClaim(w, k)
      PROVE  Contract!GiveUp(k)
  <2>1. data[k].status = Pending /\ calls[k] = 0
    BY <1>2 DEF RollbackClaim, ClaimInv, BeforeCallInv, At, BeforeCall, KeyIs
  <2>2. data' = [data EXCEPT ![k] = NoRow] /\ UNCHANGED <<calls, applied>>
    BY <1>2, <2>1 DEF RollbackClaim
  <2>3. data[k].ref = {} /\ ~(calls[k] > 0)
    BY <2>1 DEF ShapeInv
  <2>4. /\ [j \in Keys |-> data[j].status]' =
             [[j \in Keys |-> data[j].status] EXCEPT ![k] = "ABSENT"]
        /\ UNCHANGED [j \in Keys |-> data[j].ref]
        /\ UNCHANGED <<[j \in Keys |-> calls[j] > 0], applied>>
    <3>1. /\ data'[k].status = "ABSENT" /\ data'[k].ref = data[k].ref
          /\ \A j \in Keys \ {k} : data'[j] = data[j]
      BY <2>2, <2>3 DEF TypeOK, NoRow, Absent
    <3> QED
      BY <2>2, <3>1, ContractRow
  <2>5. /\ [j \in Keys |-> data[j].status][k] = "PENDING"
        /\ ~[j \in Keys |-> calls[j] > 0][k]
    BY <2>1, <2>3 DEF Pending
  <2> QED
    BY <2>4, <2>5, Zenon DEF Contract!GiveUp
<1>3. ASSUME NEW w \in Workers, NEW k \in Keys, NEW r \in Refs,
             ProviderReturns(w, k, r) \/ ProviderTimesOut(w, k, r)
      PROVE  Contract!CallProvider(k)
  BY <1>3, CallStep DEF ProviderReturns, ProviderTimesOut
<1>4. ASSUME NEW w \in Workers, NEW k \in Keys, ProviderFails(w, k)
      PROVE  Contract!CallProvider(k)
  BY <1>4, CallStep DEF ProviderFails
<1>5. ASSUME NEW w \in Workers, NEW k \in Keys, WriteFailure(w, k)
      PROVE  Contract!Settle(k) \/ UNCHANGED Contract!contractVars
  <2>1. data[k].status = Pending /\ calls[k] = 1
    BY <1>5 DEF WriteFailure, ClaimInv, WritingInv, At, Writing, KeyIs
  <2> QED
    BY <1>5, <2>1, SettleStep, ContractStutters DEF WriteFailure
<1>6. ASSUME NEW w \in Workers, NEW k \in Keys, NEW r \in Refs,
             WriteSuccessFails(w, k, r) \/ StoreSuccess(w, k, r)
      PROVE  Contract!Settle(k)
  <2>1. /\ data[k].status = Pending /\ calls[k] = 1
        /\ r \in applied[k]
    BY <1>6 DEF WriteSuccessFails, StoreSuccess, ClaimInv, WritingInv, At, Writing, KeyIs
  <2> QED
    BY <1>6, <2>1, SettleStep DEF WriteSuccessFails, StoreSuccess
<1>7. ASSUME NEW w \in Workers, NEW k \in Keys, Downgrade(w, k)
      PROVE  Contract!Revise(k) \/ UNCHANGED Contract!contractVars
  <2>1. data[k].status = ResolvedPresent /\ data[k].ref = worker[w].ref
    BY <1>7 DEF Downgrade, ClaimInv, ConfirmingInv, At, Confirming, KeyIs
  <2> QED
    BY <1>7, <2>1, ReviseStep, ContractStutters DEF Downgrade, StoreResolve
<1>8. ASSUME NEW w \in Workers, NEW k \in Keys, Resolve(w, k)
      PROVE  Contract!Revise(k) \/ UNCHANGED Contract!contractVars
  <2>1. /\ data[k].status \in {Uncertain, ResolvedPresent}
        /\ data[k].ref = worker[w].ref
    BY <1>8 DEF Resolve, ClaimInv, ResolvingInv, At, KeyIs
  <2>2. worker[w].ref # {}
    BY <2>1 DEF ClaimInv, RowInv
  <2>3. /\ UNCHANGED data \/ SetRow(k, ResolvedPresent, data[k].ref)
        /\ UNCHANGED <<calls, applied>>
    BY <1>8, <2>1, <2>2 DEF Resolve, StoreResolve
  <2> QED
    BY <2>1, <2>3, ReviseStep, ContractStutters
<1>9. ASSUME NEW w \in Workers, Quiet(w) PROVE UNCHANGED Contract!contractVars
  BY <1>9, QuietSteps, ContractStutters
<1>10. CASE UNCHANGED <<data, calls, applied>>
  BY <1>10, ContractStutters
<1> QED
  BY <1>1, <1>2, <1>3, <1>4, <1>5, <1>6, <1>7, <1>8, <1>9, <1>10, NextCases
  DEF Contract!ContractNext, vars

(* The executor implements MutationContract for any number of workers,     *)
(* keys, leases and faults: callers of execute and recover see one claim,  *)
(* at most one provider call and a true outcome per key.                   *)
THEOREM Refinement == Spec => ImplementsContract
<1>1. Init => Contract!ContractInit
  <2> SUFFICES ASSUME Init PROVE Contract!ContractInit
    OBVIOUS
  <2>1. \A k \in Keys : data[k].status = "ABSENT" /\ data[k].ref = {}
    BY DEF Init, NoRow, Absent
  <2>2. \A k \in Keys : (calls[k] > 0) = FALSE
    BY DEF Init
  <2>3. [k \in Keys |-> calls[k] > 0] = [k \in Keys |-> FALSE]
    BY <2>2, Zenon
  <2>4. applied = [k \in Keys |-> {}]
    BY DEF Init
  <2> QED
    BY <2>1, <2>3, <2>4 DEF Contract!ContractInit
<1>2. Spec => []ShapeInv
  BY ShapeInit, ShapeNext, TypeCorrect, PTL DEF Spec
<1> QED
  BY <1>1, <1>2, ContractStep, TypeCorrect, ClaimSafety, PTL
  DEF Spec, ImplementsContract, Contract!ContractSpec

-----------------------------------------------------------------------------
(* The audit trail and the store. AuditNeverOverclaims speaks of events    *)
(* already in the chain; a worker about to append one has written the row  *)
(* before and may be overtaken, so the invariant also speaks of the events *)
(* still to come, and of who may still downgrade a row.                    *)

(* The row already says what a worker is about to announce.                *)
AnnouncedInv ==
  \A w \in Workers, k \in Keys :
    /\ At(w, k, {"failedAudit"}) => data[k].status = FailedNoMutation
    /\ At(w, k, {"lostWriteAudit", "uncertainAudit"}) =>
         data[k].status \in {Uncertain, ResolvedPresent}
    /\ At(w, k, {"recoveryAudit"}) => data[k].status = ResolvedPresent

(* While the owner may still downgrade its row, no success event of it is  *)
(* logged and no recovery of it is under way.                              *)
SettledInv ==
  \A w \in Workers, k \in Keys : At(w, k, Confirming) =>
    /\ ~Logged(k, {"post_mutation", "recovered"})
    /\ \A v \in Workers : ~At(v, k, {"resolve", "recoveryAudit"})

TrailInv == AnnouncedInv /\ SettledInv /\ AuditNeverOverclaims

(* The places TrailInv speaks of.                                          *)
TrailPcs == {{"failedAudit"}, {"lostWriteAudit", "uncertainAudit"},
             {"recoveryAudit"}, {"resolve", "recoveryAudit"}, Confirming}

(* An empty chain announces nothing.                                       *)
LEMMA TrailInit == Init => TrailInv
<1> SUFFICES ASSUME Init PROVE TrailInv
  OBVIOUS
<1>1. \A w \in Workers : worker[w].pc = "idle"
  BY DEF Init, Idle
<1>2. \A k, actions : ~Logged(k, actions)
  BY DEF Init, Logged
<1> QED
  BY <1>1, <1>2 DEF TrailInv, AnnouncedInv, SettledInv, AuditNeverOverclaims, At,
     Confirming

(* A step that writes neither the rows nor the chain and takes no worker   *)
(* to one of these places keeps TrailInv.                                  *)
LEMMA TrailStays ==
  ASSUME TrailInv, UNCHANGED <<data, chain>>,
         \A v \in Workers, j \in Keys, pcs \in TrailPcs :
           At(v, j, pcs)' => At(v, j, pcs)
  PROVE  TrailInv'
<1>1. \A k, actions : Logged(k, actions)' <=> Logged(k, actions)
  BY DEF Logged
<1>2. AnnouncedInv'
  BY DEF TrailInv, AnnouncedInv, TrailPcs
<1>3. SettledInv'
  BY <1>1 DEF TrailInv, SettledInv, TrailPcs
<1>4. AuditNeverOverclaims'
  BY <1>1 DEF TrailInv, AuditNeverOverclaims
<1> QED
  BY <1>2, <1>3, <1>4 DEF TrailInv

(* Such a step is one in which one worker leaves for elsewhere, ...        *)
LEMMA TrailLeaves ==
  ASSUME TrailInv, UNCHANGED <<data, chain>>, NEW w \in Workers,
         \A v \in Workers \ {w} : worker'[v] = worker[v],
         worker'[w].pc \notin UNION TrailPcs
  PROVE  TrailInv'
<1>1. \A v \in Workers, j \in Keys, pcs \in TrailPcs :
        At(v, j, pcs)' => At(v, j, pcs)
  BY DEF At
<1> QED
  BY <1>1, TrailStays

(* ... one in which it returns, ...                                        *)
LEMMA TrailReturn ==
  ASSUME TypeOK, TrailInv, UNCHANGED <<data, chain>>, NEW w \in Workers, Return(w)
  PROVE  TrailInv'
<1>1. /\ worker'[w].pc = "idle"
      /\ \A v \in Workers \ {w} : worker'[v] = worker[v]
  BY ReturnEffect DEF TypeOK, Idle
<1>2. worker'[w].pc \notin UNION TrailPcs
  BY <1>1 DEF TrailPcs, Confirming
<1> QED
  BY <1>1, <1>2, TrailLeaves

(* ... and one in which no worker moves.                                   *)
LEMMA TrailReads ==
  ASSUME TrailInv, UNCHANGED <<data, chain>>,
         \A v \in Workers : worker'[v].pc = worker[v].pc /\ worker'[v].key = worker[v].key
  PROVE  TrailInv'
<1>1. \A v \in Workers, j \in Keys, pcs \in TrailPcs :
        At(v, j, pcs)' => At(v, j, pcs)
  BY DEF At
<1> QED
  BY <1>1, TrailStays

(* A row that is absent or PENDING has no event and nobody announcing one, *)
(* so its owner may write it: the claim, the rollback, the first outcome.  *)
LEMMA TrailFirstWrite ==
  ASSUME ClaimInv, TrailInv, NEW w \in Workers, NEW k \in Keys,
         data[k].status \in {Absent, Pending},
         UNCHANGED chain,
         \A j \in Keys \ {k} : data'[j] = data[j],
         \A v \in Workers \ {w} : worker'[v] = worker[v],
         worker'[w].pc \in {"idle", "pre", "failedAudit", "lostWriteAudit", "post"},
         worker'[w].pc # "idle" => worker'[w].key = {k},
         worker'[w].pc = "failedAudit" => data'[k].status = FailedNoMutation,
         worker'[w].pc = "lostWriteAudit" => data'[k].status = Uncertain
  PROVE  TrailInv'
<1>1. \A j, actions : Logged(j, actions)' <=> Logged(j, actions)
  BY DEF Logged
<1>2. data[k].status \notin {FailedNoMutation, Uncertain, ResolvedPresent}
  BY DEF Absent, Pending, FailedNoMutation, Uncertain, ResolvedPresent
<1>3. \A pcs \in TrailPcs, v \in Workers : ~At(v, k, pcs)
  BY <1>2 DEF TrailPcs, TrailInv, AnnouncedInv, ClaimInv, ConfirmingInv,
     ResolvingInv, At
<1>4. /\ ~Logged(k, {"post_mutation", "recovered"})
      /\ ~Logged(k, {"provider_failed"})
      /\ ~Logged(k, {"local_write_failed", "terminal_audit_failed"})
  BY <1>2 DEF TrailInv, AuditNeverOverclaims
<1>5. \A pcs \in TrailPcs, v \in Workers, j \in Keys :
        At(v, j, pcs)' => (v = w /\ j = k) \/ (j # k /\ At(v, j, pcs))
  <2> SUFFICES ASSUME NEW pcs \in TrailPcs, NEW v \in Workers, NEW j \in Keys,
                      At(v, j, pcs)'
               PROVE  (v = w /\ j = k) \/ (j # k /\ At(v, j, pcs))
    OBVIOUS
  <2>1. CASE v = w
    <3>1. worker'[w].pc # "idle"
      BY <2>1 DEF At, TrailPcs, Confirming
    <3> QED
      BY <2>1, <3>1 DEF At
  <2>2. CASE v # w
    BY <2>2, <1>3 DEF At
  <2> QED
    BY <2>1, <2>2
<1>6. AnnouncedInv'
  BY <1>5 DEF TrailInv, AnnouncedInv, TrailPcs, At
<1>7. SettledInv'
  <2> SUFFICES ASSUME NEW v \in Workers, NEW j \in Keys, At(v, j, Confirming)'
               PROVE  (/\ ~Logged(j, {"post_mutation", "recovered"})
                       /\ \A u \in Workers : ~At(u, j, {"resolve", "recoveryAudit"}))'
    BY DEF SettledInv
  <2>1. CASE j # k
    BY <2>1, <1>1, <1>5 DEF TrailInv, SettledInv, TrailPcs
  <2>2. CASE j = k
    BY <2>2, <1>1, <1>4, <1>5 DEF TrailPcs, At
  <2> QED
    BY <2>1, <2>2
<1>8. AuditNeverOverclaims'
  BY <1>1, <1>4 DEF TrailInv, AuditNeverOverclaims
<1> QED
  BY <1>6, <1>7, <1>8 DEF TrailInv

(* The downgrade: no success event can be in the chain, because its owner  *)
(* is only now deciding. A recovery: the row is PRESENT from now on,       *)
(* because its owner is no longer confirming.                              *)
LEMMA TrailLaterWrite ==
  ASSUME ClaimInv, TrailInv, NEW w \in Workers, NEW k \in Keys,
         UNCHANGED chain,
         \A j \in Keys \ {k} : data'[j] = data[j],
         \A v \in Workers \ {w} : worker'[v] = worker[v],
         worker'[w].key = {k},
         \/ /\ At(w, k, {"downgrade"})
            /\ data'[k].status = Uncertain /\ worker'[w].pc = "uncertainAudit"
         \/ /\ At(w, k, {"resolve"})
            /\ data'[k].status = ResolvedPresent /\ worker'[w].pc = "recoveryAudit"
  PROVE  TrailInv'
<1>1. \A j, actions : Logged(j, actions)' <=> Logged(j, actions)
  BY DEF Logged
<1>2. data[k].status \in {Uncertain, ResolvedPresent}
  BY DEF ClaimInv, ConfirmingInv, ResolvingInv, At, Confirming
<1>3. data[k].status # FailedNoMutation
  BY <1>2 DEF Uncertain, ResolvedPresent, FailedNoMutation
<1>4. \A v \in Workers : ~At(v, k, {"failedAudit"})
  BY <1>3 DEF TrailInv, AnnouncedInv
<1>5. ~Logged(k, {"provider_failed"})
  BY <1>3 DEF TrailInv, AuditNeverOverclaims
<1>6. \A v \in Workers : v # w => ~At(v, k, Confirming)
  BY DEF TrailInv, SettledInv, ClaimInv, OneOwner, At, Owning, Confirming
<1>7. CASE At(w, k, {"downgrade"}) /\ data'[k].status = Uncertain
           /\ worker'[w].pc = "uncertainAudit"
  <2>1. /\ ~Logged(k, {"post_mutation", "recovered"})
        /\ \A v \in Workers : ~At(v, k, {"resolve", "recoveryAudit"})
    BY <1>7 DEF TrailInv, SettledInv, At, Confirming
  <2>2. AnnouncedInv'
    BY <1>4, <1>7, <2>1 DEF TrailInv, AnnouncedInv, At
  <2>3. SettledInv'
    BY <1>1, <1>6, <1>7 DEF TrailInv, SettledInv, At, Confirming
  <2>4. AuditNeverOverclaims'
    BY <1>1, <1>5, <1>7, <2>1 DEF TrailInv, AuditNeverOverclaims
  <2> QED
    BY <2>2, <2>3, <2>4 DEF TrailInv
<1>8. CASE At(w, k, {"resolve"}) /\ data'[k].status = ResolvedPresent
           /\ worker'[w].pc = "recoveryAudit"
  <2>1. AnnouncedInv'
    BY <1>4, <1>8 DEF TrailInv, AnnouncedInv, At
  <2>2. SettledInv'
    <3> SUFFICES ASSUME NEW v \in Workers, NEW j \in Keys, At(v, j, Confirming)'
                 PROVE  (/\ ~Logged(j, {"post_mutation", "recovered"})
                         /\ \A u \in Workers : ~At(u, j, {"resolve", "recoveryAudit"}))'
      BY DEF SettledInv
    <3>1. v # w /\ At(v, j, Confirming)
      BY <1>8 DEF At, Confirming
    <3>2. j # k
      BY <3>1, <1>6
    <3> QED
      BY <1>1, <1>8, <3>1, <3>2 DEF TrailInv, SettledInv, At
  <2>3. AuditNeverOverclaims'
    BY <1>1, <1>5, <1>8 DEF TrailInv, AuditNeverOverclaims
  <2> QED
    BY <2>1, <2>2, <2>3 DEF TrailInv
<1> QED
  BY <1>7, <1>8


(* The chain grows by one event only.                                      *)
LEMMA LoggedOnce ==
  ASSUME chain \in Seq(AuditRecord), NEW e \in AuditRecord,
         chain' = Append(chain, e), NEW k, NEW actions, Logged(k, actions)'
  PROVE  Logged(k, actions) \/ (e.key = k /\ e.action \in actions)
<1>1. /\ DOMAIN chain' = DOMAIN chain \cup {Len(chain) + 1}
      /\ \A i \in DOMAIN chain : chain'[i] = chain[i]
      /\ chain'[Len(chain) + 1] = e
  OBVIOUS
<1> QED
  BY <1>1 DEF Logged

(* The event a worker appends is true of its row, and a success event ends *)
(* the ownership that could still have downgraded the row.                 *)
LEMMA TrailAppend ==
  ASSUME TypeOK, ClaimInv, TrailInv, NEW w \in Workers, NEW k \in Keys,
         Append_(w, k)
  PROVE  TrailInv'
<1>1. PICK n \in worker[w].seen :
        chain' = Append(chain, [sequence |-> n + 1,
                                action |-> AuditAction(worker[w].pc), key |-> k])
  BY DEF Append_
<1>2. n \in Nat
  BY DEF TypeOK, Call, Optional
<1> DEFINE e == [sequence |-> n + 1, action |-> AuditAction(worker[w].pc), key |-> k]
<1>3. e \in AuditRecord /\ e.key = k /\ e.action = AuditAction(worker[w].pc)
  BY <1>2, AuditPcFacts DEF Append_, AuditRecord
<1>4. UNCHANGED data /\ worker[w].key = {k} /\ worker[w].pc \in AuditPc
  BY DEF Append_, KeyIs
<1>5. \A j, actions : Logged(j, actions)' =>
        Logged(j, actions) \/ (j = k /\ AuditAction(worker[w].pc) \in actions)
  BY <1>1, <1>3, LoggedOnce DEF TypeOK
<1>6. /\ worker'[w].pc \in {"idle", "provider"}
      /\ \A v \in Workers \ {w} : worker'[v] = worker[v]
  BY <1>4, GotoEffect, ReturnEffect
  DEF Append_, Resume, AfterAppend, TypeOK, Idle, Pc, StorePc
<1>7. \A v \in Workers, j \in Keys, pcs \in TrailPcs :
        At(v, j, pcs)' => v # w /\ At(v, j, pcs)
  BY <1>6 DEF At, TrailPcs, Confirming
<1>8. AnnouncedInv'
  BY <1>4, <1>7 DEF TrailInv, AnnouncedInv, TrailPcs
<1>9. SettledInv'
  <2> SUFFICES ASSUME NEW v \in Workers, NEW j \in Keys, At(v, j, Confirming)'
               PROVE  (/\ ~Logged(j, {"post_mutation", "recovered"})
                       /\ \A u \in Workers : ~At(u, j, {"resolve", "recoveryAudit"}))'
    BY DEF SettledInv
  <2>1. v # w /\ At(v, j, Confirming)
    BY <1>7 DEF TrailPcs
  <2>2. /\ ~Logged(j, {"post_mutation", "recovered"})
        /\ \A u \in Workers : ~At(u, j, {"resolve", "recoveryAudit"})
    BY <2>1 DEF TrailInv, SettledInv
  <2>3. \A u \in Workers : ~At(u, j, {"resolve", "recoveryAudit"})'
    BY <2>2, <1>7 DEF TrailPcs
  <2>4. ASSUME j = k PROVE worker[w].pc \notin {"post", "recoveryAudit"}
    <3>1. worker[w].pc # "post"
      BY <2>1, <2>4, <1>4 DEF ClaimInv, OneOwner, At, Owning, Confirming
    <3>2. worker[w].pc # "recoveryAudit"
      BY <2>2, <2>4, <1>4 DEF At
    <3> QED
      BY <3>1, <3>2
  <2>5. j = k => AuditAction(worker[w].pc) \notin {"post_mutation", "recovered"}
    BY <2>4, <1>4 DEF AuditAction, AuditPc
  <2> QED
    BY <2>2, <2>3, <2>5, <1>5
<1>10. AuditNeverOverclaims'
  <2>1. /\ AuditAction(worker[w].pc) \in {"post_mutation", "recovered"} =>
             worker[w].pc \in {"post", "recoveryAudit"}
        /\ AuditAction(worker[w].pc) \in {"provider_failed"} =>
             worker[w].pc = "failedAudit"
        /\ AuditAction(worker[w].pc) \in {"local_write_failed", "terminal_audit_failed"} =>
             worker[w].pc \in {"lostWriteAudit", "uncertainAudit"}
    BY <1>4 DEF AuditAction, AuditPc
  <2>2. /\ worker[w].pc \in {"post", "recoveryAudit"} => data[k].status = ResolvedPresent
        /\ worker[w].pc = "failedAudit" => data[k].status = FailedNoMutation
        /\ worker[w].pc \in {"lostWriteAudit", "uncertainAudit"} =>
             data[k].status \in {Uncertain, ResolvedPresent}
    BY <1>4 DEF TrailInv, AnnouncedInv, ClaimInv, ConfirmingInv, At, Confirming
  <2> QED
    BY <2>1, <2>2, <1>4, <1>5 DEF TrailInv, AuditNeverOverclaims
<1> QED
  BY <1>8, <1>9, <1>10 DEF TrailInv

(* A failed append leaves the row as announced; a failed success audit     *)
(* keeps the owner where it may downgrade.                                 *)
LEMMA TrailAppendFails ==
  ASSUME TypeOK, TrailInv, NEW w \in Workers, AppendFails(w)
  PROVE  TrailInv'
<1>1. UNCHANGED <<data, chain>>
  BY DEF AppendFails
<1>2. CASE worker[w].pc \notin {"pre", "post"}
  <2>1. Return(w)
    BY <1>2 DEF AppendFails, Resume, AfterFailure
  <2> QED
    BY <1>1, <2>1, TrailReturn
<1>3. CASE worker[w].pc \in {"pre", "post"}
  <2>1. Goto(w, IF worker[w].pc = "pre" THEN "rollback" ELSE "downgrade")
    BY <1>3 DEF AppendFails, Resume, AfterFailure
  <2>2. /\ worker'[w].pc = IF worker[w].pc = "pre" THEN "rollback" ELSE "downgrade"
        /\ worker'[w].key = worker[w].key
        /\ \A v \in Workers \ {w} : worker'[v] = worker[v]
    BY <2>1, GotoEffect DEF TypeOK, Pc, StorePc
  <2>3. \A v \in Workers, j \in Keys, pcs \in TrailPcs :
          At(v, j, pcs)' => At(v, j, pcs)
    BY <1>3, <2>2 DEF At, TrailPcs, Confirming
  <2> QED
    BY <1>1, <2>3, TrailStays
<1> QED
  BY <1>2, <1>3

(* A recovery starts on an UNCERTAIN row, which nobody is confirming.      *)
LEMMA TrailReadBack ==
  ASSUME TypeOK, ClaimInv, TrailInv, NEW w \in Workers, NEW k \in Keys,
         ReadBack(w, k)
  PROVE  TrailInv'
<1>0. UNCHANGED <<data, chain>> /\ worker[w].key = {k}
  BY DEF ReadBack, KeyIs
<1>1. CASE data[k].status # Uncertain
  BY <1>0, <1>1, TrailReturn DEF ReadBack
<1>2. CASE data[k].status = Uncertain
  <2>1. /\ worker'[w].pc = "resolve" /\ worker'[w].key = {k}
        /\ \A v \in Workers \ {w} : worker'[v] = worker[v]
    BY <1>2, <1>0 DEF ReadBack, TypeOK, Call
  <2>2. \A v \in Workers : ~At(v, k, Confirming)
    BY <1>2 DEF ClaimInv, ConfirmingInv, Uncertain, ResolvedPresent
  <2>3. \A j, actions : Logged(j, actions)' <=> Logged(j, actions)
    BY <1>0 DEF Logged
  <2>4. AnnouncedInv'
    BY <1>0, <2>1 DEF TrailInv, AnnouncedInv, At
  <2>5. SettledInv'
    BY <1>0, <2>1, <2>2, <2>3 DEF TrailInv, SettledInv, At, Confirming
  <2>6. AuditNeverOverclaims'
    BY <1>0, <2>3 DEF TrailInv, AuditNeverOverclaims
  <2> QED
    BY <2>4, <2>5, <2>6 DEF TrailInv
<1> QED
  BY <1>1, <1>2

(* Every step keeps TrailInv.                                              *)
LEMMA TrailNext == TypeOK /\ ClaimInv /\ TrailInv /\ [Next]_vars => TrailInv'
<1> SUFFICES ASSUME TypeOK, ClaimInv, TrailInv, [Next]_vars PROVE TrailInv'
  OBVIOUS
<1>w. worker \in [Workers -> Call] /\ data \in [Keys -> Row]
  BY DEF TypeOK
<1>1. ASSUME NEW w \in Workers,
             \/ LeaseExpires(w) \/ ReadHead(w)
             \/ \E k \in Keys : LeaseClaim(w, k)
      PROVE  TrailInv'
  <2>1. /\ UNCHANGED <<data, chain>>
        /\ \A v \in Workers : worker'[v].pc = worker[v].pc /\ worker'[v].key = worker[v].key
    BY <1>1, <1>w DEF LeaseExpires, ReadHead, LeaseClaim, Call
  <2> QED
    BY <2>1, TrailReads
<1>2. ASSUME NEW w \in Workers, AppendRejected(w) \/ WorkerDies(w) PROVE TrailInv'
  BY <1>2, TrailReturn DEF AppendRejected, WorkerDies
<1>3. ASSUME NEW w \in Workers, AppendFails(w) PROVE TrailInv'
  BY <1>3, TrailAppendFails
<1>4. ASSUME NEW w \in Workers, NEW k \in Keys, NEW p \in Payloads,
             NEW bound \in BOOLEAN, BeginExecute(w, k, p, bound)
      PROVE  TrailInv'
  <2>1. /\ UNCHANGED <<data, chain>>
        /\ worker'[w].pc = "register"
        /\ \A v \in Workers \ {w} : worker'[v] = worker[v]
    BY <1>4, <1>w DEF BeginExecute
  <2> QED
    BY <2>1, TrailLeaves DEF TrailPcs, Confirming
<1>5. ASSUME NEW w \in Workers, NEW k \in Keys, BeginRecover(w, k) PROVE TrailInv'
  <2>1. /\ UNCHANGED <<data, chain>>
        /\ worker'[w].pc = "readBack"
        /\ \A v \in Workers \ {w} : worker'[v] = worker[v]
    BY <1>5, <1>w DEF BeginRecover, Idle
  <2> QED
    BY <2>1, TrailLeaves DEF TrailPcs, Confirming
<1>6. ASSUME NEW w \in Workers, NEW k \in Keys, NEW r \in Refs,
             ProviderTimesOut(w, k, r) \/ ProviderReturns(w, k, r)
      PROVE  TrailInv'
  <2>1. /\ UNCHANGED <<data, chain>>
        /\ worker'[w].pc \in {"writeFailure", "writeSuccess"}
        /\ \A v \in Workers \ {w} : worker'[v] = worker[v]
    BY <1>6, <1>w, GotoEffect
    DEF ProviderTimesOut, ProviderReturns, Call, Pc, StorePc
  <2> QED
    BY <2>1, TrailLeaves DEF TrailPcs, Confirming
<1>6a. ASSUME NEW w \in Workers, NEW k \in Keys,
              RegisterFencing(w, k) \/ ProviderFails(w, k)
       PROVE  TrailInv'
  <2>1. /\ UNCHANGED <<data, chain>>
        /\ worker'[w].pc \in {"claim", "writeFailure"}
        /\ \A v \in Workers \ {w} : worker'[v] = worker[v]
    BY <1>6a, <1>w, GotoEffect DEF RegisterFencing, ProviderFails, Pc, StorePc
  <2> QED
    BY <2>1, TrailLeaves DEF TrailPcs, Confirming
<1>7. ASSUME NEW w \in Workers, NEW k \in Keys, NEW r \in Refs,
             CheckCollision(w, k, r)
      PROVE  TrailInv'
  <2>0. UNCHANGED <<data, chain>>
    BY <1>7 DEF CheckCollision
  <2>1. CASE Return(w)
    BY <2>0, <2>1, TrailReturn
  <2>2. CASE Goto(w, "storeSuccess")
    <3>1. /\ worker'[w].pc = "storeSuccess"
          /\ \A v \in Workers \ {w} : worker'[v] = worker[v]
      BY <2>2, <1>w, GotoEffect DEF Pc, StorePc
    <3> QED
      BY <2>0, <3>1, TrailLeaves DEF TrailPcs, Confirming
  <2> QED
    BY <1>7, <2>1, <2>2 DEF CheckCollision
<1>8. ASSUME NEW w \in Workers, NEW k \in Keys, Claim(w, k) PROVE TrailInv'
  <2>1. CASE Return(w) /\ UNCHANGED data
    BY <1>8, <2>1, TrailReturn DEF Claim
  <2>2. CASE Goto(w, "pre") /\ data[k].status = Absent
             /\ data' = [data EXCEPT ![k] = [status |-> Pending, ref |-> {},
                                             payload |-> worker[w].payload]]
    <3>1. /\ worker'[w].pc = "pre" /\ worker'[w].key = {k}
          /\ \A v \in Workers \ {w} : worker'[v] = worker[v]
      BY <1>8, <2>2, <1>w, GotoEffect DEF Claim, KeyIs, Pc, AuditPc
    <3>2. UNCHANGED chain /\ \A j \in Keys \ {k} : data'[j] = data[j]
      BY <1>8, <2>2, <1>w DEF Claim
    <3> QED
      BY <2>2, <3>1, <3>2, TrailFirstWrite
  <2> QED
    BY <1>8, <2>1, <2>2 DEF Claim
<1>9. ASSUME NEW w \in Workers, NEW k \in Keys, RollbackClaim(w, k) PROVE TrailInv'
  <2>1. data[k].status = Pending
    BY <1>9 DEF RollbackClaim, KeyIs, ClaimInv, BeforeCallInv, At, BeforeCall
  <2>2. /\ worker'[w].pc = "idle"
        /\ \A v \in Workers \ {w} : worker'[v] = worker[v]
    BY <1>9, <1>w, ReturnEffect DEF RollbackClaim, Idle
  <2>3. UNCHANGED chain /\ \A j \in Keys \ {k} : data'[j] = data[j]
    BY <1>9, <1>w DEF RollbackClaim
  <2> QED
    BY <2>1, <2>2, <2>3, TrailFirstWrite
<1>10. ASSUME NEW w \in Workers, NEW k \in Keys, WriteFailure(w, k) PROVE TrailInv'
  <2>1. CASE Full
    BY <1>10, <2>1, TrailReturn DEF WriteFailure
  <2>2. CASE ~Full
    <3>1. data[k].status = Pending
      BY <1>10 DEF WriteFailure, KeyIs, ClaimInv, WritingInv, At, Writing
    <3>2. /\ worker'[w].pc = "failedAudit" /\ worker'[w].key = {k}
          /\ \A v \in Workers \ {w} : worker'[v] = worker[v]
      BY <1>10, <2>2, <1>w, GotoEffect DEF WriteFailure, KeyIs, Pc, AuditPc
    <3>3. /\ UNCHANGED chain /\ data'[k].status = FailedNoMutation
          /\ \A j \in Keys \ {k} : data'[j] = data[j]
      BY <1>10, <2>2, <1>w DEF WriteFailure, SetRow, Row
    <3> QED
      BY <3>1, <3>2, <3>3, TrailFirstWrite
  <2> QED
    BY <2>1, <2>2
<1>11. ASSUME NEW w \in Workers, NEW k \in Keys, NEW r \in Refs,
              WriteSuccessFails(w, k, r) \/ StoreSuccess(w, k, r)
       PROVE  TrailInv'
  <2>1. data[k].status = Pending
    BY <1>11 DEF WriteSuccessFails, StoreSuccess, KeyIs, ClaimInv, WritingInv, At,
       Writing
  <2>2. /\ worker'[w].pc \in {"lostWriteAudit", "post"} /\ worker'[w].key = {k}
        /\ \A v \in Workers \ {w} : worker'[v] = worker[v]
    BY <1>11, <1>w, GotoEffect DEF WriteSuccessFails, StoreSuccess, KeyIs, Pc, AuditPc
  <2>3. worker'[w].pc = "lostWriteAudit" => data'[k].status = Uncertain
    BY <1>11, <1>w, GotoEffect DEF WriteSuccessFails, StoreSuccess, SetRow, Row, Pc,
       AuditPc
  <2>4. UNCHANGED chain /\ \A j \in Keys \ {k} : data'[j] = data[j]
    BY <1>11, <1>w DEF WriteSuccessFails, StoreSuccess, SetRow
  <2> QED
    BY <2>1, <2>2, <2>3, <2>4, TrailFirstWrite
<1>12. ASSUME NEW w \in Workers, NEW k \in Keys, Downgrade(w, k) PROVE TrailInv'
  <2>1. CASE Full
    BY <1>12, <2>1, TrailReturn DEF Downgrade, StoreResolve
  <2>2. CASE ~Full
    <3>1. At(w, k, {"downgrade"}) /\ UNCHANGED chain
      BY <1>12 DEF Downgrade, KeyIs, At
    <3>2. /\ worker'[w].pc = "uncertainAudit" /\ worker'[w].key = {k}
          /\ \A v \in Workers \ {w} : worker'[v] = worker[v]
      BY <1>12, <2>2, <1>w, GotoEffect DEF Downgrade, StoreResolve, KeyIs, Pc, AuditPc
    <3>3. /\ data'[k].status = Uncertain
          /\ \A j \in Keys \ {k} : data'[j] = data[j]
      BY <1>12, <2>2, <1>w DEF Downgrade, StoreResolve, SetRow, Row
    <3> QED
      BY <3>1, <3>2, <3>3, TrailLaterWrite
  <2> QED
    BY <2>1, <2>2
<1>13. ASSUME NEW w \in Workers, NEW k \in Keys, Resolve(w, k) PROVE TrailInv'
  <2>1. CASE Full
    BY <1>13, <2>1, TrailReturn DEF Resolve, StoreResolve
  <2>2. CASE ~Full
    <3>0. worker[w].ref # {}
      BY <1>13 DEF Resolve, KeyIs, ClaimInv, ResolvingInv, RowInv, At
    <3>1. At(w, k, {"resolve"}) /\ UNCHANGED chain
      BY <1>13 DEF Resolve, KeyIs, At
    <3>2. /\ worker'[w].pc = "recoveryAudit" /\ worker'[w].key = {k}
          /\ \A v \in Workers \ {w} : worker'[v] = worker[v]
      BY <1>13, <2>2, <1>w, GotoEffect DEF Resolve, StoreResolve, KeyIs, Pc, AuditPc
    <3>3. SetRow(k, ResolvedPresent, worker[w].ref)
      BY <1>13, <2>2, <3>0 DEF Resolve, StoreResolve
    <3>4. /\ data'[k].status = ResolvedPresent
          /\ \A j \in Keys \ {k} : data'[j] = data[j]
      BY <3>3, <1>w DEF SetRow, Row
    <3> QED
      BY <3>1, <3>2, <3>4, TrailLaterWrite
  <2> QED
    BY <2>1, <2>2
<1>14. ASSUME NEW w \in Workers, NEW k \in Keys, ReadBack(w, k) PROVE TrailInv'
  BY <1>14, TrailReadBack
<1>15. ASSUME NEW w \in Workers, NEW k \in Keys, Append_(w, k) PROVE TrailInv'
  BY <1>15, TrailAppend
<1>16. CASE UNCHANGED vars
  BY <1>16, TrailReads DEF vars
<1>17. CASE OtherKeys
  BY <1>17, TrailReads DEF OtherKeys
<1> QED
  BY <1>1, <1>2, <1>3, <1>4, <1>5, <1>6, <1>6a, <1>7, <1>8, <1>9, <1>10, <1>11,
     <1>12, <1>13, <1>14, <1>15, <1>16, <1>17
  DEF Next, Execute, Recover

(* The audit trail never says more than the store holds, for any number of *)
(* workers and faults: an owner whose success audit fails downgrades the   *)
(* row before any recovery can confirm it, and never after.                *)
THEOREM TrailIsTrue == Spec => []AuditNeverOverclaims
<1>1. TrailInv => AuditNeverOverclaims
  BY DEF TrailInv
<1> QED
  BY <1>1, TrailInit, TrailNext, TypeCorrect, ClaimSafety, PTL DEF Spec

=============================================================================
