-------------------------- MODULE MutationExecutor --------------------------
(***************************************************************************)
(* The mutation path of src/mutations: a MutationExecutor whose worker     *)
(* threads share one InMemoryMutationStore and one AuditChain, each worker *)
(* presenting a MutationLease.                                             *)
(*                                                                         *)
(* A call of execute or recover is split at every access to shared state,  *)
(* because store.claim is the only method that takes the store's lock.     *)
(* A call the code refuses before it has touched shared state (stale or    *)
(* expired lease, key not derived from the payload, unknown key) changes   *)
(* nothing and is therefore no step: its condition is a guard.             *)
(***************************************************************************)
EXTENDS Naturals, Sequences, FiniteSets

CONSTANTS
  Keys,        \* idempotency keys
  Payloads,    \* canonical payloads; equal payloads have equal payload hashes
  DerivedKey,  \* IdempotencyKey.derive as a function of the payload
  Refs,        \* external references the provider may return
  Workers,     \* threads calling the executor
  Capacity,    \* capacity of the store
  MaxToken,    \* bound: number of leases ever issued
  MaxFaults,   \* bound: number of faults the environment injects
  Faults       \* the kinds of fault it may inject, a subset of FaultKinds

FaultKinds == {"append", "write", "provider", "timeout", "crash"}

ASSUME ConstantsAssumption ==
  /\ DOMAIN DerivedKey = Payloads
  /\ Capacity \in Nat
  /\ MaxToken \in Nat
  /\ MaxFaults \in Nat
  /\ Faults \subseteq FaultKinds
  /\ IsFiniteSet(Keys)

VARIABLES
  data,      \* store._data: the row of each key
  others,    \* store._data: number of rows of keys that are not in Keys
  extRefs,   \* store._external_refs: the keys registered for each reference
  fencing,   \* store._fencing: highest token registered for each key, 0 if none
  chain,     \* audit._records
  nextToken, \* the next value of lease._token_counter
  lease,     \* the lease each worker presents
  worker,    \* the call each worker is in
  faults,    \* number of faults injected so far
  calls,     \* history: provider invocations per key
  applied    \* history: references of the mutations the provider made per key

vars == <<data, others, extRefs, fencing, chain, nextToken, lease, worker,
          faults, calls, applied>>

-----------------------------------------------------------------------------
(* Rows, audit records, leases and calls.                                  *)

Pending         == "PENDING"
FailedNoMutation == "FAILED_NO_MUTATION"
Uncertain       == "UNCERTAIN"
ResolvedPresent == "RESOLVED_PRESENT"
ResolvedAbsent  == "RESOLVED_ABSENT"

MutationStatus == {Pending, FailedNoMutation, Uncertain, ResolvedPresent,
                   ResolvedAbsent}

(* "No row" is status ABSENT; "no reference", "no key", "no payload" are    *)
(* the empty set, a present one the singleton (an Optional of the code).    *)
Absent == "ABSENT"

Optional(S) == {X \in SUBSET S : \A x, y \in X : x = y}

Row == [status : MutationStatus \cup {Absent},
        payload : Optional(Payloads),
        ref : Optional(Refs)]

NoRow == [status |-> Absent, payload |-> {}, ref |-> {}]

(* The position of a record stands for its sequence number and for the     *)
(* previous_hash it names: a record read at length n carries n + 1 and the *)
(* hash of the n-th record. The key is redacted in the stored payload; the *)
(* model keeps it so that properties can tell whose event it is.           *)
AuditActions == {"pre_mutation", "provider_failed", "local_write_failed",
                 "post_mutation", "terminal_audit_failed", "recovered"}

AuditRecord == [sequence : Nat \ {0}, action : AuditActions, key : Keys]

(* Token 0 is "no lease yet": MutationLease refuses tokens <= 0.           *)
Lease == [key : Optional(Keys), token : 0..MaxToken, expired : BOOLEAN]

NoLease == [key |-> {}, token |-> 0, expired |-> FALSE]

(* Where a worker is inside execute or recover. An AuditPc is an           *)
(* _audit_event in progress.                                               *)
AuditPc == {"pre", "failedAudit", "lostWriteAudit", "post",
            "uncertainAudit", "recoveryAudit"}

StorePc == {"register", "claim", "rollback", "provider", "writeFailure",
            "writeSuccess", "storeSuccess", "downgrade", "readBack",
            "resolve"}

Pc == {"idle"} \cup AuditPc \cup StorePc

(* seen is what the worker last read of shared state and has not used yet: *)
(* the registered token, or the length of the audit chain.                 *)
Call == [pc : Pc, key : Optional(Keys), payload : Optional(Payloads),
         ref : Optional(Refs), seen : Optional(Nat)]

Idle == [pc |-> "idle", key |-> {}, payload |-> {}, ref |-> {}, seen |-> {}]

TypeOK ==
  /\ data \in [Keys -> Row]
  /\ others \in 0..Capacity
  /\ extRefs \in [Refs -> Optional(Keys)]
  /\ fencing \in [Keys -> 0..MaxToken]
  /\ chain \in Seq(AuditRecord)
  /\ nextToken \in 1..(MaxToken + 1)
  /\ lease \in [Workers -> Lease]
  /\ worker \in [Workers -> Call]
  /\ faults \in 0..MaxFaults
  /\ calls \in [Keys -> Nat]
  /\ applied \in [Keys -> SUBSET Refs]

Init ==
  /\ data = [k \in Keys |-> NoRow]
  /\ others = 0
  /\ extRefs = [r \in Refs |-> {}]
  /\ fencing = [k \in Keys |-> 0]
  /\ chain = <<>>
  /\ nextToken = 1
  /\ lease = [w \in Workers |-> NoLease]
  /\ worker = [w \in Workers |-> Idle]
  /\ faults = 0
  /\ calls = [k \in Keys |-> 0]
  /\ applied = [k \in Keys |-> {}]

-----------------------------------------------------------------------------
(* Helpers.                                                                *)

Inject(kind) ==
  /\ kind \in Faults
  /\ faults < MaxFaults
  /\ faults' = faults + 1

KeyIs(w, k) == worker[w].key = {k}

(* store._check_capacity without for_update.                               *)
Full == Cardinality({k \in Keys : data[k].status # Absent}) + others >= Capacity

Goto(w, pc) == worker' = [worker EXCEPT ![w].pc = pc, ![w].seen = {}]

Return(w) == worker' = [worker EXCEPT ![w] = Idle]

SetRow(k, status, ref) ==
  data' = [data EXCEPT ![k].status = status, ![k].ref = ref]

(* lease.assert_fresh: a caller presents its lease's token; a lease that   *)
(* has expired at the call's timestamp is refused.                         *)
Fresh(w) == lease[w].token > 0 /\ ~lease[w].expired

-----------------------------------------------------------------------------
(* Leases. The timestamp of a call is taken once, when it starts, so a     *)
(* lease that expires during a call does not disturb that call.            *)

LeaseClaim(w, k) ==
  /\ worker[w].pc = "idle"
  /\ nextToken <= MaxToken
  /\ lease' = [lease EXCEPT ![w] =
                 [key |-> {k}, token |-> nextToken, expired |-> FALSE]]
  /\ nextToken' = nextToken + 1
  /\ UNCHANGED <<data, others, extRefs, fencing, chain, worker, faults, calls,
                 applied>>

LeaseExpires(w) ==
  /\ Fresh(w)
  /\ lease' = [lease EXCEPT ![w].expired = TRUE]
  /\ UNCHANGED <<data, others, extRefs, fencing, chain, nextToken, worker,
                 faults, calls, applied>>

-----------------------------------------------------------------------------
(* execute, up to the provider call.                                       *)

(* The checks before any work, then the unlocked read in register_fencing. *)
(* bound says whether the caller supplied a namespace (QA-05). The lease's *)
(* key is not compared with the key executed.                              *)
BeginExecute(w, k, p, bound) ==
  /\ worker[w].pc = "idle"
  /\ Fresh(w)
  /\ bound => DerivedKey[p] = k
  /\ worker' = [worker EXCEPT ![w] =
                  [pc |-> "register", key |-> {k}, payload |-> {p},
                   ref |-> {}, seen |-> {fencing[k]}]]
  /\ UNCHANGED <<data, others, extRefs, fencing, chain, nextToken, lease,
                 faults, calls, applied>>

(* The write in register_fencing, decided on the token read before it.     *)
RegisterFencing(w, k) ==
  /\ worker[w].pc = "register" /\ KeyIs(w, k)
  /\ \E current \in worker[w].seen :
       fencing' = [fencing EXCEPT ![k] =
                     IF lease[w].token > current THEN lease[w].token ELSE @]
  /\ Goto(w, "claim")
  /\ UNCHANGED <<data, others, extRefs, chain, nextToken, lease, faults, calls,
                 applied>>

(* Mutant of Claim: a call that finds a PENDING row joins it.              *)
ClaimJoinsPending(w, k) ==
  /\ worker[w].pc = "claim" /\ KeyIs(w, k)
  /\ ~Full /\ data[k].status \in {Absent, Pending}
  /\ data' = IF data[k].status = Pending THEN data
             ELSE [data EXCEPT ![k] = [status |-> Pending, ref |-> {},
                                       payload |-> worker[w].payload]]
  /\ Goto(w, "pre")
  /\ UNCHANGED <<others, extRefs, fencing, chain, nextToken, lease, faults,
                 calls, applied>>

(* store.claim under the lock. Only the creator of the row goes on: a full *)
(* store (checked first, replays included) and a payload conflict raise,   *)
(* a terminal row is returned and any other row is RecoveryRequired.       *)
Claim(w, k) ==
  /\ worker[w].pc = "claim" /\ KeyIs(w, k)
  /\ \/ /\ ~Full /\ data[k].status = Absent
        /\ data' = [data EXCEPT ![k] =
                      [status |-> Pending, payload |-> worker[w].payload,
                       ref |-> {}]]
        /\ Goto(w, "pre")
     \/ /\ Full \/ data[k].status # Absent
        /\ Return(w)
        /\ UNCHANGED data
  /\ UNCHANGED <<others, extRefs, fencing, chain, nextToken, lease, faults,
                 calls, applied>>

(* store.rollback_claim after the precondition audit failed.               *)
RollbackClaim(w, k) ==
  /\ worker[w].pc = "rollback" /\ KeyIs(w, k)
  /\ data' = IF data[k].status = Pending
             THEN [data EXCEPT ![k] = NoRow] ELSE data
  /\ Return(w)
  /\ UNCHANGED <<others, extRefs, fencing, chain, nextToken, lease, faults,
                 calls, applied>>

-----------------------------------------------------------------------------
(* _audit_event: read the length and the head, then AuditChain.append.     *)

ReadHead(w) ==
  /\ worker[w].pc \in AuditPc
  /\ worker[w].seen = {}
  /\ worker' = [worker EXCEPT ![w].seen = {Len(chain)}]
  /\ UNCHANGED <<data, others, extRefs, fencing, chain, nextToken, lease,
                 faults, calls, applied>>

AuditAction(pc) == CASE pc = "pre"            -> "pre_mutation"
                     [] pc = "failedAudit"    -> "provider_failed"
                     [] pc = "lostWriteAudit" -> "local_write_failed"
                     [] pc = "post"           -> "post_mutation"
                     [] pc = "uncertainAudit" -> "terminal_audit_failed"
                     [] pc = "recoveryAudit"  -> "recovered"

(* Mutant of AfterAppend: the handler of a failed success audit runs after *)
(* a successful one too.                                                   *)
AfterAppendDowngrades(pc) == CASE pc = "pre"  -> "provider"
                               [] pc = "post" -> "downgrade"
                               [] OTHER       -> "idle"

(* Mutant of AfterFailure: a failed precondition audit does not stop the   *)
(* provider call.                                                          *)
AfterFailureOpen(pc) == CASE pc = "pre"  -> "provider"
                          [] pc = "post" -> "downgrade"
                          [] OTHER       -> "idle"

(* Where the call goes on when the append returns, when it raises          *)
(* RuntimeError, and when it raises InvalidDomainValue, a ValueError that  *)
(* no handler of execute or recover catches.                               *)
AfterAppend(pc) == IF pc = "pre" THEN "provider" ELSE "idle"

AfterFailure(pc) == CASE pc = "pre"  -> "rollback"
                      [] pc = "post" -> "downgrade"
                      [] OTHER       -> "idle"

Resume(w, pc) == IF pc = "idle" THEN Return(w) ELSE Goto(w, pc)

(* The append itself. Its checks compare the record with the chain; a      *)
(* chain that grew since ReadHead may have grown after the checks (both    *)
(* threads passed them, both append) or before (InvalidDomainValue).       *)
Append_(w, k) ==
  /\ worker[w].pc \in AuditPc /\ KeyIs(w, k)
  /\ \E n \in worker[w].seen :
       chain' = Append(chain, [sequence |-> n + 1,
                               action |-> AuditAction(worker[w].pc),
                               key |-> k])
  /\ Resume(w, AfterAppend(worker[w].pc))
  /\ UNCHANGED <<data, others, extRefs, fencing, nextToken, lease, faults,
                 calls, applied>>

AppendRejected(w) ==
  /\ worker[w].pc \in AuditPc
  /\ \E n \in worker[w].seen : n # Len(chain)
  /\ Return(w)
  /\ UNCHANGED <<data, others, extRefs, fencing, chain, nextToken, lease,
                 faults, calls, applied>>

AppendFails(w) ==
  /\ worker[w].pc \in AuditPc
  /\ worker[w].seen # {}
  /\ Inject("append")
  /\ Resume(w, AfterFailure(worker[w].pc))
  /\ UNCHANGED <<data, others, extRefs, fencing, chain, nextToken, lease,
                 calls, applied>>

-----------------------------------------------------------------------------
(* The provider call and the writes after it.                              *)

(* The provider makes the mutation and returns its reference ...           *)
ProviderReturns(w, k, r) ==
  /\ worker[w].pc = "provider" /\ KeyIs(w, k)
  /\ calls' = [calls EXCEPT ![k] = @ + 1]
  /\ applied' = [applied EXCEPT ![k] = @ \cup {r}]
  /\ worker' = [worker EXCEPT ![w].pc = "writeSuccess", ![w].ref = {r}]
  /\ UNCHANGED <<data, others, extRefs, fencing, chain, nextToken, lease,
                 faults>>

(* ... or raises a RuntimeError without making it ...                      *)
ProviderFails(w, k) ==
  /\ worker[w].pc = "provider" /\ KeyIs(w, k)
  /\ Inject("provider")
  /\ calls' = [calls EXCEPT ![k] = @ + 1]
  /\ Goto(w, "writeFailure")
  /\ UNCHANGED <<data, others, extRefs, fencing, chain, nextToken, lease,
                 applied>>

(* ... or makes it and then raises: erp_port.UncertainOutcome is a         *)
(* RuntimeError too, raised when the answer is lost.                       *)
ProviderTimesOut(w, k, r) ==
  /\ worker[w].pc = "provider" /\ KeyIs(w, k)
  /\ Inject("timeout")
  /\ calls' = [calls EXCEPT ![k] = @ + 1]
  /\ applied' = [applied EXCEPT ![k] = @ \cup {r}]
  /\ Goto(w, "writeFailure")
  /\ UNCHANGED <<data, others, extRefs, fencing, chain, nextToken, lease>>

(* Mutant of WriteFailure: a full store makes room by dropping the claim.  *)
WriteFailureEvicts(w, k) ==
  /\ worker[w].pc = "writeFailure" /\ KeyIs(w, k)
  /\ IF Full THEN data' = [data EXCEPT ![k] = NoRow] /\ Return(w)
             ELSE SetRow(k, FailedNoMutation, {}) /\ Goto(w, "failedAudit")
  /\ UNCHANGED <<others, extRefs, fencing, chain, nextToken, lease, faults,
                 calls, applied>>

(* store.write_failure: raises StorageFullError on a full store.           *)
WriteFailure(w, k) ==
  /\ worker[w].pc = "writeFailure" /\ KeyIs(w, k)
  /\ \/ /\ ~Full
        /\ SetRow(k, FailedNoMutation, {})
        /\ Goto(w, "failedAudit")
     \/ /\ Full
        /\ Return(w)
        /\ UNCHANGED data
  /\ UNCHANGED <<others, extRefs, fencing, chain, nextToken, lease, faults,
                 calls, applied>>

(* store.write_success up to its collision check: a collision is a         *)
(* ValueError and leaves the row PENDING.                                  *)
CheckCollision(w, k, r) ==
  /\ worker[w].pc = "writeSuccess" /\ KeyIs(w, k) /\ worker[w].ref = {r}
  /\ IF extRefs[r] \subseteq {k} THEN Goto(w, "storeSuccess") ELSE Return(w)
  /\ UNCHANGED <<data, others, extRefs, fencing, chain, nextToken, lease,
                 faults, calls, applied>>

(* store.write_success, the injected failure: UNCERTAIN with the reference *)
(* kept, registered without the collision check.                           *)
WriteSuccessFails(w, k, r) ==
  /\ worker[w].pc = "writeSuccess" /\ KeyIs(w, k) /\ worker[w].ref = {r}
  /\ Inject("write")
  /\ SetRow(k, Uncertain, {r})
  /\ extRefs' = [extRefs EXCEPT ![r] = {k}]
  /\ Goto(w, "lostWriteAudit")
  /\ UNCHANGED <<others, fencing, chain, nextToken, lease, calls, applied>>

(* store.write_success, the writes.                                        *)
StoreSuccess(w, k, r) ==
  /\ worker[w].pc = "storeSuccess" /\ KeyIs(w, k) /\ worker[w].ref = {r}
  /\ SetRow(k, ResolvedPresent, {r})
  /\ extRefs' = [extRefs EXCEPT ![r] = {k}]
  /\ Goto(w, "post")
  /\ UNCHANGED <<others, fencing, chain, nextToken, lease, faults, calls,
                 applied>>

(* store.resolve: refused by a full store, otherwise rewrites the row.     *)
StoreResolve(w, k, status, next) ==
  \/ /\ ~Full
     /\ SetRow(k, status, worker[w].ref)
     /\ extRefs' = [r \in Refs |->
                      IF r \in worker[w].ref THEN {k} ELSE extRefs[r]]
     /\ Goto(w, next)
  \/ /\ Full
     /\ Return(w)
     /\ UNCHANGED <<data, extRefs>>

(* Mutant of Downgrade: the reference is not passed on.                    *)
DowngradeLosesRef(w, k) ==
  /\ worker[w].pc = "downgrade" /\ KeyIs(w, k)
  /\ SetRow(k, Uncertain, {})
  /\ Goto(w, "uncertainAudit")
  /\ UNCHANGED <<others, extRefs, fencing, chain, nextToken, lease, faults,
                 calls, applied>>

(* The success audit failed: store.resolve(key, UNCERTAIN, ref).           *)
Downgrade(w, k) ==
  /\ worker[w].pc = "downgrade" /\ KeyIs(w, k)
  /\ StoreResolve(w, k, Uncertain, "uncertainAudit")
  /\ UNCHANGED <<others, fencing, chain, nextToken, lease, faults, calls,
                 applied>>

-----------------------------------------------------------------------------
(* recover.                                                                *)

BeginRecover(w, k) ==
  /\ worker[w].pc = "idle"
  /\ Fresh(w)
  /\ lease[w].key = {k}
  /\ fencing[k] \in {0, lease[w].token}
  /\ worker' = [worker EXCEPT ![w] = [Idle EXCEPT !.pc = "readBack", !.key = {k}]]
  /\ UNCHANGED <<data, others, extRefs, fencing, chain, nextToken, lease,
                 faults, calls, applied>>

(* store.get: only an UNCERTAIN row is resolved, any other is returned as  *)
(* it is (an unknown key raises).                                          *)
ReadBack(w, k) ==
  /\ worker[w].pc = "readBack" /\ KeyIs(w, k)
  /\ IF data[k].status = Uncertain
     THEN worker' = [worker EXCEPT ![w].pc = "resolve", ![w].ref = data[k].ref]
     ELSE Return(w)
  /\ UNCHANGED <<data, others, extRefs, fencing, chain, nextToken, lease,
                 faults, calls, applied>>

Resolve(w, k) ==
  /\ worker[w].pc = "resolve" /\ KeyIs(w, k)
  /\ StoreResolve(w, k,
                  IF worker[w].ref # {} THEN ResolvedPresent ELSE ResolvedAbsent,
                  "recoveryAudit")
  /\ UNCHANGED <<others, fencing, chain, nextToken, lease, faults, calls,
                 applied>>

-----------------------------------------------------------------------------

(* A worker thread dies in the middle of a call; its locals are gone, the  *)
(* store and the chain stay.                                               *)
WorkerDies(w) ==
  /\ worker[w].pc # "idle"
  /\ Inject("crash")
  /\ Return(w)
  /\ UNCHANGED <<data, others, extRefs, fencing, chain, nextToken, lease,
                 calls, applied>>

(* The calls for the keys that are not in Keys: a claim adds a row to the  *)
(* store they share, a rolled back claim takes one away, at any moment.    *)
OtherKeys ==
  /\ \/ ~Full /\ others' = others + 1
     \/ others > 0 /\ others' = others - 1
  /\ UNCHANGED <<data, extRefs, fencing, chain, nextToken, lease, worker,
                 faults, calls, applied>>

Execute(w, k) ==
  \/ \E p \in Payloads, bound \in BOOLEAN : BeginExecute(w, k, p, bound)
  \/ RegisterFencing(w, k)
  \/ Claim(w, k)
  \/ RollbackClaim(w, k)
  \/ Append_(w, k)
  \/ \E r \in Refs : ProviderReturns(w, k, r)
  \/ ProviderFails(w, k)
  \/ \E r \in Refs : ProviderTimesOut(w, k, r)
  \/ WriteFailure(w, k)
  \/ \E r \in Refs : CheckCollision(w, k, r)
  \/ \E r \in Refs : WriteSuccessFails(w, k, r)
  \/ \E r \in Refs : StoreSuccess(w, k, r)
  \/ Downgrade(w, k)

Recover(w, k) ==
  \/ BeginRecover(w, k)
  \/ ReadBack(w, k)
  \/ Resolve(w, k)

Next ==
  \/ \E w \in Workers :
       \/ LeaseExpires(w)
       \/ ReadHead(w)
       \/ AppendRejected(w)
       \/ AppendFails(w)
       \/ WorkerDies(w)
       \/ \E k \in Keys : LeaseClaim(w, k) \/ Execute(w, k) \/ Recover(w, k)
  \/ OtherKeys

Spec == Init /\ [][Next]_vars

-----------------------------------------------------------------------------
(* Properties.                                                             *)

Logged(k, actions) ==
  \E i \in DOMAIN chain : chain[i].key = k /\ chain[i].action \in actions

(* The provider is invoked at most once for a key, whatever retries,       *)
(* concurrent calls, rollbacks and crashes happen: execute "never executes *)
(* blind retries".                                                         *)
ProviderAtMostOnce == \A k \in Keys : calls[k] <= 1

(* The provider is only ever invoked for a key after the pre_mutation      *)
(* event of that key is in the audit chain (execute fails closed).         *)
AuditBeforeProvider ==
  \A k \in Keys : calls[k] > 0 => Logged(k, {"pre_mutation"})

(* A worker about to call the provider sends the payload its key's claim   *)
(* is bound to, not the one of a racing call with the same key.            *)
CallsClaimedPayload ==
  \A w \in Workers, k \in Keys :
    worker[w].pc = "provider" /\ KeyIs(w, k) =>
      data[k].payload = worker[w].payload

(* A row that claims a mutation can be recovered: UNCERTAIN and            *)
(* RESOLVED_PRESENT name a reference the provider issued for that key,     *)
(* which is all that recover has to go by, through lost writes, downgrades *)
(* and racing recoveries. It says nothing of the rows that deny one; that  *)
(* is FailedMeansNoMutation.                                               *)
ReferencesAreReal ==
  \A k \in Keys :
    data[k].status \in {Uncertain, ResolvedPresent} =>
      data[k].ref # {} /\ data[k].ref \subseteq applied[k]

(* A key recorded FAILED_NO_MUTATION has no mutation at the provider, as   *)
(* the status says and IDEMPOTENCY_AUDIT_RECOVERY.md asks (a request with  *)
(* no outcome is RECOVERY_REQUIRED). Violated: UncertainOutcome is a       *)
(* RuntimeError, and execute records every RuntimeError as a failure.      *)
FailedMeansNoMutation ==
  \A k \in Keys : data[k].status = FailedNoMutation => applied[k] = {}

(* Two rows of the store never name the same external reference, even when *)
(* the provider hands one out twice: the uniqueness the docstring of the   *)
(* store lists. Violated: write_success checks and registers without the   *)
(* lock, and registers unchecked when the local write fails.               *)
ExternalRefUnique ==
  \A j, k \in Keys : j # k => data[j].ref \cap data[k].ref = {}

(* How an outcome may develop: a row disappears only while PENDING, FAILED *)
(* and ABSENT are final, PRESENT is only ever downgraded to UNCERTAIN and  *)
(* UNCERTAIN only ever resolved, and the reference found by the first      *)
(* write is never exchanged or lost, also when two recoveries race.        *)
OutcomeStep(old, new) ==
  \/ new = old
  \/ old.status = Absent /\ new.status = Pending
  \/ old.status = Pending
  \/ /\ <<old.status, new.status>> \in {<<ResolvedPresent, Uncertain>>,
                                        <<Uncertain, ResolvedPresent>>}
     /\ new.ref = old.ref /\ new.payload = old.payload

OutcomeProgress == [][\A k \in Keys : OutcomeStep(data[k], data'[k])]_data

(* The audit trail never claims more than the store holds: a success event *)
(* means RESOLVED_PRESENT, a failure event FAILED_NO_MUTATION, and an      *)
(* event of an uncertain outcome a row recovery can read back or has.      *)
AuditNeverOverclaims ==
  \A k \in Keys :
    /\ Logged(k, {"post_mutation", "recovered"}) =>
         data[k].status = ResolvedPresent
    /\ Logged(k, {"provider_failed"}) => data[k].status = FailedNoMutation
    /\ Logged(k, {"local_write_failed", "terminal_audit_failed"}) =>
         data[k].status \in {Uncertain, ResolvedPresent}

(* The other direction, which execute's docstring claims of a failed       *)
(* success audit: a recorded success has its event, or a worker is still   *)
(* on its way to append it or to take the success back. Violated in a full *)
(* store, whose resolve refuses the downgrade although it adds no row.     *)
SuccessIsAudited ==
  \A k \in Keys : data[k].status = ResolvedPresent =>
    \/ Logged(k, {"post_mutation", "recovered"})
    \/ \E w \in Workers :
         KeyIs(w, k) /\ worker[w].pc \in {"post", "downgrade", "recoveryAudit"}

(* The executor with its workers, leases, audit and faults implements the  *)
(* contract of one mutation per key: rows are the reported outcomes, the   *)
(* history of provider calls is what the contract calls and effects are.   *)
Contract == INSTANCE MutationContract WITH
              status <- [k \in Keys |-> data[k].status],
              ref    <- [k \in Keys |-> data[k].ref],
              called <- [k \in Keys |-> calls[k] > 0],
              effect <- applied

ImplementsContract == Contract!ContractSpec

=============================================================================
