-------------------------- MODULE DurableClaimStore --------------------------
(***************************************************************************)
(* src/mutations/durable_store.py: claims on mutation keys in a SQLite     *)
(* file shared by several processes, fenced by the token and the expiry of *)
(* a lease (src/mutations/lease.py).                                       *)
(*                                                                         *)
(* claim checks the caller's own lease at the instant it was given, then   *)
(* waits for the write lock and decides in one transaction; time passes    *)
(* and other transactions commit in between. A process that dies before    *)
(* the commit leaves nothing, one that dies after it leaves the row.       *)
(* Fencing tokens come from a counter in each process (lease.py:14), which *)
(* starts at one again with the process: two processes issue the same      *)
(* tokens, and a process issues its own again after a restart.             *)
(***************************************************************************)
EXTENDS Naturals, FiniteSets

CONSTANTS
  Keys,        \* idempotency keys
  Payloads,    \* payload hash together with canonicalization version
  Workers,     \* each a process with its own connection
  Recorded,    \* the outcomes that are recorded for claims
  Capacity,    \* capacity of the store
  TTL,         \* life time of a lease
  MaxTime,     \* bound: the clock
  MaxToken,    \* bound: fencing tokens
  MaxRestarts  \* bound: processes that die and start again

ASSUME ClaimAssumption ==
  /\ Capacity \in Nat /\ TTL \in Nat \ {0} /\ MaxTime \in Nat
  /\ MaxToken \in Nat /\ MaxRestarts \in Nat

VARIABLES
  clock,     \* the time
  counter,   \* next token of each process
  lease,     \* the lease each worker holds
  call,      \* the claim each worker is in
  rows,      \* table mutation_outcome
  grants,    \* what each worker has been told it owns
  restarts   \* number of restarts so far

vars == <<clock, counter, lease, call, rows, grants, restarts>>

-----------------------------------------------------------------------------

(* PENDING and UNCERTAIN rows can be claimed, the others are terminal.     *)
NonTerminal == {"PENDING", "UNCERTAIN"}
Terminal == {"RESOLVED_PRESENT", "RESOLVED_ABSENT", "FAILED_NO_MUTATION"}

ASSUME RecordedAssumption == Recorded \subseteq NonTerminal \cup Terminal

Tokens == 0..MaxToken
Expiry == 0..(MaxTime + TTL)

Lease == [token : Tokens, expires : Expiry]
NoLease == [token |-> 0, expires |-> 0]

Row == [status : NonTerminal \cup Terminal \cup {"NONE"}, payload : SUBSET Payloads,
        token : Tokens, expires : Expiry]
NoRow == [status |-> "NONE", payload |-> {}, token |-> 0, expires |-> 0]

Call == [pc : {"idle", "begin"}, key : SUBSET Keys, payload : SUBSET Payloads,
         at : 0..MaxTime]
Idle == [pc |-> "idle", key |-> {}, payload |-> {}, at |-> 0]

(* A claim the store answered with ACQUIRED or CLAIM_HELD.                 *)
Grant == [key : Keys, payload : Payloads, lease : Lease]

Stored == {k \in Keys : rows[k].status # "NONE"}

(* The capacity check and the insert are one transaction: whichever        *)
(* processes compete for the last place, the table never overflows.        *)
TypeOK ==
  /\ clock \in 0..MaxTime
  /\ counter \in [Workers -> 1..(MaxToken + 1)]
  /\ lease \in [Workers -> Lease]
  /\ call \in [Workers -> Call]
  /\ rows \in [Keys -> Row]
  /\ grants \in [Workers -> SUBSET Grant]
  /\ restarts \in 0..MaxRestarts
  /\ Cardinality(Stored) <= Capacity

Init ==
  /\ clock = 0
  /\ counter = [w \in Workers |-> 1]
  /\ lease = [w \in Workers |-> NoLease]
  /\ call = [w \in Workers |-> Idle]
  /\ rows = [k \in Keys |-> NoRow]
  /\ grants = [w \in Workers |-> {}]
  /\ restarts = 0

-----------------------------------------------------------------------------

Tick ==
  /\ clock < MaxTime
  /\ clock' = clock + 1
  /\ UNCHANGED <<counter, lease, call, rows, grants, restarts>>

(* MutationLease.claim: the next token, valid for TTL from now.            *)
NewLease(w) ==
  /\ call[w].pc = "idle"
  /\ counter[w] <= MaxToken
  /\ lease' = [lease EXCEPT ![w] = [token |-> counter[w], expires |-> clock + TTL]]
  /\ counter' = [counter EXCEPT ![w] = @ + 1]
  /\ UNCHANGED <<clock, call, rows, grants, restarts>>

(* assert_fresh, at the instant the caller read.                           *)
Fresh(w, at) == lease[w].token > 0 /\ at < lease[w].expires

BeginClaim(w, k, p) ==
  /\ call[w].pc = "idle"
  /\ Fresh(w, clock)
  /\ call' = [call EXCEPT ![w] = [pc |-> "begin", key |-> {k}, payload |-> {p},
                                  at |-> clock]]
  /\ UNCHANGED <<clock, counter, lease, rows, grants, restarts>>

Full == Cardinality(Stored) >= Capacity

(* Mutant of SamePayload: a key that is bound to some payload will do.     *)
SomePayload(row, p) == row.payload # {}

SamePayload(row, p) == row.payload = {p}

(* Mutant of Fencing: a newer token takes over without waiting.            *)
FencingNoExpiry(row, token, at) ==
  CASE token < row.token -> "STALE_FENCING"
    [] token = row.token -> "CLAIM_HELD"
    [] OTHER             -> "TAKEOVER"

(* Mutant of Fencing: once the stored lease has expired, anyone may claim. *)
FencingAnyToken(row, token, at) ==
  CASE token = row.token -> "CLAIM_HELD"
    [] at < row.expires  -> "STALE_FENCING"
    [] OTHER             -> "TAKEOVER"

(* Mutant of Fencing: an older token is taken for a re-claim.              *)
FencingOldTokenHolds(row, token, at) ==
  CASE token <= row.token -> "CLAIM_HELD"
    [] at < row.expires   -> "STALE_FENCING"
    [] OTHER              -> "TAKEOVER"

(* A claim on a row that is not terminal: the token decides, and a newer   *)
(* one waits for the expiry of the stored lease.                           *)
Fencing(row, token, at) ==
  CASE token < row.token -> "STALE_FENCING"
    [] token = row.token -> "CLAIM_HELD"
    [] at < row.expires  -> "STALE_FENCING"
    [] OTHER             -> "TAKEOVER"

(* What the transaction answers for the row it finds.                      *)
Answer(row, p, token, at) ==
  CASE row.status = "NONE"     -> IF Full THEN "STORAGE_FULL" ELSE "INSERT"
    [] ~SamePayload(row, p)    -> "PAYLOAD_CONFLICT"
    [] row.status \in Terminal -> "ALREADY_RESOLVED"
    [] OTHER                   -> Fencing(row, token, at)

(* The transaction: insert a row, take one over, confirm it or refuse. A   *)
(* re-claim does not extend the expiry the row carries.                    *)
Transaction(w, k, p) ==
  LET answer == Answer(rows[k], p, lease[w].token, call[w].at) IN
  /\ call[w].pc = "begin" /\ call[w].key = {k} /\ call[w].payload = {p}
  /\ rows' = CASE answer = "INSERT" ->
                    [rows EXCEPT ![k] = [status |-> "PENDING", payload |-> {p},
                       token |-> lease[w].token, expires |-> lease[w].expires]]
               [] answer = "TAKEOVER" ->
                    [rows EXCEPT ![k].token = lease[w].token,
                                 ![k].expires = lease[w].expires]
               [] OTHER -> rows
  /\ grants' = IF answer \in {"INSERT", "TAKEOVER", "CLAIM_HELD"}
               THEN [grants EXCEPT ![w] = @ \cup
                       {[key |-> k, payload |-> p, lease |-> lease[w]]}]
               ELSE grants
  /\ call' = [call EXCEPT ![w] = Idle]
  /\ UNCHANGED <<clock, counter, lease, restarts>>

(* Outside this store: the owner of a claim records what became of it.     *)
RecordOutcome(w, g, status) ==
  /\ g \in grants[w] /\ call[w].pc = "idle"
  /\ rows[g.key].status \in NonTerminal
  /\ rows[g.key].token = g.lease.token
  /\ rows' = [rows EXCEPT ![g.key].status = status]
  /\ UNCHANGED <<clock, counter, lease, call, grants, restarts>>

(* A process dies, before its transaction or after it, and starts again    *)
(* with a new counter. What it was told is lost, the rows stay.            *)
Restart(w) ==
  /\ restarts < MaxRestarts
  /\ restarts' = restarts + 1
  /\ lease' = [lease EXCEPT ![w] = NoLease]
  /\ call' = [call EXCEPT ![w] = Idle]
  /\ grants' = [grants EXCEPT ![w] = {}]
  /\ counter' = [counter EXCEPT ![w] = 1]
  /\ UNCHANGED <<clock, rows>>

Next ==
  \/ Tick
  \/ \E w \in Workers :
       \/ NewLease(w)
       \/ Restart(w)
       \/ \E k \in Keys, p \in Payloads : BeginClaim(w, k, p) \/ Transaction(w, k, p)
       \/ \E g \in grants[w], s \in Recorded : RecordOutcome(w, g, s)

Spec == Init /\ [][Next]_vars

-----------------------------------------------------------------------------
(* Properties.                                                             *)

(* No two workers hold an unexpired claim on one key: CLAIM_HELD is an     *)
(* answer for the owner (claim_store.py:20, durable_store.py:129-132).     *)
(* Violated: the owner is recognized by its token, and processes issue the *)
(* same ones.                                                              *)
OneLiveOwner ==
  \A w1, w2 \in Workers : \A g1 \in grants[w1], g2 \in grants[w2] :
    g1.key = g2.key /\ g1.lease.expires > clock /\ g2.lease.expires > clock
      => w1 = w2

(* Whoever was told that it owns a claim was told so for the payload the   *)
(* key is bound to, also after takeovers, restarts and reused tokens.      *)
OwnersShareThePayload ==
  \A w \in Workers : \A g \in grants[w] : rows[g.key].payload = {g.payload}

(* The table and what its users were told agree: well typed and within      *)
(* capacity, one payload per key.                                           *)
ClaimsInv == TypeOK /\ OwnersShareThePayload

(* A key is fenced for good: a row never disappears, never changes its     *)
(* payload, its token never goes back, and a recorded outcome is final.    *)
FencingNeverRegresses ==
  [][\A k \in Stored :
       /\ rows'[k].payload = rows[k].payload
       /\ rows'[k].token >= rows[k].token
       /\ rows[k].status \in Terminal => rows'[k] = rows[k]]_vars

(* A claim is not taken over from a worker whose lease runs: the token of  *)
(* a row changes only once the expiry it carries has passed, although the  *)
(* claimer compares it with an instant it read before it waited for the    *)
(* lock, and the row may have changed hands meanwhile                      *)
(* (durable_store.py:132-137).                                             *)
TakeoverWaits ==
  [][\A k \in Stored :
       rows'[k].token # rows[k].token => rows[k].expires <= clock]_vars

(* An owner that was fenced off stays fenced off: nobody is told that it   *)
(* owns a claim under a smaller token than one a living worker was told so *)
(* before, also when its counter has started again.                        *)
LatestOwnerOnly ==
  [][\A w \in Workers : \A g \in grants'[w] \ grants[w] :
       \A v \in Workers : \A h \in grants[v] :
         h.key = g.key => h.lease.token <= g.lease.token]_vars

=============================================================================
