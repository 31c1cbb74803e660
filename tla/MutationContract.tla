--------------------------- MODULE MutationContract ---------------------------
(***************************************************************************)
(* What the mutation path promises its callers, without workers, leases,   *)
(* fencing or audit: a key is claimed, its provider call happens at most   *)
(* once, and a reported reference is one which that call produced and is   *)
(* never exchanged or lost. A reported failure promises less: the call may *)
(* have taken effect and lost its answer, and only a second call is        *)
(* excluded.                                                               *)
(***************************************************************************)
CONSTANTS Keys, Refs

VARIABLES
  status,   \* of each key
  ref,      \* the set holding the reference reported for each key, if any
  called,   \* whether the provider was called for the key
  effect    \* references of the mutations the provider made for the key

contractVars == <<status, ref, called, effect>>

ContractInit ==
  /\ status = [k \in Keys |-> "ABSENT"]
  /\ ref = [k \in Keys |-> {}]
  /\ called = [k \in Keys |-> FALSE]
  /\ effect = [k \in Keys |-> {}]

Accept(k) ==
  /\ status[k] = "ABSENT"
  /\ status' = [status EXCEPT ![k] = "PENDING"]
  /\ UNCHANGED <<ref, called, effect>>

(* A claim is given up only if the provider was never called for it.       *)
GiveUp(k) ==
  /\ status[k] = "PENDING" /\ ~called[k]
  /\ status' = [status EXCEPT ![k] = "ABSENT"]
  /\ UNCHANGED <<ref, called, effect>>

(* The one call, which makes at most one mutation.                         *)
CallProvider(k) ==
  /\ status[k] = "PENDING" /\ ~called[k]
  /\ called' = [called EXCEPT ![k] = TRUE]
  /\ \/ effect' = effect
     \/ \E r \in Refs : effect' = [effect EXCEPT ![k] = {r}]
  /\ UNCHANGED <<status, ref>>

(* The first outcome: failed (whatever the call did), or a reference the   *)
(* provider really issued.                                                 *)
Settle(k) ==
  /\ status[k] = "PENDING" /\ called[k]
  /\ \/ /\ status' = [status EXCEPT ![k] = "FAILED_NO_MUTATION"]
        /\ UNCHANGED ref
     \/ \E s \in {"UNCERTAIN", "RESOLVED_PRESENT"}, r \in effect[k] :
          /\ status' = [status EXCEPT ![k] = s]
          /\ ref' = [ref EXCEPT ![k] = {r}]
  /\ UNCHANGED <<called, effect>>

(* Confidence may change afterwards, the reference may not.                *)
Revise(k) ==
  /\ \/ /\ status[k] = "RESOLVED_PRESENT"
        /\ status' = [status EXCEPT ![k] = "UNCERTAIN"]
     \/ /\ status[k] = "UNCERTAIN"
        /\ status' = [status EXCEPT ![k] = "RESOLVED_PRESENT"]
  /\ UNCHANGED <<ref, called, effect>>

ContractNext ==
  \E k \in Keys : \/ Accept(k) \/ GiveUp(k) \/ CallProvider(k)
                  \/ Settle(k) \/ Revise(k)

ContractSpec == ContractInit /\ [][ContractNext]_contractVars

=============================================================================
