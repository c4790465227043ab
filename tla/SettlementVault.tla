-------------------------- MODULE SettlementVault --------------------------
(***************************************************************************)
(* The contract SettlementVault: payouts and batches of payouts, pulled    *)
(* from a funder that has only granted an allowance.  A call that reverts  *)
(* changes nothing and is no step.                                         *)
(***************************************************************************)
EXTENDS Chain, Sequences, SequencesExt

CONSTANTS
  Vault,      \* the address of the contract
  Funder,     \* addresses the owner may make the funder
  Operator,   \* accounts that call the vault
  PayoutRef,  \* references of single payouts and of batches, none of them zero
  Legs,       \* batches, sequences of recipients and amounts
  MaxBatch,   \* MAX_BATCH
  NoBatch     \* bytes32(0), the batch of a single payout

ASSUME VaultAssumption ==
  /\ Vault \in Account
  /\ Funder \subseteq Account \ {Vault}
  /\ Legs \subseteq Seq([to: Account, amount: Nat])
  /\ MaxBatch \in Nat
  /\ NoBatch \notin PayoutRef

VARIABLES
  funder,
  operators,       \* the operators that are allowed
  vaultSupported,  \* supportedTokens[token]
  vaultPaused,     \* Pausable
  payoutExecuted,
  batchExecuted

vaultVars == <<funder, operators, vaultSupported, vaultPaused, payoutExecuted,
               batchExecuted>>

\* computePayoutId.  The reference of a leg is a hash of the batch's and of
\* its position, and so no reference that an operator gives to a payout.
PayoutId(ref, to, amount) == [ref |-> ref, to |-> to, amount |-> amount]
LegRef(batchRef, i) == <<batchRef, i>>

LegRefs == PayoutRef \X (1 .. MaxBatch)

VaultTypeOK ==
  /\ funder \in Funder
  /\ operators \in SUBSET Operator
  /\ vaultSupported \in BOOLEAN
  /\ vaultPaused \in BOOLEAN
  /\ batchExecuted \in SUBSET PayoutRef
  /\ \A id \in payoutExecuted :
       id.ref \in PayoutRef \cup LegRefs /\ id.to \in Account /\ id.amount \in Nat

VaultInit ==
  /\ funder \in Funder
  /\ operators = Operator
  /\ vaultSupported = TRUE
  /\ vaultPaused = FALSE
  /\ payoutExecuted = {}
  /\ batchExecuted = {}

---------------------------------------------------------------------------
(* Payouts *)

\* The call so far: the ledger, the executed ids and the events it leaves,
\* and whether it has reverted.
Call == [ledger |-> ledger, executed |-> payoutExecuted, events |-> EmptyBag,
         reverted |-> FALSE]

\* The checks of _execute, and of the transferFrom in it.
Executable(call, id) ==
  /\ id.amount # 0
  /\ id \notin call.executed
  /\ CanPull(call.ledger, Vault, funder, id.amount)

\* _execute
Executed(call, id, batch) ==
  IF call.reverted \/ ~Executable(call, id)
    THEN [call EXCEPT !.reverted = TRUE]
    ELSE [ledger   |-> Pulled(call.ledger, Vault, funder, id.to, id.amount),
          executed |-> call.executed \cup {id},
          events   |-> call.events (+) SetToBag({
                         [event |-> "PayoutExecuted", id |-> id, batch |-> batch,
                          from |-> funder, to |-> id.to, amount |-> id.amount]}),
          reverted |-> FALSE]

\* The modifiers and the check of the token.
Authorised(o) == o \in operators /\ ~vaultPaused /\ vaultSupported

\* A revert of any part undoes the whole call.
CommitsPartly(call) ==
  /\ ledger' = call.ledger
  /\ payoutExecuted' = call.executed
  /\ Emits(call.events)
Commits(call) ==
  /\ ~call.reverted
  /\ CommitsPartly(call)

Payout(o, ref, to, amount) ==
  /\ Authorised(o)
  /\ Commits(Executed(Call, PayoutId(ref, to, amount), NoBatch))
  /\ UNCHANGED <<now, funder, operators, vaultSupported, vaultPaused, batchExecuted>>

\* Neither empty nor too large.
SizeAllowed(legs) == Len(legs) >= 1 /\ Len(legs) <= MaxBatch

\* The batch has not been executed with these legs or with others.
BatchIsNew(ref) == ref \notin batchExecuted

\* The loop over the legs.
ExecutedLegs(ref, legs) ==
  FoldLeftDomain(LAMBDA call, i :
                   Executed(call, PayoutId(LegRef(ref, i), legs[i].to, legs[i].amount),
                            ref),
                 Call, legs)

PayoutBatch(o, ref, legs) ==
  /\ Authorised(o)
  /\ SizeAllowed(legs)
  /\ BatchIsNew(ref)
  /\ Commits(ExecutedLegs(ref, legs))
  /\ batchExecuted' = batchExecuted \cup {ref}
  /\ UNCHANGED <<now, funder, operators, vaultSupported, vaultPaused>>

---------------------------------------------------------------------------
(* The owner *)

SetFunder(f) ==
  /\ funder' = f
  /\ UNCHANGED <<chainVars, operators, vaultSupported, vaultPaused, payoutExecuted,
                 batchExecuted>>

SetOperator(o, allowed) ==
  /\ operators' = IF allowed THEN operators \cup {o} ELSE operators \ {o}
  /\ UNCHANGED <<chainVars, funder, vaultSupported, vaultPaused, payoutExecuted,
                 batchExecuted>>

SetVaultTokenSupported(supported) ==
  /\ vaultSupported' = supported
  /\ UNCHANGED <<chainVars, funder, operators, vaultPaused, payoutExecuted,
                 batchExecuted>>

PauseVault ==
  /\ ~vaultPaused
  /\ vaultPaused' = TRUE
  /\ UNCHANGED <<chainVars, funder, operators, vaultSupported, payoutExecuted,
                 batchExecuted>>

UnpauseVault ==
  /\ vaultPaused
  /\ vaultPaused' = FALSE
  /\ UNCHANGED <<chainVars, funder, operators, vaultSupported, payoutExecuted,
                 batchExecuted>>

=============================================================================
