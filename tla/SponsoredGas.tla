----------------------------- MODULE SponsoredGas -----------------------------
(***************************************************************************)
(* The gas of a sponsored batch (sponsored.rs): the limit the client puts  *)
(* on the outer transaction, and the dispatcher that spends it, which      *)
(* refuses a wallet when it cannot forward the wallet's exact limit        *)
(* (SponsoredMintExecutor.sol, executeBatch and _canForwardExactGas).      *)
(***************************************************************************)
EXTENDS Integers

CONSTANTS
  Count,       \* operations of the batch, at most MAX_SPONSORED_BATCH_SIZE
  WalletGas,   \* the wallet gas limit of each operation
  Payload,     \* the bytes of its mint calldata
  ZeroBytes,   \* how many bytes of the encoded batch may be zero
  Overheads,   \* what the dispatcher may spend at a time beside the wallets' calls
  MaxGas       \* the largest u64

OUTER_TRANSACTION_INTRINSIC_GAS == 21000
AUTHORIZATION_INTRINSIC_GAS == 25000
DISPATCHER_BASE_GAS_RESERVE == 100000
PER_OPERATION_DISPATCH_GAS_RESERVE == 30000
FINAL_BATCH_GAS_RESERVE == 50000
EXECUTE_BATCH_FIXED_CALLDATA_BYTES == 100
MAX_ENCODED_OPERATION_BYTES == 16832
MAX_MINT_CALLDATA_SIZE == 16384

Operations == 1..Count

(* The dispatcher's reserves are those the client added.                   *)
ASSUME SponsoredGasAssumption ==
  /\ Count \in Nat \ {0}
  /\ \A i \in Operations : /\ WalletGas[i] \in Nat /\ Payload[i] \in Nat
                           /\ 4 <= Payload[i] /\ Payload[i] <= MAX_MINT_CALLDATA_SIZE
  /\ ZeroBytes \subseteq Nat
  /\ Overheads \subseteq Nat
  /\ MaxGas \in Nat

VARIABLES
  step,        \* "encode", "sum", "dispatch" or "done"
  index,     \* the operation the loop is at
  bytes,     \* of the batch that are encoded so far
  calldata,  \* the gas of the calldata in each estimate
  tally,     \* gas_limit before each operation, in each estimate
  gas,       \* left to the dispatcher
  spent,     \* by the dispatcher itself
  granted    \* what each wallet's call was given

gasVars == <<step, index, bytes, calldata, tally, gas, spent, granted>>

(* At setup nothing is known of the calldata, at launch its length, and    *)
(* when everything is signed each of its bytes.                            *)
Estimates == {"setup", "provisional", "final"}

-----------------------------------------------------------------------------
(* The client *)

(* Twelve head words, an offset and a length, and the payload in words.    *)
Words(n) == (n + 31) \div 32
EncodedBytes(i) == 448 + 32 * Words(Payload[i])

Encode ==
  /\ step = "encode" /\ index <= Count
  /\ bytes' = bytes + EncodedBytes(index)
  /\ index' = index + 1
  /\ UNCHANGED <<step, calldata, tally, gas, spent, granted>>

(* ZeroIsDear is a mutant of FinalCalldataGas.                             *)
ZeroIsDear(zeros) == 16 * bytes + 4 * zeros
FinalCalldataGas(zeros) == 16 * (bytes - zeros) + 4 * zeros
CalldataGas(zeros) ==
  [e \in Estimates |->
     CASE e = "setup" -> 16 * (Count * MAX_ENCODED_OPERATION_BYTES
                               + EXECUTE_BATCH_FIXED_CALLDATA_BYTES)
       [] e = "provisional" -> 16 * bytes
       [] e = "final" -> FinalCalldataGas(zeros)]

(* The first two are mutants of Base.                                      *)
ForgetsReserve(calldataGas) ==
  OUTER_TRANSACTION_INTRINSIC_GAS + calldataGas + Count * AUTHORIZATION_INTRINSIC_GAS
    + DISPATCHER_BASE_GAS_RESERVE
ForgetsAuthorizations(calldataGas) ==
  OUTER_TRANSACTION_INTRINSIC_GAS + calldataGas + DISPATCHER_BASE_GAS_RESERVE
    + FINAL_BATCH_GAS_RESERVE
Base(calldataGas) ==
  OUTER_TRANSACTION_INTRINSIC_GAS + calldataGas + Count * AUTHORIZATION_INTRINSIC_GAS
    + DISPATCHER_BASE_GAS_RESERVE + FINAL_BATCH_GAS_RESERVE

(* EIP-150 keeps 1/64 of what a call could be given.                       *)
Eip150Buffer(g) == (g + 62) \div 63
Own(i) == WalletGas[i] + Eip150Buffer(WalletGas[i]) + PER_OPERATION_DISPATCH_GAS_RESERVE

StartSum(zeros) ==
  /\ step = "encode" /\ index = Count + 1
  /\ zeros <= bytes
  /\ calldata' = CalldataGas(zeros)
  /\ tally' = [e \in Estimates |-> [k \in 1..1 |-> Base(calldata'[e])]]
  /\ step' = "sum" /\ index' = 1
  /\ UNCHANGED <<bytes, gas, spent, granted>>

(* Every estimate is a loop of its own in the code, over the same limits.  *)
(* A sum beyond u64 is a GasOverflow, and nothing is sent.                 *)
Fits == \A e \in Estimates : tally[e][index] + Own(index) <= MaxGas
AddOperation ==
  /\ step = "sum" /\ index <= Count /\ Fits
  /\ tally' = [e \in Estimates |->
                 [k \in 1..(index + 1) |-> IF k = index + 1 THEN tally[e][index] + Own(index)
                                           ELSE tally[e][k]]]
  /\ index' = index + 1
  /\ UNCHANGED <<step, bytes, calldata, gas, spent, granted>>

-----------------------------------------------------------------------------
(* The chain and the dispatcher *)

Limit(e) == tally[e][Count + 1]

(***************************************************************************)
(* Assumed of the compiled dispatcher: what it spends until the end of its *)
(* i-th operation is within the reserves for the batch and i operations.   *)
(* One operation may cost more than its share: memory gets dearer.         *)
(***************************************************************************)
WithinReserves(i, amount) ==
  amount <= DISPATCHER_BASE_GAS_RESERVE + i * PER_OPERATION_DISPATCH_GAS_RESERVE

Dispatch(authorizations, prelude) ==
  /\ WithinReserves(0, prelude)
  /\ spent' = prelude
  /\ step = "sum" /\ index = Count + 1
  /\ gas' = Limit("final") - OUTER_TRANSACTION_INTRINSIC_GAS - calldata["final"]
              - authorizations * AUTHORIZATION_INTRINSIC_GAS - prelude
  /\ step' = "dispatch" /\ index' = 1
  /\ UNCHANGED <<bytes, calldata, tally, granted>>

CanForwardExactGas(left, i) ==
  left >= WalletGas[i] + Eip150Buffer(WalletGas[i])
            + FINAL_BATCH_GAS_RESERVE + (Count - i) * PER_OPERATION_DISPATCH_GAS_RESERVE

(* What EIP-150 lets a call have of what is left.                          *)
Forwarded(left, i) ==
  IF left - left \div 64 < WalletGas[i] THEN left - left \div 64 ELSE WalletGas[i]

(* The overhead comes partly before and partly after the call.             *)
Execute(before, after, unused) ==
  LET left == gas - before
      forward == IF CanForwardExactGas(left, index) THEN Forwarded(left, index) ELSE 0
      used == IF unused THEN 0 ELSE forward
  IN /\ step = "dispatch" /\ index <= Count
     /\ WithinReserves(index, spent + before + after)
     /\ spent' = spent + before + after
     /\ granted' = [granted EXCEPT ![index] = forward]
     /\ gas' = left - used - after
     /\ index' = index + 1
     /\ UNCHANGED <<step, bytes, calldata, tally>>

Finish ==
  /\ step = "dispatch" /\ index = Count + 1
  /\ step' = "done"
  /\ UNCHANGED <<index, bytes, calldata, tally, gas, spent, granted>>

-----------------------------------------------------------------------------
GasInit ==
  /\ step = "encode" /\ index = 1
  /\ bytes = EXECUTE_BATCH_FIXED_CALLDATA_BYTES
  /\ calldata = [e \in Estimates |-> 0]
  /\ tally = [e \in Estimates |-> [k \in 1..1 |-> 0]]
  /\ gas = 0 /\ spent = 0
  /\ granted = [i \in Operations |-> 0]

GasNext ==
  \/ Encode
  \/ \E zeros \in ZeroBytes : StartSum(zeros)
  \/ AddOperation
  \/ \E authorizations \in 0..Count, prelude \in Overheads : Dispatch(authorizations, prelude)
  \/ \E before, after \in Overheads, unused \in BOOLEAN : Execute(before, after, unused)
  \/ Finish

GasSpec == GasInit /\ [][GasNext]_gasVars

-----------------------------------------------------------------------------
(* Types of the sums and of what is left.                                  *)
GasTypeOK ==
  /\ step \in {"encode", "sum", "dispatch", "done"}
  /\ index \in 1..(Count + 1)
  /\ bytes \in Nat
  /\ calldata \in [Estimates -> Nat]
  /\ \A e \in Estimates : \E n \in 1..(Count + 1) : tally[e] \in [1..n -> Nat]
  /\ gas \in Nat /\ spent \in Nat
  /\ granted \in [Operations -> Nat]

(***************************************************************************)
(* Whatever the wallets' limits are and wherever the dispatcher spends its *)
(* reserves, every wallet's call is given exactly the limit it signed: the *)
(* batch never skips one with InsufficientExecutionGas.                    *)
(***************************************************************************)
EveryWalletGetsItsGas ==
  step \in {"dispatch", "done"} => \A i \in 1..(index - 1) : granted[i] = WalletGas[i]

(***************************************************************************)
(* The dispatcher keeps the reserve it ends the batch with: it never runs  *)
(* out of gas, which would undo the wallets that succeeded.                *)
(***************************************************************************)
ReserveIsLeft == step \in {"dispatch", "done"} => gas >= FINAL_BATCH_GAS_RESERVE

(***************************************************************************)
(* The balances checked at setup and before signing cover the transaction  *)
(* that is sent: each estimate bounds the next (SponsoredGasBoundExceeded  *)
(* is never raised).                                                       *)
(***************************************************************************)
EstimatesBound ==
  step = "sum" /\ index = Count + 1 =>
    Limit("final") <= Limit("provisional") /\ Limit("provisional") <= Limit("setup")
=============================================================================
