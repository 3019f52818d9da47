------------------------------- MODULE FrameGas -------------------------------
(***************************************************************************)
(* Gas and the refund counter of a transaction: the frames of the           *)
(* interpreter, what they charge, give to their callees and take back, the   *)
(* refund of a storage slot, and what the sender is charged in the end.      *)
(*                                                                         *)
(* What a frame computes is left open.  One slot of one account is followed: *)
(* the counter is a sum over the slots, and no slot bears on another.       *)
(***************************************************************************)
EXTENDS Integers, Sequences

CONSTANTS
  Word,       \* what the slot may hold
  GasLimits,  \* of the transaction
  Intrinsic,  \* what it costs to begin
  Costs,      \* what opcodes charge: constants, memory expansion, hashing
  GasParams,  \* the gas operand of the calls
  Sizes,      \* lengths of deployed codes
  MaxDepth,   \* STACK_MAX_DEPTH
  MaxSteps    \* bound: opcodes executed that do not end their frame

ASSUME WordAssumption == 0 \in Word
ASSUME AmountsAssumption ==
  /\ GasLimits \subseteq Nat /\ Intrinsic \subseteq Nat /\ Costs \subseteq Nat
  /\ GasParams \subseteq Nat /\ Sizes \subseteq Nat
  /\ MaxDepth \in Nat /\ MaxSteps \in Nat

\* gas.cairo
STORAGE_SET == 20000
STORAGE_UPDATE == 5000
STORAGE_CLEAR_REFUND == 4800
CREATE == 32000
CODE_DEPOSIT == 200
NEW_ACCOUNT == 25000
CALL_VALUE == 9000
CALL_STIPEND == 2300
COLD_SLOAD == 2100
COLD_ACCOUNT_ACCESS == 2600
WARM_ACCESS == 100

VARIABLES
  limit,     \* the gas limit
  original,  \* what the slot held before the transaction
  frames,    \* the frames, from the root to the one that runs
  steps,     \* opcodes executed that did not end their frame
  receipt    \* what the transaction used

vars == <<limit, original, frames, steps, receipt>>

\* "ends" is how the frame has stopped.  The last four fields are not in the code: the
\* gas and the refunds of the frames under this one, and, of the transaction as this
\* frame leaves it, what the writes of the slot cost beyond access and what creations
\* that reverted left in the counter.
Frame ==
  [gas : Nat, refund : Int, slot : Word, warm : BOOLEAN, static : BOOLEAN, create : BOOLEAN,
   ends : {"no", "stop", "revert", "halt"}, below : Nat, before : Int, paid : Nat, kept : Int]

NoReceipt == [done |-> FALSE, required |-> 0, refund |-> 0, used |-> 0, kept |-> 0]

Init ==
  /\ limit \in GasLimits
  /\ original \in Word
  /\ frames = <<>>
  /\ steps = 0
  /\ receipt = NoReceipt

Depth == Len(frames)
Top == frames[Depth]
Parent == frames[Depth - 1]

\* execute: a limit under the intrinsic cost, or too long an init code, uses nothing;
\* a collision or a balance that is too low halts the root before it runs.
Execute(intrinsic, create, invalid, fails, warm) ==
  /\ frames = <<>> /\ ~receipt.done
  /\ IF intrinsic > limit \/ (create /\ invalid)
     THEN receipt' = [NoReceipt EXCEPT !.done = TRUE] /\ frames' = frames
     ELSE /\ frames' = <<[gas |-> limit - intrinsic, refund |-> 0, slot |-> original, warm |-> warm,
                          static |-> FALSE, create |-> create,
                          ends |-> IF fails THEN "halt" ELSE "no",
                          below |-> 0, before |-> 0, paid |-> 0, kept |-> 0]>>
          /\ receipt' = receipt
  /\ UNCHANGED <<limit, original, steps>>

-----------------------------------------------------------------------------
(* Opcodes                                                                 *)

Running == frames # <<>> /\ Top.ends = "no"

\* The opcode leaves the frame that runs as f.
Becomes(f) ==
  /\ frames' = [frames EXCEPT ![Depth] = f]
  /\ IF f.ends = "no" THEN steps < MaxSteps /\ steps' = steps + 1 ELSE steps' = steps
  /\ UNCHANGED <<limit, original, receipt>>

\* The opcode leaves it as f and starts a child.
Starts(f, gas, static, create) ==
  /\ frames' = Append([frames EXCEPT ![Depth] = f],
       [f EXCEPT !.gas = gas, !.refund = 0, !.static = static, !.create = create,
                 !.below = f.below + f.gas, !.before = f.before + f.refund])
  /\ steps < MaxSteps /\ steps' = steps + 1
  /\ UNCHANGED <<limit, original, receipt>>

\* Mutant of Charge: gas is taken without a look at what is left.
ChargeUnchecked(f, amount) == [f EXCEPT !.gas = @ - amount]

\* charge_gas
Charge(f, amount) ==
  IF amount <= f.gas THEN [f EXCEPT !.gas = @ - amount]
  ELSE [f EXCEPT !.gas = 0, !.ends = "halt"]

Other(cost) == Running /\ Becomes(Charge(Top, cost))

\* STOP, RETURN, SELFDESTRUCT and the end of the code; REVERT; what halts.
Ends(how) == Running /\ Becomes([Top EXCEPT !.ends = how])

\* What a write costs beyond the access.
ChangeCost(current, new) ==
  IF current # original \/ current = new THEN 0
  ELSE IF original = 0 THEN STORAGE_SET - WARM_ACCESS
  ELSE STORAGE_UPDATE - COLD_SLOAD - WARM_ACCESS

\* Mutant of SlotRefund: a slot that is set again after it was cleared keeps the refund.
SlotRefundKept(current, new) ==
  IF current = new THEN 0
  ELSE (IF original # 0 /\ current # 0 /\ new = 0 THEN STORAGE_CLEAR_REFUND ELSE 0)
     + (IF new # original THEN 0
        ELSE IF original = 0 THEN STORAGE_SET - WARM_ACCESS
        ELSE STORAGE_UPDATE - COLD_SLOAD - WARM_ACCESS)

SlotRefund(current, new) ==
  IF current = new THEN 0
  ELSE (IF original = 0 THEN 0
        ELSE IF current = 0 THEN -STORAGE_CLEAR_REFUND
        ELSE IF new = 0 THEN STORAGE_CLEAR_REFUND ELSE 0)
     + (IF new # original THEN 0
        ELSE IF original = 0 THEN STORAGE_SET - WARM_ACCESS
        ELSE STORAGE_UPDATE - COLD_SLOAD - WARM_ACCESS)

\* exec_sstore.  A static context pays before it halts.
Sstore(new) ==
  /\ Running
  /\ LET change == ChangeCost(Top.slot, new)
         f == Charge(Top, change + WARM_ACCESS + (IF Top.warm THEN 0 ELSE COLD_SLOAD))
         r == [f EXCEPT !.refund = @ + SlotRefund(Top.slot, new)]
     IN  Becomes(IF Top.gas <= CALL_STIPEND THEN [Top EXCEPT !.gas = 0, !.ends = "halt"]
                 ELSE IF f.ends = "halt" THEN f
                 ELSE IF Top.static THEN [r EXCEPT !.ends = "halt"]
                 ELSE [r EXCEPT !.slot = new, !.warm = TRUE, !.paid = @ + change])

AllButOne64th(gas) == gas - gas \div 64

\* compute_message_call_gas
MessageCallGas(param, gas) ==
  IF param < AllButOne64th(gas) THEN param ELSE AllButOne64th(gas)

\* Mutant of ExtraGas: a transfer costs nothing.
ExtraGasUnpaid(kind, value, alive, warm) ==
  (IF warm THEN WARM_ACCESS ELSE COLD_ACCOUNT_ACCESS)
  + (IF kind = "call" /\ value /\ ~alive THEN NEW_ACCOUNT ELSE 0)

ExtraGas(kind, value, alive, warm) ==
  (IF warm THEN WARM_ACCESS ELSE COLD_ACCOUNT_ACCESS)
  + (IF kind = "call" /\ value /\ ~alive THEN NEW_ACCOUNT ELSE 0)
  + (IF value THEN CALL_VALUE ELSE 0)

\* exec_call, exec_callcode, exec_delegatecall and exec_staticcall.  The callee of a
\* call with value has the stipend on top; a call that is not possible, for the depth
\* or the balance, gives everything back, the stipend too.
Call(kind, param, value, alive, warm, poor, expansion) ==
  /\ Running
  /\ value => kind \in {"call", "callcode"}
  /\ poor => value
  /\ ~alive => kind = "call" /\ value  \* the others do not look
  /\ LET f == Charge(Top, ExtraGas(kind, value, alive, warm) + expansion)
         gas == MessageCallGas(param, f.gas)
         caller == [f EXCEPT !.gas = @ - gas]
         given == gas + (IF value THEN CALL_STIPEND ELSE 0)
     IN  IF f.ends = "halt" THEN Becomes(f)
         ELSE IF kind = "call" /\ value /\ Top.static THEN Becomes([caller EXCEPT !.ends = "halt"])
         ELSE IF poor \/ Depth > MaxDepth THEN Becomes([caller EXCEPT !.gas = @ + given])
         ELSE Starts(caller, given, Top.static \/ kind = "staticcall", FALSE)

\* exec_create.  A creation that is not possible, for the depth, the balance or the
\* nonce, costs nothing more; a collision costs what the init code would have had.
Create(cost, poor, collides, tooLong) ==
  /\ Running
  /\ LET f == Charge(Top, CREATE + cost)
         gas == AllButOne64th(f.gas)
         creator == [f EXCEPT !.gas = @ - gas]
     IN  IF f.ends = "halt" THEN Becomes(f)
         ELSE IF Top.static THEN Becomes([f EXCEPT !.ends = "halt"])
         ELSE IF poor \/ Depth > MaxDepth THEN Becomes(f)
         ELSE IF collides THEN Becomes(creator)
         ELSE IF tooLong THEN Becomes([creator EXCEPT !.gas = 0, !.ends = "halt"])
         ELSE Starts(creator, gas, FALSE, TRUE)

-----------------------------------------------------------------------------
(* The end of a frame                                                      *)

\* The parent goes on as f.
Resumes(f) ==
  /\ frames' = [SubSeq(frames, 1, Depth - 1) EXCEPT ![Depth - 1] = f]
  /\ UNCHANGED <<limit, original, steps, receipt>>

\* What a parent has of a child that succeeded and has gas left.
Merged(gas) ==
  [Parent EXCEPT !.gas = @ + gas, !.refund = @ + Top.refund, !.slot = Top.slot,
                 !.warm = Top.warm, !.paid = Top.paid, !.kept = Top.kept]

\* CallHelper.finalize_parent
FinalizeCall ==
  /\ Depth > 1 /\ ~Top.create
  /\ \/ Top.ends = "halt" /\ Resumes(Parent)
     \/ Top.ends = "revert" /\ Resumes([Parent EXCEPT !.gas = @ + Top.gas])
     \/ Top.ends = "stop" /\ Resumes(Merged(Top.gas))

\* CreateHelper.finalize_parent.  A creation that reverts leaves its refunds to the
\* parent, unlike a call; one whose code cannot be paid for, or is not valid, has
\* neither gas nor refunds to give back.
FinalizeCreate(size, valid) ==
  /\ Depth > 1 /\ Top.create
  /\ \/ Top.ends = "halt" /\ Resumes(Parent)
     \/ /\ Top.ends = "revert"
        /\ Resumes([Parent EXCEPT !.gas = @ + Top.gas, !.refund = @ + Top.refund,
                                  !.kept = @ + Top.refund])
     \/ /\ Top.ends = "stop"
        /\ LET cost == CODE_DEPOSIT * size IN
             Resumes(IF valid /\ cost <= Top.gas THEN Merged(Top.gas - cost) ELSE Parent)

\* Mutant of Capped: the cap is forgotten.
Uncapped(refund, required) == refund

\* A fifth of what was required, at most.
Capped(refund, required) == IF refund >= required \div 5 THEN required \div 5 ELSE refund

\* The root has ended: run, _finalize_create_tx, and the rest of execute.
Settle(size, valid) ==
  /\ Depth = 1 /\ Top.ends # "no"
  /\ LET cost == IF Top.create THEN CODE_DEPOSIT * size ELSE 0
         deposited == Top.create => valid /\ cost <= Top.gas
         succeeds == Top.ends = "stop" /\ deposited
         left == IF succeeds THEN Top.gas - cost ELSE IF Top.ends = "revert" THEN Top.gas ELSE 0
         required == limit - left
         refund == Capped(IF succeeds THEN Top.refund ELSE 0, required)
     IN  receipt' = [done |-> TRUE, required |-> required, refund |-> refund,
                     used |-> required - refund, kept |-> IF succeeds THEN Top.kept ELSE 0]
  /\ frames' = <<>>
  /\ UNCHANGED <<limit, original, steps>>

-----------------------------------------------------------------------------

Opcode ==
  \/ \E cost \in Costs : Other(cost)
  \/ \E how \in {"stop", "revert", "halt"} : Ends(how)
  \/ \E new \in Word : Sstore(new)
  \/ \E kind \in {"call", "callcode", "delegatecall", "staticcall"}, param \in GasParams,
        value, alive, warm, poor \in BOOLEAN, expansion \in Costs :
       Call(kind, param, value, alive, warm, poor, expansion)
  \/ \E cost \in Costs, poor, collides, tooLong \in BOOLEAN : Create(cost, poor, collides, tooLong)

Finalize ==
  \/ FinalizeCall
  \/ \E size \in Sizes, valid \in BOOLEAN : FinalizeCreate(size, valid) \/ Settle(size, valid)

Next ==
  \/ \E intrinsic \in Intrinsic, create, invalid, fails, warm \in BOOLEAN :
       Execute(intrinsic, create, invalid, fails, warm)
  \/ Opcode
  \/ Finalize

Spec == Init /\ [][Next]_vars

-----------------------------------------------------------------------------
(* Properties                                                              *)

\* The gas of all frames.
TotalGas == Top.below + Top.gas

\* What the slot is worth to the counter: what its writes cost less what they refund
\* comes to this, from the original value to the one it has, along any path.
Worth(current) ==
  IF current = original THEN 0
  ELSE IF original = 0 THEN STORAGE_SET - WARM_ACCESS
  ELSE IF current = 0 THEN STORAGE_UPDATE - COLD_SLOAD - WARM_ACCESS - STORAGE_CLEAR_REFUND
  ELSE STORAGE_UPDATE - COLD_SLOAD - WARM_ACCESS

TypeOK ==
  /\ limit \in Nat
  /\ original \in Word
  /\ frames \in Seq(Frame)
  /\ steps \in Nat
  /\ receipt \in [done : BOOLEAN, required : Nat, refund : Int, used : Int, kept : Int]
  /\ \A k \in DOMAIN frames :
       /\ frames[k].below = IF k = 1 THEN 0 ELSE frames[k - 1].below + frames[k - 1].gas
       /\ frames[k].before = IF k = 1 THEN 0 ELSE frames[k - 1].before + frames[k - 1].refund

\* No call, creation, stipend or failure gives the frames of a transaction more gas
\* than they had together, and the sender gets back no more than that.
GasIsNeverCreated ==
  [][frames # <<>> =>
       /\ frames' # <<>> => TotalGas' <= TotalGas
       /\ frames' = <<>> => limit - receipt'.required <= TotalGas]_vars

\* Whatever the order of writes, calls and failures, the counter is what the writes
\* that stand have cost less what the slot is worth now: a slot that is back at its
\* original value has cost its accesses only, and a write that was undone refunds
\* nothing.  The exception is what creations that reverted left in it.
RefundIsEarned ==
  \A k \in DOMAIN frames : frames[k].ends # "halt" =>
    frames[k].before + frames[k].refund = frames[k].paid + frames[k].kept - Worth(frames[k].slot)

\* The sender is charged at most the gas limit, and four fifths of the gas that was
\* required at least, unless creations that reverted took from the counter.
ChargeWithinLimit ==
  receipt.done /\ receipt.kept >= 0 =>
    /\ receipt.used <= receipt.required
    /\ receipt.required <= limit
    /\ 5 * receipt.used >= 4 * receipt.required

=============================================================================
