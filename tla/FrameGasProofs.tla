--------------------------- MODULE FrameGasProofs ---------------------------
(***************************************************************************)
(* Proofs about FrameGas, for every gas limit, cost, word and depth.        *)
(*                                                                         *)
(* The frames never hold more gas than the limit, each frame's counter is    *)
(* worth what its writes cost, and a slot that is changed was paid for: the   *)
(* last is what keeps the counter of the root from being negative, so that   *)
(* the charge stays within the limit.                                       *)
(***************************************************************************)
EXTENDS FrameGas, TLAPS, SequenceTheorems

\* What has been paid, at least, for a slot to hold what it does.
Least(current) ==
  IF current = original THEN 0
  ELSE IF original = 0 THEN STORAGE_SET - WARM_ACCESS
  ELSE STORAGE_UPDATE - COLD_SLOAD - WARM_ACCESS

Earned(f) == f.before + f.refund = f.paid + f.kept - Worth(f.slot)

FrameOK(f) ==
  /\ f \in Frame
  /\ f.paid >= Least(f.slot)
  /\ f.ends # "halt" => Earned(f)

Linked(s) ==
  \A k \in 1..Len(s) :
    /\ s[k].below = IF k = 1 THEN 0 ELSE s[k - 1].below + s[k - 1].gas
    /\ s[k].before = IF k = 1 THEN 0 ELSE s[k - 1].before + s[k - 1].refund

\* Only the last frame may have stopped.
Waiting(s) == \A k \in 1..Len(s) : k # Len(s) => s[k].ends = "no"

Receipts == [done : BOOLEAN, required : Nat, refund : Int, used : Int, kept : Int]

IInv ==
  /\ limit \in Nat /\ original \in Word /\ steps \in Nat /\ receipt \in Receipts
  /\ frames \in Seq(Frame)
  /\ \A k \in 1..Len(frames) : FrameOK(frames[k])
  /\ Linked(frames) /\ Waiting(frames)
  /\ frames # <<>> => TotalGas <= limit
  /\ ChargeWithinLimit

\* Two frames of the same place in the stack.
SamePlace(f, g) == f.below = g.below /\ f.before = g.before

\* The types of the fields that are numbers.
LEMMA Fields ==
  ASSUME NEW f \in Frame
  PROVE  /\ f.gas \in Nat /\ f.below \in Nat /\ f.paid \in Nat
         /\ f.refund \in Int /\ f.before \in Int /\ f.kept \in Int
BY DEF Frame

LEMMA InvImplies == IInv => TypeOK /\ RefundIsEarned
<1> SUFFICES ASSUME IInv PROVE TypeOK /\ RefundIsEarned
  OBVIOUS
<1>1. DOMAIN frames = 1..Len(frames)
  BY DEF IInv
<1>2. TypeOK
  BY <1>1 DEF IInv, TypeOK, Linked, Receipts
<1>3. RefundIsEarned
  BY <1>1 DEF IInv, RefundIsEarned, FrameOK, Earned
<1> QED
  BY <1>2, <1>3

LEMMA TopOK ==
  ASSUME IInv, frames # <<>>
  PROVE  /\ Depth \in Nat /\ Depth >= 1
         /\ Top \in Frame /\ FrameOK(Top)
         /\ TotalGas <= limit
BY DEF IInv, Depth, Top, FrameOK

LEMMA ParentOK ==
  ASSUME IInv, frames # <<>>, Depth > 1
  PROVE  /\ Parent \in Frame /\ FrameOK(Parent)
         /\ Top.below = Parent.below + Parent.gas
         /\ Top.before = Parent.before + Parent.refund
<1>1. Depth \in Nat /\ Depth - 1 \in 1..Len(frames) /\ Depth \in 1..Len(frames) /\ Depth # 1
  BY DEF IInv, Depth
<1> QED
  BY <1>1 DEF IInv, Linked, Top, Parent, FrameOK

-----------------------------------------------------------------------------
(* The three ways the stack of frames changes                              *)

LEMMA StackInv ==
  ASSUME IInv, frames' \in Seq(Frame), frames' # <<>>,
         \A k \in 1..Len(frames') : FrameOK(frames'[k]),
         Linked(frames'), Waiting(frames'), frames # <<>>, TotalGas' <= TotalGas,
         steps' \in Nat, UNCHANGED <<limit, original, receipt>>
  PROVE  IInv'
<1>1. TotalGas <= limit
  BY TopOK
<1>2. TotalGas \in Int /\ TotalGas' \in Int
  <2>1. Len(frames) \in 1..Len(frames) /\ Len(frames') \in 1..Len(frames')
    BY DEF IInv
  <2>2. frames[Len(frames)] \in Frame /\ frames'[Len(frames')] \in Frame
    BY <2>1 DEF IInv, FrameOK
  <2> QED
    BY <2>2, Fields DEF TotalGas, Top, Depth
<1>3. TotalGas' <= limit
  BY <1>1, <1>2 DEF IInv
<1>4. \A k \in 1..Len(frames') : FrameOK(frames[k])'
  BY DEF FrameOK, Least, Earned, Worth
<1>5. Linked(frames)' /\ Waiting(frames)'
  BY DEF Linked, Waiting
<1>6. ChargeWithinLimit'
  BY DEF IInv, ChargeWithinLimit
<1> QED
  BY <1>3, <1>4, <1>5, <1>6 DEF IInv

LEMMA BecomesInv ==
  ASSUME IInv, frames # <<>>, NEW f \in Frame, FrameOK(f), SamePlace(f, Top),
         f.gas <= Top.gas, Becomes(f)
  PROVE  IInv' /\ TotalGas' <= TotalGas /\ frames' # <<>>
<1>1. /\ Depth = Len(frames) /\ Depth \in Nat /\ Depth >= 1
      /\ frames' = [frames EXCEPT ![Depth] = f]
      /\ frames \in Seq(Frame)
      /\ Top = frames[Depth] /\ Top \in Frame
  BY TopOK DEF Depth, Becomes, IInv, Top
<1>2. /\ frames' \in Seq(Frame)
      /\ Len(frames') = Depth
      /\ \A k \in 1..Depth : frames'[k] = IF k = Depth THEN f ELSE frames[k]
  BY <1>1
<1>3. \A k \in 1..Len(frames') : FrameOK(frames'[k])
  BY <1>1, <1>2 DEF IInv
<1>4. Linked(frames') /\ Waiting(frames')
  BY <1>1, <1>2 DEF IInv, Linked, Waiting, SamePlace
<1>5. TotalGas' = f.below + f.gas /\ TotalGas = Top.below + Top.gas
  BY <1>1, <1>2 DEF TotalGas, Top, Depth
<1>6. TotalGas' <= TotalGas
  BY <1>1, <1>5, Fields DEF SamePlace
<1>7. steps' \in Nat /\ UNCHANGED <<limit, original, receipt>>
  BY DEF Becomes, IInv
<1>8. frames' # <<>>
  BY <1>1, <1>2
<1> QED
  BY <1>2, <1>3, <1>4, <1>6, <1>7, <1>8, StackInv

LEMMA StartsInv ==
  ASSUME IInv, frames # <<>>, NEW f \in Frame, FrameOK(f), SamePlace(f, Top),
         f.ends = "no", NEW gas \in Nat, f.gas + gas <= Top.gas,
         NEW static \in BOOLEAN, NEW create \in BOOLEAN, Starts(f, gas, static, create)
  PROVE  IInv' /\ TotalGas' <= TotalGas /\ frames' # <<>>
<1> DEFINE child == [f EXCEPT !.gas = gas, !.refund = 0, !.static = static, !.create = create,
                              !.below = f.below + f.gas, !.before = f.before + f.refund]
           n == Depth + 1
<1>1. /\ Depth = Len(frames) /\ Depth \in Nat /\ Depth >= 1
      /\ frames' = Append([frames EXCEPT ![Depth] = f], child)
      /\ frames \in Seq(Frame)
      /\ Top = frames[Depth] /\ Top \in Frame
  BY TopOK DEF Depth, Starts, IInv, Top
<1>2. /\ child \in Frame
      /\ child.gas = gas /\ child.refund = 0 /\ child.slot = f.slot /\ child.ends = "no"
      /\ child.below = f.below + f.gas /\ child.before = f.before + f.refund
      /\ child.paid = f.paid /\ child.kept = f.kept
  <2>1. f.below + f.gas \in Nat /\ f.before + f.refund \in Int
    BY Fields
  <2> DEFINE below == f.below + f.gas
             before == f.before + f.refund
  <2> HIDE DEF below, before
  <2>2. below \in Nat /\ before \in Int
    BY <2>1 DEF below, before
  <2>3. [f EXCEPT !.gas = gas, !.refund = 0, !.static = static, !.create = create,
                  !.below = below, !.before = before] \in Frame
    <3>1. 0 \in Int
      OBVIOUS
    <3> QED
      BY <2>2, <3>1, Zenon DEF Frame
  <2>4. child \in Frame
    BY <2>3 DEF below, before
  <2> QED
    BY <2>4 DEF Frame
<1>3. FrameOK(child)
  <2> HIDE DEF child
  <2>1. f.before \in Int /\ f.refund \in Int /\ f.paid \in Nat /\ f.kept \in Int
    BY DEF Frame
  <2> QED
    BY <1>2, <2>1 DEF FrameOK, Earned
<1> HIDE DEF child
<1>4. /\ frames' \in Seq(Frame)
      /\ Len(frames') = n
      /\ \A k \in 1..n : frames'[k] = IF k = n THEN child ELSE IF k = Depth THEN f ELSE frames[k]
  <2>1. /\ [frames EXCEPT ![Depth] = f] \in Seq(Frame)
        /\ Len([frames EXCEPT ![Depth] = f]) = Depth
        /\ \A k \in 1..Depth : [frames EXCEPT ![Depth] = f][k] = IF k = Depth THEN f ELSE frames[k]
    BY <1>1
  <2> QED
    BY <1>1, <1>2, <2>1
<1>5. \A k \in 1..Len(frames') : FrameOK(frames'[k])
  BY <1>1, <1>3, <1>4 DEF IInv
<1>11. Waiting(frames')
  BY <1>1, <1>4 DEF IInv, Waiting
<1>6. Linked(frames')
  <2> SUFFICES ASSUME NEW k \in 1..n
               PROVE  /\ frames'[k].below = IF k = 1 THEN 0 ELSE frames'[k - 1].below + frames'[k - 1].gas
                      /\ frames'[k].before = IF k = 1 THEN 0 ELSE frames'[k - 1].before + frames'[k - 1].refund
    BY <1>4 DEF Linked
  <2>1. CASE k = n
    BY <1>1, <1>2, <1>4, <2>1
  <2>2. CASE k # n
    BY <1>1, <1>4, <2>2 DEF IInv, Linked, SamePlace
  <2> QED
    BY <2>1, <2>2
<1>7. TotalGas' = child.below + child.gas /\ TotalGas = Top.below + Top.gas
  BY <1>1, <1>4 DEF TotalGas, Top, Depth
<1>8. TotalGas' <= TotalGas
  <2>1. f.below \in Nat /\ f.gas \in Nat /\ Top.gas \in Nat /\ f.below = Top.below
    BY <1>1, Fields DEF SamePlace
  <2> QED
    BY <1>2, <1>7, <2>1
<1>9. steps' \in Nat /\ UNCHANGED <<limit, original, receipt>>
  BY DEF Starts, IInv
<1>10. frames' # <<>>
  BY <1>1, <1>4
<1> QED
  BY <1>4, <1>11, <1>5, <1>6, <1>8, <1>9, <1>10, StackInv

LEMMA ResumesInv ==
  ASSUME IInv, frames # <<>>, Depth > 1, NEW f \in Frame, FrameOK(f), SamePlace(f, Parent),
         f.gas <= Parent.gas + Top.gas, Resumes(f)
  PROVE  IInv' /\ TotalGas' <= TotalGas /\ frames' # <<>>
<1> DEFINE n == Depth - 1
<1>1. /\ Depth = Len(frames) /\ n \in Nat /\ n >= 1 /\ Depth = n + 1
      /\ frames' = [SubSeq(frames, 1, n) EXCEPT ![n] = f]
      /\ frames \in Seq(Frame)
      /\ Parent = frames[n] /\ Parent \in Frame /\ Top \in Frame
      /\ Top.below = Parent.below + Parent.gas
  BY TopOK, ParentOK DEF Depth, Resumes, IInv, Parent
<1> HIDE DEF n
<1>2. /\ SubSeq(frames, 1, n) \in Seq(Frame)
      /\ Len(SubSeq(frames, 1, n)) = n
      /\ \A k \in 1..n : SubSeq(frames, 1, n)[k] = frames[k]
  <2>1. \A i \in 1..n : frames[i] \in Frame
    BY <1>1 DEF IInv, FrameOK
  <2> QED
    BY <1>1, <2>1, SubSeqProperties
<1>3. /\ frames' \in Seq(Frame)
      /\ Len(frames') = n
      /\ \A k \in 1..n : frames'[k] = IF k = n THEN f ELSE frames[k]
  <2> DEFINE rest == SubSeq(frames, 1, n)
  <2>1. frames' = [rest EXCEPT ![n] = f] /\ rest \in Seq(Frame) /\ Len(rest) = n
          /\ \A k \in 1..n : rest[k] = frames[k]
    BY <1>1, <1>2
  <2> HIDE DEF rest
  <2> QED
    BY <1>1, <2>1
<1>4. \A k \in 1..Len(frames') : FrameOK(frames'[k])
  BY <1>1, <1>3 DEF IInv
<1>10. Waiting(frames')
  BY <1>1, <1>3 DEF IInv, Waiting
<1>5. Linked(frames')
  <2> SUFFICES ASSUME NEW k \in 1..n
               PROVE  /\ frames'[k].below = IF k = 1 THEN 0 ELSE frames'[k - 1].below + frames'[k - 1].gas
                      /\ frames'[k].before = IF k = 1 THEN 0 ELSE frames'[k - 1].before + frames'[k - 1].refund
    BY <1>3 DEF Linked
  <2>1. /\ frames[k].below = IF k = 1 THEN 0 ELSE frames[k - 1].below + frames[k - 1].gas
        /\ frames[k].before = IF k = 1 THEN 0 ELSE frames[k - 1].before + frames[k - 1].refund
    BY <1>1 DEF IInv, Linked
  <2>2. frames'[k].below = frames[k].below /\ frames'[k].before = frames[k].before
    BY <1>1, <1>3 DEF SamePlace
  <2>3. k # 1 => frames'[k - 1] = frames[k - 1]
    BY <1>1, <1>3
  <2> QED
    BY <2>1, <2>2, <2>3
<1>6. TotalGas' = f.below + f.gas /\ TotalGas = Top.below + Top.gas
  BY <1>1, <1>3 DEF TotalGas, Top, Depth
<1>7. TotalGas' <= TotalGas
  BY SMTT(60), <1>1, <1>6, Fields DEF SamePlace
<1>8. steps' \in Nat /\ UNCHANGED <<limit, original, receipt>>
  BY DEF Resumes, IInv
<1>9. frames' # <<>>
  BY <1>1, <1>3
<1> QED
  BY <1>3, <1>10, <1>4, <1>5, <1>7, <1>8, <1>9, StackInv

-----------------------------------------------------------------------------
(* What opcodes make of a frame                                            *)

\* A frame that has stopped, and one with other gas.
LEMMA EndsOK ==
  ASSUME NEW f \in Frame, FrameOK(f), NEW how \in {"stop", "revert", "halt"}, f.ends = "no"
  PROVE  LET r == [f EXCEPT !.ends = how] IN
           r \in Frame /\ FrameOK(r) /\ SamePlace(r, f) /\ r.gas = f.gas
<1> DEFINE r == [f EXCEPT !.ends = how]
<1>1. /\ r \in Frame /\ r.gas = f.gas /\ r.slot = f.slot /\ r.refund = f.refund
      /\ r.before = f.before /\ r.below = f.below /\ r.paid = f.paid /\ r.kept = f.kept
  BY DEF Frame
<1> HIDE DEF r
<1>2. FrameOK(r) /\ SamePlace(r, f)
  BY <1>1 DEF FrameOK, Earned, SamePlace
<1> QED
  BY <1>1, <1>2 DEF r

LEMMA GasOK ==
  ASSUME NEW f \in Frame, FrameOK(f), NEW gas \in Nat
  PROVE  LET r == [f EXCEPT !.gas = gas] IN
           r \in Frame /\ FrameOK(r) /\ SamePlace(r, f) /\ r.gas = gas /\ r.ends = f.ends
<1> DEFINE r == [f EXCEPT !.gas = gas]
<1>1. /\ r \in Frame /\ r.gas = gas /\ r.slot = f.slot /\ r.refund = f.refund /\ r.ends = f.ends
      /\ r.before = f.before /\ r.below = f.below /\ r.paid = f.paid /\ r.kept = f.kept
  BY DEF Frame
<1> HIDE DEF r
<1>2. FrameOK(r) /\ SamePlace(r, f)
  BY <1>1 DEF FrameOK, Earned, SamePlace
<1> QED
  BY <1>1, <1>2 DEF r

\* A frame that has run out of gas.
LEMMA OutOfGasOK ==
  ASSUME NEW f \in Frame, FrameOK(f)
  PROVE  LET r == [f EXCEPT !.gas = 0, !.ends = "halt"] IN
           r \in Frame /\ FrameOK(r) /\ SamePlace(r, f) /\ r.gas = 0 /\ r.ends = "halt"
<1> DEFINE r == [f EXCEPT !.gas = 0, !.ends = "halt"]
<1>1. 0 \in Nat
  OBVIOUS
<1>2. r \in Frame
  BY <1>1, Zenon DEF Frame
<1>3. /\ r.gas = 0 /\ r.slot = f.slot /\ r.ends = "halt"
      /\ r.before = f.before /\ r.below = f.below /\ r.paid = f.paid
  BY DEF Frame
<1> HIDE DEF r
<1>4. FrameOK(r) /\ SamePlace(r, f)
  BY <1>2, <1>3 DEF FrameOK, SamePlace
<1> QED
  BY <1>2, <1>3, <1>4 DEF r

LEMMA ChargeOK ==
  ASSUME NEW f \in Frame, FrameOK(f), f.ends = "no", NEW amount \in Nat
  PROVE  LET r == Charge(f, amount) IN
           /\ r \in Frame /\ FrameOK(r) /\ SamePlace(r, f) /\ r.gas <= f.gas
           /\ \/ /\ r.ends = "no" /\ amount <= f.gas /\ r.gas = f.gas - amount
                 /\ r = [f EXCEPT !.gas = f.gas - amount]
              \/ r.ends = "halt"
<1>1. f.gas \in Nat
  BY Fields
<1>2. CASE amount <= f.gas
  <2>1. f.gas - amount \in Nat /\ f.gas - amount <= f.gas
    BY <1>1, <1>2
  <2>2. Charge(f, amount) = [f EXCEPT !.gas = f.gas - amount]
    BY <1>2 DEF Charge
  <2> QED
    BY <1>2, <2>1, <2>2, GasOK
<1>3. CASE ~(amount <= f.gas)
  <2>1. Charge(f, amount) = [f EXCEPT !.gas = 0, !.ends = "halt"]
    BY <1>3 DEF Charge
  <2>2. LET r == Charge(f, amount) IN
          r \in Frame /\ FrameOK(r) /\ SamePlace(r, f) /\ r.gas = 0 /\ r.ends = "halt"
    BY <2>1, OutOfGasOK
  <2> DEFINE r == Charge(f, amount)
  <2>3. r \in Frame /\ FrameOK(r) /\ SamePlace(r, f) /\ r.gas = 0 /\ r.ends = "halt"
    BY <2>2
  <2> HIDE DEF r
  <2>4. r.gas <= f.gas
    BY <1>1, <2>3
  <2> QED
    BY <2>3, <2>4 DEF r
<1> QED
  BY <1>2, <1>3

\* The refund of a write is what it cost and what it changes in worth.
LEMMA Metering ==
  ASSUME NEW current, NEW new
  PROVE  /\ SlotRefund(current, new) = ChangeCost(current, new) + Worth(current) - Worth(new)
         /\ ChangeCost(current, new) \in Nat
         /\ SlotRefund(current, new) \in Int
         /\ Worth(current) \in Int
         /\ ChangeCost(current, new) + Least(current) >= Least(new)
BY DEF SlotRefund, ChangeCost, Worth, Least, STORAGE_SET, STORAGE_UPDATE, STORAGE_CLEAR_REFUND,
       COLD_SLOAD, WARM_ACCESS

LEMMA LeastWorth ==
  ASSUME NEW current
  PROVE  Least(current) \in Nat /\ Worth(current) \in Int /\ Worth(current) <= Least(current)
BY DEF Worth, Least, STORAGE_SET, STORAGE_UPDATE, STORAGE_CLEAR_REFUND, COLD_SLOAD, WARM_ACCESS

LEMMA SixtyFourth ==
  ASSUME NEW gas \in Nat
  PROVE  AllButOne64th(gas) \in Nat /\ AllButOne64th(gas) <= gas
BY DEF AllButOne64th

LEMMA Given ==
  ASSUME NEW param \in Nat, NEW gas \in Nat
  PROVE  MessageCallGas(param, gas) \in Nat /\ MessageCallGas(param, gas) <= gas
BY SixtyFourth DEF MessageCallGas

-----------------------------------------------------------------------------
(* One lemma per action                                                    *)

\* What a step of the transaction may not do to the gas.
GasStep ==
  frames # <<>> =>
    /\ frames' # <<>> => TotalGas' <= TotalGas
    /\ frames' = <<>> => limit - receipt'.required <= TotalGas

LEMMA BecomesGood ==
  ASSUME IInv, frames # <<>>, NEW f \in Frame, FrameOK(f), SamePlace(f, Top),
         f.gas <= Top.gas, Becomes(f)
  PROVE  IInv' /\ GasStep
BY BecomesInv DEF GasStep

LEMMA OtherStep ==
  ASSUME IInv, NEW cost \in Costs, Other(cost)
  PROVE  IInv' /\ GasStep
<1>1. frames # <<>> /\ Top.ends = "no" /\ cost \in Nat
  BY AmountsAssumption DEF Other, Running
<1> DEFINE f == Charge(Top, cost)
<1>2. f \in Frame /\ FrameOK(f) /\ SamePlace(f, Top) /\ f.gas <= Top.gas
  BY <1>1, TopOK, ChargeOK
<1>3. Becomes(f)
  BY DEF Other
<1> HIDE DEF f
<1> QED
  BY <1>1, <1>2, <1>3, BecomesGood

LEMMA EndsStep ==
  ASSUME IInv, NEW how \in {"stop", "revert", "halt"}, Ends(how)
  PROVE  IInv' /\ GasStep
<1>1. frames # <<>> /\ Top.ends = "no" /\ Top.gas \in Nat
  BY TopOK, Fields DEF Ends, Running
<1> DEFINE f == [Top EXCEPT !.ends = how]
<1>2. f \in Frame /\ FrameOK(f) /\ SamePlace(f, Top) /\ f.gas = Top.gas
  BY <1>1, TopOK, EndsOK
<1>3. Becomes(f)
  BY DEF Ends
<1> HIDE DEF f
<1> QED
  BY <1>1, <1>2, <1>3, BecomesGood

\* A write that is made: its cost, its refund and the slot go together.
LEMMA WriteOK ==
  ASSUME NEW f \in Frame, FrameOK(f), f.ends = "no", NEW new \in Word
  PROVE  LET r == [f EXCEPT !.refund = f.refund + SlotRefund(f.slot, new), !.slot = new,
                            !.warm = TRUE, !.paid = f.paid + ChangeCost(f.slot, new)]
         IN  r \in Frame /\ FrameOK(r) /\ SamePlace(r, f) /\ r.gas = f.gas
<1> DEFINE refund == f.refund + SlotRefund(f.slot, new)
           paid == f.paid + ChangeCost(f.slot, new)
           r == [f EXCEPT !.refund = refund, !.slot = new, !.warm = TRUE, !.paid = paid]
<1>1. refund \in Int /\ paid \in Nat /\ refund = f.refund + SlotRefund(f.slot, new)
        /\ paid = f.paid + ChangeCost(f.slot, new)
  BY Fields, Metering
<1> HIDE DEF refund, paid
<1>2. r \in Frame
  <2>1. TRUE \in BOOLEAN
    OBVIOUS
  <2> QED
    BY <1>1, <2>1, Zenon DEF Frame
<1>3. /\ r.gas = f.gas /\ r.refund = refund /\ r.slot = new /\ r.paid = paid
      /\ r.below = f.below /\ r.before = f.before /\ r.kept = f.kept
  BY DEF Frame
<1> HIDE DEF r
<1>4. r.paid >= Least(r.slot)
  <2>1. f.paid >= Least(f.slot) /\ Least(f.slot) \in Nat /\ Least(new) \in Nat /\ f.paid \in Nat
    BY LeastWorth, Fields DEF FrameOK
  <2>2. ChangeCost(f.slot, new) \in Nat /\ ChangeCost(f.slot, new) + Least(f.slot) >= Least(new)
    BY Metering
  <2> QED
    BY <1>1, <1>3, <2>1, <2>2
<1>5. Earned(r)
  <2>1. f.before + f.refund = f.paid + f.kept - Worth(f.slot)
    BY DEF FrameOK, Earned
  <2>2. f.before \in Int /\ f.refund \in Int /\ f.paid \in Nat /\ f.kept \in Int
    BY Fields
  <2>3. /\ SlotRefund(f.slot, new) = ChangeCost(f.slot, new) + Worth(f.slot) - Worth(new)
        /\ ChangeCost(f.slot, new) \in Nat /\ Worth(f.slot) \in Int /\ Worth(new) \in Int
    BY Metering, LeastWorth
  <2>4. r.before + r.refund = r.paid + r.kept - Worth(new)
    BY <1>1, <1>3, <2>1, <2>2, <2>3
  <2> QED
    BY <1>3, <2>4 DEF Earned
<1> QED
  BY <1>2, <1>3, <1>4, <1>5 DEF FrameOK, SamePlace, r, refund, paid

\* A static context that would write: the counter no longer matters.
LEMMA HaltedOK ==
  ASSUME NEW f \in Frame, FrameOK(f), NEW refund \in Int
  PROVE  LET r == [f EXCEPT !.refund = refund, !.ends = "halt"]
         IN  r \in Frame /\ FrameOK(r) /\ SamePlace(r, f) /\ r.gas = f.gas
<1> DEFINE r == [f EXCEPT !.refund = refund, !.ends = "halt"]
<1>1. r \in Frame
  BY Zenon DEF Frame
<1>2. /\ r.gas = f.gas /\ r.slot = f.slot /\ r.paid = f.paid /\ r.ends = "halt"
      /\ r.below = f.below /\ r.before = f.before
  BY DEF Frame
<1> HIDE DEF r
<1> QED
  BY <1>1, <1>2 DEF FrameOK, SamePlace, r

LEMMA SstoreStep ==
  ASSUME IInv, NEW new \in Word, Sstore(new)
  PROVE  IInv' /\ GasStep
<1> DEFINE change == ChangeCost(Top.slot, new)
           f == Charge(Top, change + WARM_ACCESS + (IF Top.warm THEN 0 ELSE COLD_SLOAD))
           r == [f EXCEPT !.refund = @ + SlotRefund(Top.slot, new)]
           halted == [Top EXCEPT !.gas = 0, !.ends = "halt"]
           static == [r EXCEPT !.ends = "halt"]
           written == [r EXCEPT !.slot = new, !.warm = TRUE, !.paid = @ + change]
<1>1. frames # <<>> /\ Top.ends = "no" /\ Top \in Frame /\ FrameOK(Top) /\ Top.gas \in Nat
  BY TopOK, Fields DEF Sstore, Running
<1>2. \/ Becomes(halted)
      \/ f.ends = "halt" /\ Becomes(f)
      \/ f.ends # "halt" /\ Becomes(static)
      \/ f.ends # "halt" /\ Becomes(written)
  BY DEF Sstore
<1>3. change + WARM_ACCESS + (IF Top.warm THEN 0 ELSE COLD_SLOAD) \in Nat
  BY Metering DEF WARM_ACCESS, COLD_SLOAD
<1>4. f \in Frame /\ FrameOK(f) /\ SamePlace(f, Top) /\ f.gas <= Top.gas
  BY <1>1, <1>3, ChargeOK
<1>5. f.ends # "halt" => f.ends = "no" /\ f.slot = Top.slot
  <2>1. f.ends # "halt" => /\ f.ends = "no"
                           /\ f = [Top EXCEPT !.gas = Top.gas - (change + WARM_ACCESS + (IF Top.warm THEN 0 ELSE COLD_SLOAD))]
    BY <1>1, <1>3, ChargeOK
  <2> QED
    BY <1>1, <2>1 DEF Frame
<1>6. CASE Becomes(halted)
  <2>1. halted \in Frame /\ FrameOK(halted) /\ SamePlace(halted, Top) /\ halted.gas = 0
    BY <1>1, OutOfGasOK
  <2> HIDE DEF halted
  <2> QED
    BY <1>1, <1>6, <2>1, BecomesGood
<1>7. CASE Becomes(f)
  <2> HIDE DEF f
  <2> QED
    BY <1>1, <1>4, <1>7, BecomesGood
<1> HIDE DEF f, halted
<1>8. CASE f.ends # "halt" /\ Becomes(static)
  <2>1. r.refund = f.refund + SlotRefund(Top.slot, new) /\ f.refund \in Int
    BY <1>4 DEF Frame
  <2>2. f.refund + SlotRefund(Top.slot, new) \in Int
    BY <2>1, Metering
  <2>3. static = [f EXCEPT !.refund = f.refund + SlotRefund(Top.slot, new), !.ends = "halt"]
    BY <1>4 DEF Frame
  <2>4. static \in Frame /\ FrameOK(static) /\ SamePlace(static, f) /\ static.gas = f.gas
    BY <1>4, <2>2, <2>3, HaltedOK
  <2> HIDE DEF static
  <2>5. SamePlace(static, Top) /\ static.gas <= Top.gas
    BY <1>4, <2>4 DEF SamePlace
  <2> QED
    BY <1>1, <1>8, <2>4, <2>5, BecomesGood
<1>9. CASE f.ends # "halt" /\ Becomes(written)
  <2>1. written = [f EXCEPT !.refund = f.refund + SlotRefund(f.slot, new), !.slot = new,
                            !.warm = TRUE, !.paid = f.paid + ChangeCost(f.slot, new)]
    BY <1>4, <1>5, <1>9 DEF Frame
  <2>2. written \in Frame /\ FrameOK(written) /\ SamePlace(written, f) /\ written.gas = f.gas
    BY <1>4, <1>5, <1>9, <2>1, WriteOK
  <2> HIDE DEF written
  <2>3. SamePlace(written, Top) /\ written.gas <= Top.gas
    BY <1>4, <2>2 DEF SamePlace
  <2> QED
    BY <1>1, <1>9, <2>2, <2>3, BecomesGood
<1> QED
  BY <1>2, <1>6, <1>7, <1>8, <1>9

\* A caller that has given gas away.
LEMMA CallStep ==
  ASSUME IInv, NEW kind \in {"call", "callcode", "delegatecall", "staticcall"},
         NEW param \in GasParams, NEW value \in BOOLEAN, NEW alive \in BOOLEAN,
         NEW warm \in BOOLEAN, NEW poor \in BOOLEAN, NEW expansion \in Costs,
         Call(kind, param, value, alive, warm, poor, expansion)
  PROVE  IInv' /\ GasStep
<1> DEFINE cost == ExtraGas(kind, value, alive, warm) + expansion
           f == Charge(Top, cost)
           gas == MessageCallGas(param, f.gas)
           caller == [f EXCEPT !.gas = @ - gas]
           given == gas + (IF value THEN CALL_STIPEND ELSE 0)
           static == [caller EXCEPT !.ends = "halt"]
           back == [caller EXCEPT !.gas = @ + given]
<1>1. frames # <<>> /\ Top.ends = "no" /\ Top \in Frame /\ FrameOK(Top) /\ Top.gas \in Nat
  BY TopOK, Fields DEF Call, Running
<1>2. \/ f.ends = "halt" /\ Becomes(f)
      \/ f.ends # "halt" /\ Becomes(static)
      \/ f.ends # "halt" /\ Becomes(back)
      \/ f.ends # "halt" /\ Starts(caller, given, Top.static \/ kind = "staticcall", FALSE)
  BY DEF Call
<1>3. cost \in Nat /\ cost >= (IF value THEN CALL_VALUE ELSE 0)
  BY AmountsAssumption DEF ExtraGas, WARM_ACCESS, COLD_ACCOUNT_ACCESS, NEW_ACCOUNT, CALL_VALUE
<1> HIDE DEF cost
<1>4. f \in Frame /\ FrameOK(f) /\ SamePlace(f, Top) /\ f.gas <= Top.gas /\ f.gas \in Nat
  BY <1>1, <1>3, ChargeOK, Fields
<1>5. f.ends # "halt" => f.ends = "no" /\ f.gas = Top.gas - cost
  BY <1>1, <1>3, ChargeOK
<1> HIDE DEF f
<1>6. gas \in Nat /\ gas <= f.gas
  BY <1>4, Given, AmountsAssumption
<1> HIDE DEF gas
<1>7. /\ caller \in Frame /\ FrameOK(caller) /\ SamePlace(caller, f)
      /\ caller.gas = f.gas - gas /\ caller.ends = f.ends
  <2>1. f.gas - gas \in Nat
    BY <1>4, <1>6
  <2> QED
    BY <1>4, <2>1, GasOK
<1>8. given \in Nat /\ given >= gas /\ (f.ends # "halt" => caller.gas + given <= Top.gas)
  BY SMTT(30), <1>1, <1>3, <1>4, <1>5, <1>6, <1>7 DEF CALL_STIPEND, CALL_VALUE
<1> HIDE DEF caller, given
<1>9. SamePlace(caller, Top) /\ caller.gas <= Top.gas /\ caller.gas \in Nat
  BY <1>1, <1>4, <1>6, <1>7, Fields DEF SamePlace
<1>10. CASE Becomes(f)
  BY <1>1, <1>4, <1>10, BecomesGood
<1>11. CASE f.ends # "halt" /\ Becomes(static)
  <2>1. static \in Frame /\ FrameOK(static) /\ SamePlace(static, caller) /\ static.gas = caller.gas
    BY <1>5, <1>7, <1>11, EndsOK
  <2> HIDE DEF static
  <2>2. SamePlace(static, Top) /\ static.gas <= Top.gas
    BY <1>9, <2>1 DEF SamePlace
  <2> QED
    BY <1>1, <1>11, <2>1, <2>2, BecomesGood
<1>12. CASE f.ends # "halt" /\ Becomes(back)
  <2>1. caller.gas + given \in Nat /\ back = [caller EXCEPT !.gas = caller.gas + given]
    BY <1>8, <1>9
  <2>2. /\ back \in Frame /\ FrameOK(back) /\ SamePlace(back, caller)
        /\ back.gas = caller.gas + given
    BY <1>7, <2>1, GasOK
  <2> HIDE DEF back
  <2>3. SamePlace(back, Top) /\ back.gas <= Top.gas
    BY <1>8, <1>9, <1>12, <2>2 DEF SamePlace
  <2> QED
    BY <1>1, <1>12, <2>2, <2>3, BecomesGood
<1>13. CASE f.ends # "halt" /\ Starts(caller, given, Top.static \/ kind = "staticcall", FALSE)
  <2>1. (Top.static \/ kind = "staticcall") \in BOOLEAN /\ FALSE \in BOOLEAN
    OBVIOUS
  <2>2. caller.ends = "no"
    BY <1>5, <1>7, <1>13
  <2> DEFINE reads == Top.static \/ kind = "staticcall"
  <2>3. reads \in BOOLEAN /\ Starts(caller, given, reads, FALSE)
    BY <1>13, <2>1
  <2> HIDE DEF reads
  <2> QED
    BY <1>1, <1>7, <1>8, <1>9, <1>13, <2>1, <2>2, <2>3, StartsInv DEF GasStep
<1> QED
  BY <1>2, <1>10, <1>11, <1>12, <1>13

LEMMA CreateStep ==
  ASSUME IInv, NEW cost \in Costs, NEW poor \in BOOLEAN, NEW collides \in BOOLEAN,
         NEW tooLong \in BOOLEAN, Create(cost, poor, collides, tooLong)
  PROVE  IInv' /\ GasStep
<1> DEFINE f == Charge(Top, CREATE + cost)
           gas == AllButOne64th(f.gas)
           creator == [f EXCEPT !.gas = @ - gas]
           static == [f EXCEPT !.ends = "halt"]
           halted == [creator EXCEPT !.gas = 0, !.ends = "halt"]
<1>1. frames # <<>> /\ Top.ends = "no" /\ Top \in Frame /\ FrameOK(Top) /\ Top.gas \in Nat
  BY TopOK, Fields DEF Create, Running
<1>2. \/ Becomes(f)
      \/ f.ends # "halt" /\ Becomes(static)
      \/ Becomes(creator)
      \/ Becomes(halted)
      \/ f.ends # "halt" /\ Starts(creator, gas, FALSE, TRUE)
  BY DEF Create
<1>3. CREATE + cost \in Nat
  BY AmountsAssumption DEF CREATE
<1>4. f \in Frame /\ FrameOK(f) /\ SamePlace(f, Top) /\ f.gas <= Top.gas /\ f.gas \in Nat
  BY <1>1, <1>3, ChargeOK, Fields
<1>5. f.ends # "halt" => f.ends = "no"
  BY <1>1, <1>3, ChargeOK
<1> HIDE DEF f
<1>6. gas \in Nat /\ gas <= f.gas
  BY <1>4, SixtyFourth
<1> HIDE DEF gas
<1>7. /\ creator \in Frame /\ FrameOK(creator) /\ SamePlace(creator, f)
      /\ creator.gas = f.gas - gas /\ creator.ends = f.ends
  <2>1. f.gas - gas \in Nat
    BY <1>4, <1>6
  <2> QED
    BY <1>4, <2>1, GasOK
<1> HIDE DEF creator
<1>8. SamePlace(creator, Top) /\ creator.gas + gas <= Top.gas /\ creator.gas <= Top.gas
  BY <1>1, <1>4, <1>6, <1>7 DEF SamePlace
<1>9. CASE Becomes(f)
  BY <1>1, <1>4, <1>9, BecomesGood
<1>10. CASE f.ends # "halt" /\ Becomes(static)
  <2>1. static \in Frame /\ FrameOK(static) /\ SamePlace(static, f) /\ static.gas = f.gas
    BY <1>4, <1>5, <1>10, EndsOK
  <2> HIDE DEF static
  <2>2. SamePlace(static, Top) /\ static.gas <= Top.gas
    BY <1>4, <2>1 DEF SamePlace
  <2> QED
    BY <1>1, <1>10, <2>1, <2>2, BecomesGood
<1>11. CASE Becomes(creator)
  BY <1>1, <1>7, <1>8, <1>11, BecomesGood
<1>12. CASE Becomes(halted)
  <2>1. halted \in Frame /\ FrameOK(halted) /\ SamePlace(halted, creator) /\ halted.gas = 0
    BY <1>7, OutOfGasOK
  <2> HIDE DEF halted
  <2>2. SamePlace(halted, Top) /\ halted.gas <= Top.gas
    BY <1>1, <1>8, <2>1 DEF SamePlace
  <2> QED
    BY <1>1, <1>12, <2>1, <2>2, BecomesGood
<1>13. CASE f.ends # "halt" /\ Starts(creator, gas, FALSE, TRUE)
  <2>1. FALSE \in BOOLEAN /\ TRUE \in BOOLEAN /\ creator.ends = "no"
    BY <1>5, <1>7, <1>13
  <2> QED
    BY <1>1, <1>6, <1>7, <1>8, <1>13, <2>1, StartsInv DEF GasStep
<1> QED
  BY <1>2, <1>9, <1>10, <1>11, <1>12, <1>13

LEMMA ResumesGood ==
  ASSUME IInv, frames # <<>>, Depth > 1, NEW f \in Frame, FrameOK(f), SamePlace(f, Parent),
         f.gas <= Parent.gas + Top.gas, Resumes(f)
  PROVE  IInv' /\ GasStep
BY ResumesInv DEF GasStep

\* What both ways to finalize rest on.
LEMMA Both ==
  ASSUME IInv, Depth > 1
  PROVE  /\ frames # <<>>
         /\ Top \in Frame /\ FrameOK(Top) /\ Top.gas \in Nat
         /\ Parent \in Frame /\ FrameOK(Parent) /\ SamePlace(Parent, Parent)
         /\ Parent.gas \in Nat
         /\ Top.before = Parent.before + Parent.refund
<1>1. frames # <<>>
  BY DEF IInv, Depth
<1> QED
  BY <1>1, TopOK, ParentOK, Fields DEF SamePlace

\* A child that succeeded: its slot, its writes and its refunds are now its parent's.
LEMMA MergedOK ==
  ASSUME IInv, Depth > 1, Parent.ends # "halt", Top.ends # "halt", NEW gas \in Nat
  PROVE  /\ Merged(gas) \in Frame /\ FrameOK(Merged(gas)) /\ SamePlace(Merged(gas), Parent)
         /\ Merged(gas).gas = Parent.gas + gas
<1> DEFINE total == Parent.gas + gas
           refund == Parent.refund + Top.refund
           slot == Top.slot
           warm == Top.warm
           paid == Top.paid
           kept == Top.kept
           r == [Parent EXCEPT !.gas = total, !.refund = refund, !.slot = slot, !.warm = warm,
                               !.paid = paid, !.kept = kept]
<1>1. Merged(gas) = r
  BY Both DEF Merged, Frame
<1>2. /\ total \in Nat /\ refund \in Int /\ slot \in Word /\ warm \in BOOLEAN
      /\ paid \in Nat /\ kept \in Int
  <2>1. slot \in Word /\ warm \in BOOLEAN
    BY Both DEF Frame
  <2> QED
    BY SMTT(30), <2>1, Both, Fields
<1>3. Top.before + Top.refund = Top.paid + Top.kept - Worth(Top.slot) /\ Top.paid >= Least(Top.slot)
  BY Both DEF FrameOK, Earned
<1>4. Top.before = Parent.before + Parent.refund /\ Parent \in Frame
  BY Both
<1>5. refund = Parent.refund + Top.refund /\ slot = Top.slot /\ paid = Top.paid /\ kept = Top.kept
        /\ total = Parent.gas + gas
  OBVIOUS
<1> HIDE DEF total, refund, slot, warm, paid, kept
<1>6. r \in Frame
  BY <1>2, <1>4, Zenon DEF Frame
<1>7. /\ r.gas = total /\ r.refund = refund /\ r.slot = slot /\ r.paid = paid /\ r.kept = kept
      /\ r.below = Parent.below /\ r.before = Parent.before
  BY <1>4 DEF Frame
<1> HIDE DEF r
<1>8. Earned(r)
  <2>1. /\ Top.refund \in Int /\ Parent.refund \in Int /\ Parent.before \in Int
        /\ Top.paid \in Nat /\ Top.kept \in Int /\ Worth(Top.slot) \in Int
    BY Both, Fields, LeastWorth
  <2>2. Parent.before + (Parent.refund + Top.refund) = Top.paid + Top.kept - Worth(Top.slot)
    BY <1>3, <1>4, <2>1
  <2> QED
    BY <1>5, <1>7, <2>2 DEF Earned
<1> QED
  BY <1>1, <1>3, <1>5, <1>6, <1>7, <1>8 DEF FrameOK, SamePlace

LEMMA WaitingOK ==
  ASSUME IInv, Depth > 1
  PROVE  Parent.ends = "no"
<1>1. Depth \in Nat /\ Depth = Len(frames) /\ Depth - 1 \in 1..Len(frames) /\ Depth - 1 # Len(frames)
  BY DEF IInv, Depth
<1> QED
  BY <1>1 DEF IInv, Waiting, Parent

LEMMA FinalizeCallStep ==
  ASSUME IInv, FinalizeCall
  PROVE  IInv' /\ GasStep
<1>1. Depth > 1
  BY DEF FinalizeCall
<1>2. CASE Resumes(Parent)
  BY <1>1, <1>2, Both, ResumesGood
<1>3. CASE Resumes([Parent EXCEPT !.gas = @ + Top.gas])
  <2> DEFINE f == [Parent EXCEPT !.gas = @ + Top.gas]
  <2>1. Parent.gas + Top.gas \in Nat /\ f = [Parent EXCEPT !.gas = Parent.gas + Top.gas]
    BY <1>1, Both
  <2>2. f \in Frame /\ FrameOK(f) /\ SamePlace(f, Parent) /\ f.gas = Parent.gas + Top.gas /\ f.ends = Parent.ends
    BY <1>1, <2>1, Both, GasOK
  <2>3. Resumes(f)
    BY <1>3
  <2> HIDE DEF f
  <2>4. f.gas <= Parent.gas + Top.gas
    BY <2>1, <2>2
  <2> QED
    BY <1>1, <2>2, <2>3, <2>4, Both, WaitingOK, ResumesGood
<1>4. CASE Top.ends = "stop" /\ Resumes(Merged(Top.gas))
  <2>1. /\ Merged(Top.gas) \in Frame /\ FrameOK(Merged(Top.gas)) /\ SamePlace(Merged(Top.gas), Parent)
        /\ Merged(Top.gas).gas = Parent.gas + Top.gas
    BY <1>1, <1>4, Both, WaitingOK, MergedOK
  <2>2. Merged(Top.gas).gas <= Parent.gas + Top.gas
    BY <1>1, <2>1, Both
  <2> QED
    BY <1>1, <1>4, <2>1, <2>2, Both, ResumesGood
<1> QED
  BY <1>2, <1>3, <1>4 DEF FinalizeCall

\* A creation that reverted: what it leaves in the counter is told apart.
LEMMA KeptOK ==
  ASSUME IInv, Depth > 1
  PROVE  LET r == [Parent EXCEPT !.gas = @ + Top.gas, !.refund = @ + Top.refund,
                                 !.kept = @ + Top.refund]
         IN  /\ r \in Frame /\ FrameOK(r) /\ SamePlace(r, Parent)
             /\ r.gas = Parent.gas + Top.gas /\ r.ends = Parent.ends
<1> DEFINE total == Parent.gas + Top.gas
           refund == Parent.refund + Top.refund
           kept == Parent.kept + Top.refund
           r == [Parent EXCEPT !.gas = total, !.refund = refund, !.kept = kept]
<1>1. /\ total \in Nat /\ refund \in Int /\ kept \in Int /\ total = Parent.gas + Top.gas
      /\ refund = Parent.refund + Top.refund /\ kept = Parent.kept + Top.refund
  BY Both, Fields
<1>2. [Parent EXCEPT !.gas = @ + Top.gas, !.refund = @ + Top.refund, !.kept = @ + Top.refund] = r
  BY Both DEF Frame
<1> HIDE DEF total, refund, kept
<1>3. r \in Frame
  <2>1. Parent \in Frame
    BY Both
  <2> QED
    BY <1>1, <2>1, Zenon DEF Frame
<1>4. /\ r.gas = total /\ r.refund = refund /\ r.kept = kept /\ r.slot = Parent.slot
      /\ r.paid = Parent.paid /\ r.below = Parent.below /\ r.before = Parent.before
      /\ r.ends = Parent.ends
  BY Both DEF Frame
<1> HIDE DEF r
<1>5. Earned(r)
  <2>1. Parent.before + Parent.refund = Parent.paid + Parent.kept - Worth(Parent.slot)
    BY Both, WaitingOK DEF FrameOK, Earned
  <2>2. /\ Top.refund \in Int /\ Parent.refund \in Int /\ Parent.before \in Int
        /\ Parent.paid \in Nat /\ Parent.kept \in Int /\ Worth(Parent.slot) \in Int
    BY Both, Fields, LeastWorth
  <2>3. r.before + r.refund = r.paid + r.kept - Worth(Parent.slot)
    BY <1>1, <1>4, <2>1, <2>2
  <2> QED
    BY <1>4, <2>3 DEF Earned
<1> QED
  BY <1>1, <1>2, <1>3, <1>4, <1>5, Both DEF FrameOK, SamePlace

LEMMA FinalizeCreateStep ==
  ASSUME IInv, NEW size \in Sizes, NEW valid \in BOOLEAN, FinalizeCreate(size, valid)
  PROVE  IInv' /\ GasStep
<1> DEFINE cost == CODE_DEPOSIT * size
<1>1. Depth > 1
  BY DEF FinalizeCreate
<1>2. cost \in Nat
  BY AmountsAssumption DEF CODE_DEPOSIT
<1>3. \/ Resumes(Parent)
      \/ Resumes([Parent EXCEPT !.gas = @ + Top.gas, !.refund = @ + Top.refund,
                                !.kept = @ + Top.refund])
      \/ Top.ends = "stop" /\ cost <= Top.gas /\ Resumes(Merged(Top.gas - cost))
  BY DEF FinalizeCreate
<1> HIDE DEF cost
<1>4. CASE Resumes(Parent)
  BY <1>1, <1>4, Both, ResumesGood
<1>5. CASE Resumes([Parent EXCEPT !.gas = @ + Top.gas, !.refund = @ + Top.refund,
                                 !.kept = @ + Top.refund])
  <2> DEFINE f == [Parent EXCEPT !.gas = @ + Top.gas, !.refund = @ + Top.refund,
                                 !.kept = @ + Top.refund]
  <2>1. f \in Frame /\ FrameOK(f) /\ SamePlace(f, Parent) /\ f.gas = Parent.gas + Top.gas /\ f.ends = Parent.ends
    BY <1>1, KeptOK
  <2>2. Resumes(f)
    BY <1>5
  <2> HIDE DEF f
  <2>3. f.gas <= Parent.gas + Top.gas
    BY <1>1, <2>1, Both
  <2> QED
    BY <1>1, <2>1, <2>2, <2>3, Both, ResumesGood
<1>6. CASE Top.ends = "stop" /\ cost <= Top.gas /\ Resumes(Merged(Top.gas - cost))
  <2> DEFINE left == Top.gas - cost
  <2>1. left \in Nat /\ left <= Top.gas /\ Resumes(Merged(left))
    BY <1>1, <1>2, <1>6, Both
  <2> HIDE DEF left
  <2>2. /\ Merged(left) \in Frame /\ FrameOK(Merged(left)) /\ SamePlace(Merged(left), Parent)
        /\ Merged(left).gas = Parent.gas + left
    BY <1>1, <1>6, <2>1, WaitingOK, MergedOK
  <2>3. Merged(left).gas <= Parent.gas + Top.gas
    BY <1>1, <2>1, <2>2, Both
  <2> QED
    BY <1>1, <2>1, <2>2, <2>3, Both, ResumesGood
<1> QED
  BY <1>3, <1>4, <1>5, <1>6

LEMMA CapOK ==
  ASSUME NEW refund \in Nat, NEW required \in Nat
  PROVE  /\ Capped(refund, required) \in Nat
         /\ 5 * Capped(refund, required) <= required
BY DEF Capped

LEMMA CapInt ==
  ASSUME NEW refund \in Int, NEW required \in Nat
  PROVE  Capped(refund, required) \in Int
BY DEF Capped

\* The root holds all the gas there is, and its counter is at least what creations
\* that reverted left in it.
LEMMA RootOK ==
  ASSUME IInv, Depth = 1
  PROVE  /\ frames # <<>>
         /\ Top.gas \in Nat /\ Top.gas <= limit /\ TotalGas = Top.gas
         /\ Top.refund \in Int /\ Top.kept \in Int
         /\ Top.ends # "halt" => Top.refund >= Top.kept
<1>1. frames # <<>> /\ Top \in Frame /\ FrameOK(Top) /\ TotalGas <= limit
  <2>1. frames # <<>>
    BY SMTT(30) DEF IInv, Depth
  <2> QED
    BY <2>1, TopOK
<1>2. Top.below = 0 /\ Top.before = 0
  <2>1. 1 \in 1..Len(frames) /\ Top = frames[1]
    BY DEF IInv, Depth, Top
  <2> QED
    BY <2>1 DEF IInv, Linked
<1>3. /\ Top.gas \in Nat /\ Top.refund \in Int /\ Top.kept \in Int /\ Top.paid \in Nat
      /\ Least(Top.slot) \in Nat /\ Worth(Top.slot) \in Int /\ Worth(Top.slot) <= Least(Top.slot)
  BY <1>1, Fields, LeastWorth
<1>4. TotalGas = Top.gas
  BY <1>2, <1>3 DEF TotalGas
<1>5. ASSUME Top.ends # "halt"
      PROVE  Top.refund >= Top.kept
  <2>1. Top.before + Top.refund = Top.paid + Top.kept - Worth(Top.slot) /\ Top.paid >= Least(Top.slot)
    BY <1>1, <1>5 DEF FrameOK, Earned
  <2> QED
    BY <1>2, <1>3, <2>1
<1> QED
  BY <1>1, <1>3, <1>4, <1>5

LEMMA SettleStep ==
  ASSUME IInv, NEW size \in Sizes, NEW valid \in BOOLEAN, Settle(size, valid)
  PROVE  IInv' /\ GasStep
<1> DEFINE cost == IF Top.create THEN CODE_DEPOSIT * size ELSE 0
           deposited == Top.create => valid /\ cost <= Top.gas
           succeeds == Top.ends = "stop" /\ deposited
           left == IF succeeds THEN Top.gas - cost ELSE IF Top.ends = "revert" THEN Top.gas ELSE 0
           required == limit - left
           counter == IF succeeds THEN Top.refund ELSE 0
           kept == IF succeeds THEN Top.kept ELSE 0
           refund == Capped(counter, required)
<1>1. /\ frames # <<>> /\ frames' = <<>>
      /\ receipt' = [done |-> TRUE, required |-> required, refund |-> refund,
                     used |-> required - refund, kept |-> kept]
      /\ limit' = limit /\ original' = original /\ steps' = steps /\ limit \in Nat
      /\ original \in Word /\ steps \in Nat
  BY RootOK DEF Settle, IInv
<1>2. /\ Top.gas \in Nat /\ Top.gas <= limit /\ TotalGas = Top.gas
      /\ Top.refund \in Int /\ Top.kept \in Int
      /\ Top.ends # "halt" => Top.refund >= Top.kept
  BY RootOK DEF Settle
<1>3. cost \in Nat
  BY AmountsAssumption DEF CODE_DEPOSIT
<1>4. succeeds => cost <= Top.gas
  BY <1>2
<1>5. counter \in Int /\ kept \in Int /\ counter >= kept
  BY <1>2
<1> HIDE DEF cost
<1>6. left \in Nat /\ left <= Top.gas
  BY <1>2, <1>3, <1>4
<1> HIDE DEF succeeds, left, counter, kept
<1>7. required \in Nat /\ limit - required = left /\ required <= limit
  BY <1>1, <1>2, <1>6
<1> HIDE DEF required
<1>8. refund \in Int /\ (kept >= 0 => refund \in Nat /\ 5 * refund <= required)
  <2>1. refund \in Int
    BY <1>5, <1>7, CapInt
  <2>2. ASSUME kept >= 0
        PROVE  refund \in Nat /\ 5 * refund <= required
    <3>1. counter \in Nat
      BY <1>5, <2>2
    <3> QED
      BY <1>7, <3>1, CapOK
  <2> QED
    BY <2>1, <2>2
<1> HIDE DEF refund
<1>9. /\ receipt'.done /\ receipt'.required = required /\ receipt'.used = required - refund
      /\ receipt'.kept = kept /\ receipt' \in Receipts
  BY <1>1, <1>5, <1>7, <1>8 DEF Receipts
<1>10. ChargeWithinLimit'
  <2>1. ASSUME kept >= 0
        PROVE  /\ required - refund <= required /\ required <= limit
               /\ 5 * (required - refund) >= 4 * required
    BY <1>1, <1>7, <1>8, <2>1
  <2> QED
    BY <1>1, <1>9, <2>1 DEF ChargeWithinLimit
<1>11. IInv'
  <2>1. frames' \in Seq(Frame) /\ Len(frames') = 0
    BY <1>1
  <2>2. (\A k \in 1..Len(frames) : FrameOK(frames[k]))' /\ Linked(frames)' /\ Waiting(frames)'
    BY <2>1 DEF Linked, Waiting
  <2> QED
    BY <1>1, <1>9, <1>10, <2>1, <2>2 DEF IInv
<1>12. GasStep
  BY <1>1, <1>2, <1>6, <1>7, <1>9 DEF GasStep
<1> QED
  BY <1>11, <1>12

LEMMA ExecuteStep ==
  ASSUME IInv, NEW intrinsic \in Intrinsic, NEW create \in BOOLEAN, NEW invalid \in BOOLEAN,
         NEW fails \in BOOLEAN, NEW warm \in BOOLEAN,
         Execute(intrinsic, create, invalid, fails, warm)
  PROVE  IInv' /\ GasStep
<1>1. frames = <<>> /\ limit' = limit /\ original' = original /\ steps' = steps /\ ~receipt.done
  BY DEF Execute
<1>2. GasStep
  BY <1>1 DEF GasStep
<1>3. CASE intrinsic > limit \/ (create /\ invalid)
  <2>1. frames' = frames /\ receipt' = [NoReceipt EXCEPT !.done = TRUE]
    BY <1>3 DEF Execute
  <2>2. /\ receipt' \in Receipts /\ receipt'.required = 0 /\ receipt'.used = 0
    <3>1. receipt' = [done |-> TRUE, required |-> 0, refund |-> 0, used |-> 0, kept |-> 0]
      BY <2>1 DEF NoReceipt
    <3> QED
      BY <3>1 DEF Receipts
  <2>3. ChargeWithinLimit'
    BY <1>1, <2>2 DEF IInv, ChargeWithinLimit
  <2>4. /\ (\A k \in 1..Len(frames) : FrameOK(frames[k]))' /\ Linked(frames)' /\ Waiting(frames)'
        /\ frames' \in Seq(Frame)
    BY <1>1, <2>1 DEF IInv, Linked, Waiting
  <2> QED
    BY <1>1, <1>2, <2>1, <2>2, <2>3, <2>4 DEF IInv
<1>4. CASE ~(intrinsic > limit \/ (create /\ invalid))
  <2> DEFINE gas == limit - intrinsic
             ends == IF fails THEN "halt" ELSE "no"
             root == [gas |-> gas, refund |-> 0, slot |-> original, warm |-> warm,
                      static |-> FALSE, create |-> create, ends |-> ends,
                      below |-> 0, before |-> 0, paid |-> 0, kept |-> 0]
  <2>1. gas \in Nat /\ gas <= limit /\ ends \in {"no", "stop", "revert", "halt"}
    BY <1>4, AmountsAssumption DEF IInv
  <2>2. frames' = <<root>> /\ receipt' = receipt
    BY <1>4 DEF Execute
  <2> HIDE DEF gas, ends
  <2>3. root \in Frame
    BY <2>1 DEF IInv, Frame
  <2>4. /\ root.gas = gas /\ root.below = 0 /\ root.before = 0 /\ root.refund = 0
        /\ root.paid = 0 /\ root.kept = 0 /\ root.slot = original
    OBVIOUS
  <2> HIDE DEF root
  <2>5. FrameOK(root)
    BY <2>3, <2>4 DEF FrameOK, Earned, Worth, Least
  <2>6. frames' \in Seq(Frame) /\ Len(frames') = 1 /\ frames'[1] = root
    BY <2>2, <2>3
  <2>7. (\A k \in 1..Len(frames) : FrameOK(frames[k]))'
    <3>1. \A k \in 1..Len(frames') : frames'[k] = root
      BY <2>6
    <3> QED
      BY <1>1, <2>5, <3>1 DEF FrameOK, Earned, Worth, Least
  <2>8. Linked(frames)' /\ Waiting(frames)'
    BY <2>4, <2>6 DEF Linked, Waiting
  <2>9. TotalGas' = gas
    BY <2>1, <2>4, <2>6 DEF TotalGas, Top, Depth
  <2>10. ChargeWithinLimit'
    BY <1>1, <2>2 DEF ChargeWithinLimit
  <2> QED
    BY <1>1, <1>2, <2>1, <2>2, <2>6, <2>7, <2>8, <2>9, <2>10 DEF IInv
<1> QED
  BY <1>3, <1>4

-----------------------------------------------------------------------------
(* The theorems                                                            *)

LEMMA InitInv == Init => IInv
<1> SUFFICES ASSUME Init PROVE IInv
  OBVIOUS
<1>1. frames = <<>> /\ frames \in Seq(Frame) /\ Len(frames) = 0
  BY DEF Init
<1>2. receipt \in Receipts /\ ~receipt.done
  BY DEF Init, NoReceipt, Receipts
<1>3. limit \in Nat
  BY AmountsAssumption DEF Init
<1> QED
  BY <1>1, <1>2, <1>3 DEF Init, IInv, Linked, Waiting, ChargeWithinLimit

LEMMA StutterStep ==
  ASSUME IInv, UNCHANGED vars
  PROVE  IInv'
<1>1. (\A k \in 1..Len(frames) : FrameOK(frames[k]))'
  BY DEF vars, IInv, FrameOK, Earned, Worth, Least
<1> QED
  BY <1>1 DEF vars, IInv, Linked, Waiting, ChargeWithinLimit, TotalGas, Top, Depth

LEMMA NextGood ==
  ASSUME IInv, Next
  PROVE  IInv' /\ GasStep
<1>1. ASSUME NEW intrinsic \in Intrinsic, NEW create \in BOOLEAN, NEW invalid \in BOOLEAN,
             NEW fails \in BOOLEAN, NEW warm \in BOOLEAN,
             Execute(intrinsic, create, invalid, fails, warm)
      PROVE  IInv' /\ GasStep
  BY <1>1, ExecuteStep
<1>2. ASSUME Opcode PROVE IInv' /\ GasStep
  <2>1. ASSUME NEW cost \in Costs, Other(cost) PROVE IInv' /\ GasStep
    BY <2>1, OtherStep
  <2>2. ASSUME NEW how \in {"stop", "revert", "halt"}, Ends(how) PROVE IInv' /\ GasStep
    BY <2>2, EndsStep
  <2>3. ASSUME NEW new \in Word, Sstore(new) PROVE IInv' /\ GasStep
    BY <2>3, SstoreStep
  <2>4. ASSUME NEW kind \in {"call", "callcode", "delegatecall", "staticcall"},
               NEW param \in GasParams, NEW value \in BOOLEAN, NEW alive \in BOOLEAN,
               NEW warm \in BOOLEAN, NEW poor \in BOOLEAN, NEW expansion \in Costs,
               Call(kind, param, value, alive, warm, poor, expansion)
        PROVE  IInv' /\ GasStep
    BY <2>4, CallStep
  <2>5. ASSUME NEW cost \in Costs, NEW poor \in BOOLEAN, NEW collides \in BOOLEAN,
               NEW tooLong \in BOOLEAN, Create(cost, poor, collides, tooLong)
        PROVE  IInv' /\ GasStep
    BY <2>5, CreateStep
  <2> QED
    BY <1>2, <2>1, <2>2, <2>3, <2>4, <2>5 DEF Opcode
<1>3. ASSUME Finalize PROVE IInv' /\ GasStep
  <2>1. ASSUME FinalizeCall PROVE IInv' /\ GasStep
    BY <2>1, FinalizeCallStep
  <2>2. ASSUME NEW size \in Sizes, NEW valid \in BOOLEAN,
               FinalizeCreate(size, valid) \/ Settle(size, valid)
        PROVE  IInv' /\ GasStep
    BY <2>2, FinalizeCreateStep, SettleStep
  <2> QED
    BY <1>3, <2>1, <2>2 DEF Finalize
<1> QED
  BY <1>1, <1>2, <1>3 DEF Next

LEMMA Invariant == Spec => []IInv
<1>1. IInv /\ [Next]_vars => IInv'
  BY NextGood, StutterStep
<1> QED
  BY InitInv, <1>1, PTL DEF Spec

\* The state has its type and each frame carries the gas and the counters of those
\* under it: what the interpreter keeps in its linked list of parents.
THEOREM TypeCorrect == Spec => []TypeOK
<1>1. IInv => TypeOK
  BY InvImplies
<1> QED
  BY <1>1, Invariant, PTL

\* The counter of every frame is what the writes that stand have cost less what the
\* slot is worth: exec_sstore and the two ways to finalize a parent agree, in whatever
\* order writes, calls and failures come.
THEOREM RefundIsEarnedHolds == Spec => []RefundIsEarned
<1>1. IInv => RefundIsEarned
  BY InvImplies
<1> QED
  BY <1>1, Invariant, PTL

\* execute charges at most the limit, and four fifths of what was required at least.
THEOREM ChargeWithinLimitHolds == Spec => []ChargeWithinLimit
<1>1. IInv => ChargeWithinLimit
  BY DEF IInv
<1> QED
  BY <1>1, Invariant, PTL

\* No opcode and no end of a frame gives the transaction gas: the stipend is paid for
\* by the call, and what comes back was given.
THEOREM GasIsNeverCreatedHolds == Spec => GasIsNeverCreated
<1> DEFINE Holds == frames # <<>> =>
       /\ frames' # <<>> => TotalGas' <= TotalGas
       /\ frames' = <<>> => limit - receipt'.required <= TotalGas
<1>1. IInv /\ [Next]_vars => [Holds]_vars
  BY NextGood DEF GasStep
<1>2. Spec => [][Holds]_vars
  BY <1>1, Invariant, PTL DEF Spec
<1> QED
  BY <1>2 DEF GasIsNeverCreated
=============================================================================
