--------------------------- MODULE BaseFeeProofs ---------------------------
(***************************************************************************)
(* Theorems about BaseFee for every set of fees and every number of blocks. *)
(* The inductive invariant says where the fee in force is stored in each of *)
(* the two situations a block can be in: before and after the owner's set.  *)
(***************************************************************************)
EXTENDS BaseFee, TLAPS

\* Before the owner's call, the fee in force is the entry a read would return.
BeforeSet ==
  ~set_this_block =>
    /\ last_set = in_force
    /\ next_block.start <= block
    /\ next_block.start = 0 => next_block.fee = 0 /\ current_block.fee = in_force
    /\ next_block.start # 0 => next_block.fee = in_force

\* After it, 'next_block' waits for the next block and 'current_block' holds
\* the fee in force or, the promoted entry being lost, zero.
AfterSet ==
  set_this_block =>
    /\ next_block = Entry(last_set, block + 1)
    /\ current_block.fee \in {in_force, 0}

IInv ==
  /\ TypeOK
  /\ BeforeSet
  /\ AfterSet

\* The invariant holds at first.
LEMMA InitIInv == Init => IInv
<1> SUFFICES ASSUME Init PROVE IInv
  OBVIOUS
<1>1. ~set_this_block
  BY DEF Init
<1>2. TypeOK
  BY DEF Init, TypeOK, Entry
<1>3. BeforeSet
  BY DEF Init, BeforeSet, Entry
<1>4. AfterSet
  BY <1>1 DEF AfterSet
<1> QED
  BY <1>2, <1>3, <1>4 DEF IInv

\* The owner's call leads to the second situation, from either.
LEMMA SetBaseFeeIInv ==
  ASSUME IInv, NEW fee \in Fee, SetBaseFee(fee)
  PROVE  IInv'
<1>1. fee \in Nat
  BY FeeAssumption
<1>2. TypeOK'
  BY <1>1 DEF IInv, TypeOK, SetBaseFee, Entry
<1>3. BeforeSet'
  <2>1. set_this_block'
    BY DEF SetBaseFee
  <2> QED
    BY <2>1 DEF BeforeSet
<1>4. AfterSet'
  <2>1. CASE set_this_block
    BY <2>1 DEF IInv, TypeOK, AfterSet, SetBaseFee, Entry
  <2>2. CASE ~set_this_block
    BY <2>2 DEF IInv, TypeOK, BeforeSet, AfterSet, SetBaseFee, Entry
  <2> QED
    BY <2>1, <2>2
<1> QED
  BY <1>2, <1>3, <1>4 DEF IInv

\* A read promotes an entry in the first situation only.
LEMMA GetBaseFeeIInv ==
  ASSUME IInv, GetBaseFee
  PROVE  IInv'
<1>1. ~set_this_block
  \* A fresh entry waits for the next block and is not ready.
  BY DEF IInv, TypeOK, AfterSet, GetBaseFee, NextFeeReady, Entry
<1>2. TypeOK'
  BY DEF IInv, TypeOK, GetBaseFee, Entry
<1>3. BeforeSet'
  BY <1>1 DEF IInv, TypeOK, BeforeSet, GetBaseFee, NextFeeReady, Entry
<1>4. AfterSet'
  BY <1>1 DEF AfterSet, GetBaseFee
<1> QED
  BY <1>2, <1>3, <1>4 DEF IInv

\* A new block leads from either situation to the first.
LEMMA NewBlockIInv ==
  ASSUME IInv, NewBlock
  PROVE  IInv'
<1>1. TypeOK'
  <2>1. set_this_block' \in BOOLEAN
    BY DEF NewBlock
  <2>2. block' \in Nat
    BY DEF IInv, TypeOK, NewBlock
  <2> QED
    BY <2>1, <2>2 DEF IInv, TypeOK, NewBlock
<1>2. ~set_this_block'
  BY DEF NewBlock
<1>3. BeforeSet'
  BY DEF IInv, TypeOK, BeforeSet, AfterSet, NewBlock, Entry
<1>4. AfterSet'
  BY <1>2 DEF AfterSet
<1> QED
  BY <1>1, <1>3, <1>4 DEF IInv

\* Every step preserves the invariant.
LEMMA NextIInv == IInv /\ [Next]_vars => IInv'
<1> SUFFICES ASSUME IInv, [Next]_vars
             PROVE  IInv'
  OBVIOUS
<1>1. ASSUME NEW fee \in Fee, SetBaseFee(fee)
      PROVE  IInv'
  BY <1>1, SetBaseFeeIInv
<1>2. CASE GetBaseFee
  BY <1>2, GetBaseFeeIInv
<1>3. CASE NewBlock
  BY <1>3, NewBlockIInv
<1>4. CASE UNCHANGED vars
  BY <1>4 DEF vars, IInv, TypeOK, BeforeSet, AfterSet
<1> QED
  BY <1>1, <1>2, <1>3, <1>4 DEF Next

(***************************************************************************)
(* The inductive invariant holds in every behaviour.                        *)
(***************************************************************************)
THEOREM BaseFeeInvariant == Spec => []IInv
  BY InitIInv, NextIInv, PTL DEF Spec

\* Before the owner's call a read returns the fee in force.
LEMMA IInvImpliesLastFee == IInv => LastFeeInForce
  BY DEF IInv, TypeOK, BeforeSet, LastFeeInForce, Quote, NextFeeReady

\* After it, a read returns what 'current_block' holds.
LEMMA IInvImpliesNoEarlyFee == IInv => NoEarlyFee
<1> SUFFICES ASSUME IInv PROVE NoEarlyFee
  OBVIOUS
<1>1. CASE set_this_block
  BY <1>1 DEF IInv, TypeOK, AfterSet, NoEarlyFee, Quote, NextFeeReady, Entry
<1>2. CASE ~set_this_block
  BY <1>2 DEF IInv, TypeOK, BeforeSet, NoEarlyFee, Quote, NextFeeReady
<1> QED
  BY <1>1, <1>2

(***************************************************************************)
(* Until the owner sets a fee in a block, get_base_fee returns the fee last *)
(* set in an earlier block.                                                 *)
(***************************************************************************)
THEOREM LastFeeAlwaysInForce == Spec => []LastFeeInForce
  BY BaseFeeInvariant, IInvImpliesLastFee, PTL

(***************************************************************************)
(* A fee never applies to the block it is set in.                           *)
(***************************************************************************)
THEOREM NoFeeAppliesEarly == Spec => []NoEarlyFee
  BY BaseFeeInvariant, IInvImpliesNoEarlyFee, PTL

(***************************************************************************)
(* Reading the fee never changes what the next read returns.                *)
(***************************************************************************)
THEOREM ReadsAreStable == Spec => ReadingIsStable
<1>1. TypeOK /\ [Next]_vars => [GetBaseFee => Quote' = Quote]_vars
  BY DEF GetBaseFee, Quote, NextFeeReady, Entry, TypeOK, vars
<1>2. IInv => TypeOK
  BY DEF IInv
<1> QED
  BY <1>1, <1>2, BaseFeeInvariant, PTL DEF Spec, ReadingIsStable
=============================================================================
