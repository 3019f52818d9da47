------------------------------ MODULE BaseFee ------------------------------
(***************************************************************************)
(* The base fee of Kakarot (cairo_zero/kakarot/library.cairo, set_base_fee, *)
(* and cairo_zero/backend/starknet.cairo, get_base_fee).                    *)
(*                                                                         *)
(* The storage variable Kakarot_base_fee holds two entries, 'current_block' *)
(* and 'next_block', each a pair <<fee, first block it applies to>>.  The   *)
(* owner sets the fee; every transaction reads it, and reading may promote  *)
(* the 'next_block' entry.  Both run inside a Starknet transaction, so they *)
(* interleave in any order between two blocks.                              *)
(***************************************************************************)
EXTENDS Naturals

CONSTANTS
  Fee,        \* the fees the owner may set
  MaxBlock    \* bound: the last Starknet block explored

ASSUME FeeAssumption == Fee \subseteq Nat
ASSUME MaxBlockAssumption == MaxBlock \in Nat

VARIABLES
  block,          \* get_block_number()
  current_block,  \* Kakarot_base_fee['current_block']
  next_block,     \* Kakarot_base_fee['next_block']
  in_force,       \* history: the last fee set in an earlier block, 0 if none
  last_set,       \* history: the last fee set so far, 0 if none
  set_this_block  \* history: set_base_fee ran in the present block

vars == <<block, current_block, next_block, in_force, last_set, set_this_block>>

Entry(fee, start) == [fee |-> fee, start |-> start]

TypeOK ==
  /\ block \in Nat
  /\ current_block \in [fee : Nat, start : Nat]
  /\ next_block \in [fee : Nat, start : Nat]
  /\ in_force \in Nat
  /\ last_set \in Nat
  /\ set_this_block \in BOOLEAN

\* Storage variables of a fresh contract read as zero.
Init ==
  /\ block = 1
  /\ current_block = Entry(0, 0)
  /\ next_block = Entry(0, 0)
  /\ in_force = 0
  /\ last_set = 0
  /\ set_this_block = FALSE

\* Mutant of NextFeeReady: the comparison is strict.
LateReady == next_block.start # 0 /\ next_block.start < block

NextFeeReady == next_block.start # 0 /\ next_block.start <= block

\* What get_base_fee returns when it is called now.
Quote == IF NextFeeReady THEN next_block.fee ELSE current_block.fee

\* Mutant of SetBaseFee: the new entry applies to the block it is set in.
SetBaseFeeAtOnce(fee) ==
  /\ next_block' = Entry(fee, block)
  /\ current_block' = IF next_block.start <= block THEN next_block ELSE current_block
  /\ last_set' = fee
  /\ set_this_block' = TRUE
  /\ UNCHANGED <<block, in_force>>

(***************************************************************************)
(* set_base_fee: the new fee always goes to 'next_block'; the entry that    *)
(* was there moves to 'current_block' if it applies already.                *)
(***************************************************************************)
SetBaseFee(fee) ==
  /\ next_block' = Entry(fee, block + 1)
  /\ current_block' = IF next_block.start <= block THEN next_block ELSE current_block
  /\ last_set' = fee
  /\ set_this_block' = TRUE
  /\ UNCHANGED <<block, in_force>>

\* Mutant of GetBaseFee: 'next_block' is cleared but never promoted.
GetBaseFeeUnpromoted ==
  /\ NextFeeReady
  /\ next_block' = Entry(0, 0)
  /\ UNCHANGED <<block, current_block, in_force, last_set, set_this_block>>

(***************************************************************************)
(* get_base_fee, called by get_env and by eth_send_raw_unsigned_tx.         *)
(***************************************************************************)
GetBaseFee ==
  /\ NextFeeReady
  /\ current_block' = Entry(next_block.fee, block)
  /\ next_block' = Entry(0, 0)
  /\ UNCHANGED <<block, in_force, last_set, set_this_block>>

\* Starknet moves to the next block.
NewBlock ==
  /\ block < MaxBlock
  /\ block' = block + 1
  /\ in_force' = last_set
  /\ set_this_block' = FALSE
  /\ UNCHANGED <<current_block, next_block, last_set>>

Next ==
  \/ \E fee \in Fee : SetBaseFee(fee)
  \/ GetBaseFee
  \/ NewBlock

Spec == Init /\ [][Next]_vars

-----------------------------------------------------------------------------
(***************************************************************************)
(* Until the owner sets a fee in the present block, get_base_fee returns    *)
(* the fee last set in an earlier block, however many blocks, reads and     *)
(* promotions lie in between.                                               *)
(***************************************************************************)
LastFeeInForce == ~set_this_block => Quote = in_force

(***************************************************************************)
(* A fee never applies to the block it is set in: whatever is set and read  *)
(* in a block, get_base_fee returns the fee of an earlier block or, once    *)
(* the promoted entry has been overwritten, zero.  This is not what the      *)
(* comment of get_base_fee says (starknet.cairo:135), which returns the fee *)
(* of 'next_block' if the block number of that entry is "greater or equal   *)
(* to the current block_number": the code compares the other way round.     *)
(***************************************************************************)
NoEarlyFee == Quote \in {in_force, 0}

(***************************************************************************)
(* Reading the fee promotes an entry but never changes what the next read   *)
(* returns: the storage may be rewritten by any caller of a view function.  *)
(***************************************************************************)
ReadingIsStable == [][GetBaseFee => Quote' = Quote]_vars

(***************************************************************************)
(* "There can only be one base fee for a given block": within a block, the  *)
(* fee that transactions see is one and the same (library.cairo:152).  In   *)
(* the code a single set_base_fee changes it, when get_base_fee has already *)
(* promoted 'next_block' in that block and left <<0, 0>> there: set_base_fee *)
(* copies that entry to 'current_block', and the rest of the block reads 0. *)
(***************************************************************************)
OneFeePerBlock == [][block' = block => Quote' = Quote]_vars
=============================================================================
