------------------------------ MODULE EvmState ------------------------------
(***************************************************************************)
(* The journaled state a transaction executes against                       *)
(* (cairo_zero/kakarot/state.cairo and cairo_zero/kakarot/account.cairo).   *)
(*                                                                         *)
(* A state is a write cache over the Starknet storage ("chain"): the        *)
(* accounts read so far with their present values, the transfers still to   *)
(* be made in the native token, and the events still to be emitted.         *)
(* Operators take the state and return the next one, as the Cairo functions *)
(* rebind their implicit argument `state`.                                  *)
(*                                                                         *)
(* Data is reduced to what the properties tell apart: an account's code is  *)
(* whether it has any, its storage is one slot, the events are counted.     *)
(***************************************************************************)
EXTENDS Naturals, Sequences

CONSTANTS
  Addr,       \* EVM addresses
  Word,       \* the values of a storage slot
  MaxUint     \* the largest balance, 2^256 - 1 in the code

ASSUME WordAssumption == 0 \in Word
ASSUME MaxUintAssumption == MaxUint \in Nat

-----------------------------------------------------------------------------
(***************************************************************************)
(* Types.                                                                  *)
(***************************************************************************)
Account ==
  [nonce : Nat, balance : Nat, code : BOOLEAN, slot : Word,
   created : BOOLEAN, selfdestruct : BOOLEAN]

Transfer == [sender : Addr, recipient : Addr, amount : Nat]

State ==
  [accounts : [Addr -> Account],   \* meaningful for cached addresses only
   cached : SUBSET Addr,           \* the keys of the accounts dict; also the warm addresses
   transfers : Seq(Transfer),
   events : Nat]

\* What Starknet stores: the native token's balances, the storage of the
\* account contracts, the contracts Kakarot has registered, and the number of
\* events emitted and of effects that Cairo contracts were asked to have.
Chain ==
  [balance : [Addr -> Nat], nonce : [Addr -> Nat], code : [Addr -> BOOLEAN],
   slot : [Addr -> Word], registered : SUBSET Addr, events : Nat, cairo : Nat]

EmptyAccount ==
  [nonce |-> 0, balance |-> 0, code |-> FALSE, slot |-> 0,
   created |-> FALSE, selfdestruct |-> FALSE]

-----------------------------------------------------------------------------
(***************************************************************************)
(* Accounts.                                                               *)
(***************************************************************************)

\* Account.fetch_or_create: an account that is not deployed is empty but for
\* its balance, which is kept by the native token.
FetchAccount(chain, a) ==
  IF a \in chain.registered
    THEN [EmptyAccount EXCEPT !.nonce = chain.nonce[a], !.balance = chain.balance[a],
                              !.code = chain.code[a], !.slot = chain.slot[a]]
    ELSE [EmptyAccount EXCEPT !.balance = chain.balance[a]]

HasCodeOrNonce(account) == account.nonce # 0 \/ account.code

-----------------------------------------------------------------------------
(***************************************************************************)
(* The state.                                                              *)
(***************************************************************************)

\* State.init
InitState ==
  [accounts |-> [a \in Addr |-> EmptyAccount], cached |-> {},
   transfers |-> <<>>, events |-> 0]

\* The value State.get_account returns for a.
AccountOf(chain, s, a) ==
  IF a \in s.cached THEN s.accounts[a] ELSE FetchAccount(chain, a)

\* State.update_account
UpdateAccount(s, a, account) ==
  [s EXCEPT !.accounts = [@ EXCEPT ![a] = account], !.cached = @ \cup {a}]

\* The state after State.get_account(a) or State.is_account_warm(a).
CacheAccount(chain, s, a) == UpdateAccount(s, a, AccountOf(chain, s, a))

\* State.cache_precompiles and State.cache_access_list: a set of addresses.
CacheAll(chain, s, as) ==
  [s EXCEPT !.accounts = [a \in Addr |-> IF a \in as THEN AccountOf(chain, s, a)
                                                    ELSE s.accounts[a]],
            !.cached = @ \cup as]

\* State.add_transfer moves nothing when sender and recipient are the same or
\* the amount is zero; otherwise it fails on a short balance or an overflow.
NullTransfer(from, to, amount) == from = to \/ amount = 0

TransferPossible(chain, s, from, to, amount) ==
  \/ NullTransfer(from, to, amount)
  \/ /\ amount <= AccountOf(chain, s, from).balance
     /\ AccountOf(chain, s, to).balance + amount <= MaxUint

\* Mutant of AddTransfer: the balances move, the transfer is not recorded.
AddTransferUnrecorded(chain, s, from, to, amount) ==
  IF NullTransfer(from, to, amount) \/ ~TransferPossible(chain, s, from, to, amount)
    THEN s
    ELSE LET sender == AccountOf(chain, s, from)
             recipient == AccountOf(chain, s, to)
         IN [s EXCEPT
               !.accounts = [@ EXCEPT ![from] = [sender EXCEPT !.balance = @ - amount],
                                      ![to] = [recipient EXCEPT !.balance = @ + amount]],
               !.cached = @ \cup {from, to}]

\* The state after State.add_transfer.  (A failed transfer only caches the two
\* accounts, in a state that every caller then discards.)
AddTransfer(chain, s, from, to, amount) ==
  IF NullTransfer(from, to, amount) \/ ~TransferPossible(chain, s, from, to, amount)
    THEN s
    ELSE LET sender == AccountOf(chain, s, from)
             recipient == AccountOf(chain, s, to)
         IN [s EXCEPT
               !.accounts = [@ EXCEPT ![from] = [sender EXCEPT !.balance = @ - amount],
                                      ![to] = [recipient EXCEPT !.balance = @ + amount]],
               !.cached = @ \cup {from, to},
               !.transfers = Append(@, [sender |-> from, recipient |-> to,
                                        amount |-> amount])]
=============================================================================
