------------------------------ MODULE AtomicTx ------------------------------
(***************************************************************************)
(* What Kakarot promises of an EVM transaction, whatever its program does:  *)
(* it is atomic.  It begins, and ends in one step: it is rejected, or it    *)
(* reverts and pays its fee, or it succeeds within the limits that the EVM  *)
(* sets, or Starknet aborts it and nothing happened.  The receipt tells     *)
(* which, and what it tells of Starknet's storage is true.                  *)
(***************************************************************************)
EXTENDS Naturals, Functions

CONSTANTS
  Addr,           \* EVM addresses
  Eoa,            \* accounts that send transactions
  CreateTargets,  \* addresses where contracts may be created
  Coinbase,       \* receives the fees
  MaxFee,         \* largest fee of a transaction
  MaxValue        \* largest value a transaction may carry

VARIABLES
  ledger,   \* the storage of Starknet, a record: see Chain in EvmState
  receipt   \* the present or last transaction: its sender and its status

vars == <<ledger, receipt>>

Init == receipt.status = "none"

Unchanged(fields) == \A field \in fields : ledger'[field] = ledger[field]

Begin ==
  /\ receipt.status # "running"
  /\ \E origin \in Eoa : receipt' = [origin |-> origin, status |-> "running"]
  /\ UNCHANGED ledger

Ends(status) ==
  /\ receipt.status = "running"
  /\ receipt' = [receipt EXCEPT !.status = status]

Abort == Ends("aborted") /\ UNCHANGED ledger

\* Account contracts are deployed when they are first touched, whatever the
\* outcome, and remain.
AccountsRemain == ledger.registered \subseteq ledger'.registered

Reject ==
  /\ Ends("invalid")
  /\ AccountsRemain
  /\ Unchanged({"balance", "nonce", "code", "slot", "events", "cairo"})

PaidTo(to, from, fee) ==
  IF to = from THEN ledger.balance
  ELSE [ledger.balance EXCEPT ![from] = @ - fee, ![to] = @ + fee]

\* The sender's nonce and the fee are all that a failure leaves.
Fail(origin) ==
  /\ Ends("reverted")
  /\ AccountsRemain
  /\ ledger'.nonce = [ledger.nonce EXCEPT ![origin] = @ + 1]
  /\ \E fee \in 1..MaxFee :
       /\ fee <= ledger.balance[origin]
       /\ ledger'.balance = PaidTo(Coinbase, origin, fee)
  /\ Unchanged({"code", "slot", "events", "cairo"})

\* The token is neither created nor destroyed; whoever has no code and did not
\* send the transaction loses none.
TokenMoves(origin) ==
  /\ SumFunction(ledger'.balance) = SumFunction(ledger.balance)
  /\ ledger'.balance[origin] + MaxValue + MaxFee >= ledger.balance[origin]
  /\ \A a \in Addr \ {origin} :
       ledger'.balance[a] < ledger.balance[a] => ledger.code[a] \/ a \in CreateTargets

\* Nonces count up, the sender's by one, so that no creation address and no
\* transaction is used twice; those of other senders do not move.
NoncesCount(origin) ==
  /\ ledger'.nonce[origin] = ledger.nonce[origin] + 1
  /\ \A a \in Addr : ledger'.nonce[a] >= ledger.nonce[a]
  /\ \A a \in Eoa \ {origin} : ledger'.nonce[a] = ledger.nonce[a]

\* Code is written once, with a nonce; storage belongs to such accounts.
CodeIsFinal ==
  \A a \in Addr :
    /\ ledger.code[a] => ledger'.code[a]
    /\ ledger'.code[a] /\ ~ledger.code[a] => ledger.nonce[a] = 0 /\ ledger'.nonce[a] > 0
    /\ ledger'.slot[a] # ledger.slot[a] => ledger'.nonce[a] > 0

Succeed(origin) ==
  /\ Ends("success")
  /\ AccountsRemain
  /\ TokenMoves(origin)
  /\ NoncesCount(origin)
  /\ CodeIsFinal
  /\ ledger'.events >= ledger.events
  /\ ledger'.cairo >= ledger.cairo

Next ==
  \/ Begin
  \/ Reject
  \/ Fail(receipt.origin)
  \/ Succeed(receipt.origin)
  \/ Abort

Spec == Init /\ [][Next]_vars
=============================================================================
