----------------------- MODULE InterpreterProperties -----------------------
(***************************************************************************)
(* Properties of Interpreter that relate the cached state to Starknet's     *)
(* storage, and the check that it implements AtomicTx.                      *)
(***************************************************************************)
EXTENDS Interpreter, Functions

-----------------------------------------------------------------------------
(***************************************************************************)
(* The cache and the native token.                                         *)
(***************************************************************************)
\* The native token's balances when the first n transfers have been made.
Replay(balance, transfers) ==
  LET after[n \in Nat] ==
        IF n = 0 THEN balance ELSE Transferred(after[n - 1], transfers[n])
  IN after

\* The fee taken from the sender's cached balance before it is a transfer.
Reserved(a) == IF phase = "run" /\ a = tx.origin THEN MaxFee ELSE 0

\* The states a transaction may go on with: the present one, and those that
\* the contexts below would restore.
Snapshots == {state} \cup {frames[i].parent_state : i \in 2..Depth}

(***************************************************************************)
(* In each of them the cached balances are those that the recorded          *)
(* transfers will give the native token's contract when they are made.  The *)
(* code keeps balances and transfers apart and never compares them.         *)
(***************************************************************************)
LedgerMatches ==
  \A s \in Snapshots, a \in Addr :
    Replay(chain.balance, s.transfers)[Len(s.transfers)][a] =
      AccountOf(chain, s, a).balance + Reserved(a)

(***************************************************************************)
(* The transfers of the commit cannot fail, in the order they were recorded *)
(* in: the balance is there, and every sender was deployed before, so that  *)
(* Kakarot has its allowance ("Transfers are made last so as to have all    *)
(* accounts created beforehand", starknet.cairo:279).                       *)
(***************************************************************************)
CommitNeverFails ==
  phase = "transfers" /\ state.transfers # <<>> => CanTransfer(Head(state.transfers))

(***************************************************************************)
(* An account that a transaction creates and destroys is left without       *)
(* anything, so that the address can be used again.                         *)
(***************************************************************************)
VanishedAccountsLeaveNothing ==
  phase = "transfers" /\ state.transfers = <<>> =>
    \A a \in state.cached :
      Vanishes(state.accounts[a]) =>
        /\ chain.balance[a] = 0
        /\ FetchAccount(chain, a) = EmptyAccount

-----------------------------------------------------------------------------
(***************************************************************************)
(* What the EVM program sees of a state.                                    *)
(***************************************************************************)
View(s) ==
  [accounts |-> [a \in Addr |-> AccountOf(chain, s, a)],
   transfers |-> s.transfers, events |-> s.events]

(***************************************************************************)
(* A static context, and whatever it calls in whatever way, leaves no trace *)
(* in the state of its caller.                                              *)
(***************************************************************************)
StaticContextsChangeNothing ==
  \A i \in 2..Depth :
    frames[i].read_only =>
      LET now == IF i = Depth THEN state ELSE frames[i + 1].parent_state
      IN View(now) = View(frames[i].parent_state)

-----------------------------------------------------------------------------
(***************************************************************************)
(* A transaction begins, and changes Starknet's storage when it ends.       *)
(***************************************************************************)
LargestValue == CHOOSE v \in Values : \A w \in Values : w <= v

\* Cairo calls made for the sender by a whitelisted contract may spend it all.
MostSpent == IF CairoMovesNative THEN SumFunction(GenesisBalance) ELSE LargestValue

Atomic == INSTANCE AtomicTx WITH
  ledger <- IF phase = "idle" THEN chain ELSE base,
  receipt <- [origin |-> tx.origin,
              status |-> IF phase = "idle" THEN tx.status ELSE "running"],
  MaxValue <- MostSpent

(***************************************************************************)
(* The interpreter, with its journaled state, its stack of contexts and its *)
(* commit in several steps, implements atomic transactions.                 *)
(***************************************************************************)
TransactionsAreAtomic == Atomic!Spec
=============================================================================
