------------------------------ MODULE TxClient ------------------------------
(***************************************************************************)
(* How the scripts and the tests send transactions: utils/starknet.py and   *)
(* utils/kakarot.py.                                                       *)
(*                                                                         *)
(* Several processes (the workers of a test session, a script run beside    *)
(* them) sign for one EVM account and for the relayer that carries its      *)
(* transactions.  Each keeps its own cache of the next nonce of both        *)
(* accounts.  The node orders the transactions it accepted by their        *)
(* Starknet nonce, drops some, and answers late: a process that waits too    *)
(* long goes on without knowing what became of its transaction.            *)
(*                                                                         *)
(* An "invoke" needs a Starknet nonce only (declare takes it the same way); *)
(* an "evm" call, eth_send_transaction, takes the EVM nonce first.  Where   *)
(* the account is a multisig, an invoke is proposed to the Argent API and   *)
(* sent by it once the other owners have signed.                           *)
(***************************************************************************)
EXTENDS Integers, Sequences

CONSTANTS
  Client,   \* the processes
  Worlds,   \* the circumstances to consider
  Retries   \* readings of the nonce after the first (10 in the code)

ASSUME RetriesAssumption == Retries \in Nat
ASSUME WorldsAssumption ==
  Worlds \subseteq [calls : [Client -> SUBSET {"invoke", "evm"}],  \* the calls each process makes
                    multisig : BOOLEAN,  \* the Starknet account is a multisig
                    lag : Nat,           \* how far behind the chain an answer of the node may be
                    txs : Nat]           \* bound: transactions sent

VARIABLES
  world,  \* one of Worlds, which stays
  chain,  \* the next nonce of both accounts
  txs,    \* every transaction the node or the API accepted, and its status
  cache,  \* _nonces of utils/starknet.py and of utils/kakarot.py
  call    \* what each process is doing

vars == <<world, chain, txs, cache, call>>

Layer == {"starknet", "evm"}
Unknown == -1       \* the account is not in _nonces

Step == {"idle", "first", "read", "send", "resend", "wait", "poll", "receipt"}
Status == {"proposed", "pool", "succeeded", "reverted", "rejected"}

\* How a call ended: what it learnt of its transaction ("lost" is nothing), or that
\* the request to send it raised ("refused"), or a reading before ("unsent").
Result == {"none", "ok", "reverted", "rejected", "lost", "refused", "unsent"}

Tx == [by : Client, kind : {"invoke", "evm"}, nonce : Nat, evm : Nat, status : Status]

CallRecord ==
  [step : Step, kind : {"invoke", "evm"}, layer : Layer, left : Nat, evm : Nat,
   nonce : Nat, tx : Nat, result : Result, quiet : BOOLEAN]

Init ==
  /\ world \in Worlds
  /\ chain = [l \in Layer |-> 0]
  /\ txs = <<>>
  /\ cache = [p \in Client |-> [l \in Layer |-> Unknown]]
  /\ call = [p \in Client |->
               [step |-> "idle", kind |-> "invoke", layer |-> "starknet", left |-> 0, evm |-> 0,
                nonce |-> 0, tx |-> 0, result |-> "none", quiet |-> TRUE]]

InFlight(i) == txs[i].status \in {"proposed", "pool"}

-----------------------------------------------------------------------------
(* get_nonce, the same in both modules                                     *)

\* Entering get_nonce for an account.
Enter(p, l) ==
  [call[p] EXCEPT !.step = IF cache[p][l] = Unknown THEN "first" ELSE "read",
                  !.layer = l, !.left = Retries]

\* "quiet" is not in the code: it notes that the call began with no transaction
\* of these accounts on its way and has been alone since.  A relayer is no multisig.
Begin(p, kind) ==
  /\ call[p].step = "idle"
  /\ kind \in world.calls[p]
  /\ Len(txs) < world.txs
  /\ world.multisig => kind = "invoke"
  /\ LET none == \A i \in DOMAIN txs : ~InFlight(i)
         alone == \A q \in Client \ {p} : call[q].step = "idle"
     IN  call' = [q \in Client |->
           IF q = p THEN [Enter(p, IF kind = "evm" THEN "evm" ELSE "starknet")
                            EXCEPT !.kind = kind, !.evm = 0, !.nonce = 0, !.tx = 0, !.result = "none",
                                   !.quiet = none /\ alone]
           ELSE [call[q] EXCEPT !.quiet = FALSE]]
  /\ UNCHANGED <<world, chain, txs, cache>>

\* A reading of the pending nonce.
Readings(l) == {v \in 0..chain[l] : chain[l] - world.lag <= v}

ReadFirst(p) ==
  /\ call[p].step = "first"
  /\ \E v \in Readings(call[p].layer) : cache' = [cache EXCEPT ![p][call[p].layer] = v]
  /\ call' = [call EXCEPT ![p].step = "read"]
  /\ UNCHANGED <<world, chain, txs>>

\* Mutant of ReadAgain: the retries are not counted.
ReadAgainAlways(p) ==
  /\ call[p].step = "read"
  /\ \E v \in Readings(call[p].layer) : v # cache[p][call[p].layer]
  /\ call' = [call EXCEPT ![p].left = @ - 1]
  /\ UNCHANGED <<world, chain, txs, cache>>

\* The loop: read again while the answer is not the cached nonce.
ReadAgain(p) ==
  /\ call[p].step = "read"
  /\ call[p].left > 0
  /\ \E v \in Readings(call[p].layer) : v # cache[p][call[p].layer]
  /\ call' = [call EXCEPT ![p].left = @ - 1]
  /\ UNCHANGED <<world, chain, txs, cache>>

\* Mutant of TakeNonce: after the last retry the cached nonce is used.
TakeCached(p) ==
  /\ call[p].step = "read"
  /\ \E v \in Readings(call[p].layer) :
       /\ v = cache[p][call[p].layer] \/ call[p].left = 0
       /\ cache' = [cache EXCEPT ![p][call[p].layer] = @ + 1]
       /\ call' = [call EXCEPT ![p] =
            IF @.layer = "evm" THEN [Enter(p, "starknet") EXCEPT !.evm = cache[p]["evm"]]
            ELSE [@ EXCEPT !.step = "send", !.nonce = cache[p]["starknet"]]]
  /\ UNCHANGED <<world, chain, txs>>

\* The nonce is the last reading, either because the cache agrees or because
\* the retries are spent.  The EVM nonce is taken before the Starknet one.
TakeNonce(p) ==
  /\ call[p].step = "read"
  /\ \E v \in Readings(call[p].layer) :
       /\ v = cache[p][call[p].layer] \/ call[p].left = 0
       /\ cache' = [cache EXCEPT ![p][call[p].layer] = v + 1]
       /\ call' = [call EXCEPT ![p] =
            IF @.layer = "evm" THEN [Enter(p, "starknet") EXCEPT !.evm = v]
            ELSE [@ EXCEPT !.step = "send", !.nonce = v]]
  /\ UNCHANGED <<world, chain, txs>>

-----------------------------------------------------------------------------
(* execute_v1                                                              *)

Returns(p, result) == [call EXCEPT ![p].step = "idle", ![p].result = result]

\* The transaction is accepted.  The answer may be lost all the same: the request
\* raises, and the process does not know.
Accepted(p, status) ==
  /\ txs' = Append(txs, [by |-> p, kind |-> call[p].kind, nonce |-> call[p].nonce,
                         evm |-> call[p].evm, status |-> status])
  /\ \/ call' = [call EXCEPT ![p].step = IF status = "proposed" THEN "poll" ELSE "wait",
                             ![p].tx = Len(txs) + 1]
     \/ call' = [Returns(p, "lost") EXCEPT ![p].tx = Len(txs) + 1]

\* Whatever makes the request raise, the nonces that were taken are not given back.
Refused(p) == call' = Returns(p, "refused") /\ txs' = txs

\* The node accepts no nonce that is spent, and may refuse any other transaction.
Send(p) ==
  /\ call[p].step = "send"
  /\ ~world.multisig
  /\ \/ call[p].nonce >= chain["starknet"] /\ Accepted(p, "pool")
     \/ Refused(p)
  /\ UNCHANGED <<world, chain, cache>>

\* The request to the API.  While another proposal is being submitted it has no
\* content, and is sent once more.  Any other answer without content raises.
Propose(p) ==
  /\ call[p].step \in {"send", "resend"}
  /\ world.multisig
  /\ \/ Accepted(p, "proposed")
     \/ /\ call[p].step = "send"
        /\ \E i \in DOMAIN txs : InFlight(i)
        /\ call' = [call EXCEPT ![p].step = "resend"]
        /\ txs' = txs
     \/ Refused(p)
  /\ UNCHANGED <<world, chain, cache>>

Own(p) == txs[call[p].tx]
Final == {"succeeded", "reverted", "rejected"}

\* The API is asked until the proposal has a final state, with no limit.  (It may
\* also answer that there is no such proposal: see NotFound.)
Poll(p) ==
  /\ call[p].step = "poll"
  /\ Own(p).status \in Final
  /\ call' = Returns(p, IF Own(p).status = "succeeded" THEN "ok" ELSE Own(p).status)
  /\ UNCHANGED <<world, chain, txs, cache>>

Answer(p) ==
  CASE Own(p).status = "succeeded" -> "ok"
    [] Own(p).status \in {"reverted", "rejected"} -> Own(p).status
    [] OTHER -> "lost"

\* Mutant of Wait: the nonce is given back after every failure.
WaitForgives(p) ==
  /\ call[p].step = "wait"
  /\ call' = [call EXCEPT ![p].step = IF call[p].kind = "evm" THEN "receipt" ELSE "idle",
                          ![p].result = Answer(p)]
  /\ cache' = [cache EXCEPT ![p]["starknet"] = IF Own(p).status \in {"rejected", "reverted"} THEN @ - 1 ELSE @]
  /\ UNCHANGED <<world, chain, txs>>

\* Mutant of Wait: no answer, no end.
WaitForever(p) ==
  /\ call[p].step = "wait"
  /\ Own(p).status \in Final
  /\ call' = [call EXCEPT ![p].step = IF call[p].kind = "evm" THEN "receipt" ELSE "idle",
                          ![p].result = Answer(p)]
  /\ cache' = [cache EXCEPT ![p]["starknet"] = IF Own(p).status = "rejected" THEN @ - 1 ELSE @]
  /\ UNCHANGED <<world, chain, txs>>

\* wait_for_transaction: whatever comes, exceptions included, is logged.  A
\* transaction that was rejected has not spent its nonce; one that has no answer
\* yet, or whose status cannot be read, is given up.
Wait(p) ==
  /\ call[p].step = "wait"
  /\ \E answer \in {Answer(p), "lost"} :
       /\ call' = [call EXCEPT ![p].step = IF call[p].kind = "evm" THEN "receipt" ELSE "idle",
                               ![p].result = answer]
       /\ cache' = [cache EXCEPT ![p]["starknet"] = IF answer = "rejected" THEN @ - 1 ELSE @]
  /\ UNCHANGED <<world, chain, txs>>

\* send_starknet_transaction: a reverted transaction has not spent the EVM nonce,
\* which is given back.  Without a receipt, which a rejected transaction never has,
\* the call raises, and the EVM nonce is kept.
Receipt(p) ==
  /\ call[p].step = "receipt"
  /\ \/ /\ Own(p).status \in {"succeeded", "reverted"}
        /\ call' = Returns(p, Answer(p))
        /\ cache' = [cache EXCEPT ![p]["evm"] = IF Own(p).status = "reverted" THEN @ - 1 ELSE @]
     \/ /\ call' = Returns(p, IF call[p].result = "rejected" THEN "rejected" ELSE "lost")
        /\ cache' = cache
  /\ UNCHANGED <<world, chain, txs>>

-----------------------------------------------------------------------------
(* Exceptions elsewhere: the call raises, and gives nothing back            *)

\* A reading of a nonce, or what eth_send_transaction asks of the node between the two.
ReadRaises(p) ==
  /\ call[p].step \in {"first", "read"}
  /\ call' = Returns(p, "unsent")
  /\ UNCHANGED <<world, chain, txs, cache>>

\* The API does not answer, or does not know the proposal any more.
NotFound(p) ==
  /\ call[p].step = "poll"
  /\ call' = Returns(p, "lost")
  /\ UNCHANGED <<world, chain, txs, cache>>

-----------------------------------------------------------------------------
(* The node, the API and the other owners of a multisig                    *)

\* Both outcomes spend the Starknet nonce; only an EVM transaction that carries
\* the nonce of its account succeeds, and spends that one too.
Include(i) ==
  /\ txs[i].status = "pool"
  /\ txs[i].nonce = chain["starknet"]
  /\ \/ /\ txs[i].kind = "evm" => txs[i].evm = chain["evm"]
        /\ txs' = [txs EXCEPT ![i].status = "succeeded"]
        /\ chain' = [l \in Layer |-> IF l = "starknet" \/ txs[i].kind = "evm" THEN chain[l] + 1
                                     ELSE chain[l]]
     \/ /\ txs' = [txs EXCEPT ![i].status = "reverted"]
        /\ chain' = [chain EXCEPT !["starknet"] = @ + 1]
  /\ UNCHANGED <<world, cache, call>>

Reject(i) ==
  /\ txs[i].status = "pool"
  /\ txs' = [txs EXCEPT ![i].status = "rejected"]
  /\ UNCHANGED <<world, chain, cache, call>>

Sign(i) ==
  /\ txs[i].status = "proposed"
  /\ txs' = [txs EXCEPT ![i].status = "pool"]
  /\ UNCHANGED <<world, chain, cache, call>>

Decline(i) ==
  /\ txs[i].status = "proposed"
  /\ txs' = [txs EXCEPT ![i].status = "rejected"]
  /\ UNCHANGED <<world, chain, cache, call>>

Continue(p) ==
  \/ ReadFirst(p) \/ ReadAgain(p) \/ TakeNonce(p) \/ Send(p) \/ Propose(p)
  \/ Poll(p) \/ Wait(p) \/ Receipt(p)

Raises(p) == ReadRaises(p) \/ NotFound(p)

Settle(i) == Include(i) \/ Reject(i) \/ Sign(i) \/ Decline(i)

Next ==
  \/ \E p \in Client : Continue(p) \/ Raises(p) \/ \E kind \in {"invoke", "evm"} : Begin(p, kind)
  \/ \E i \in DOMAIN txs : Settle(i)

Spec == Init /\ [][Next]_vars

\* A process that is in a call goes on with it: its waits are bounded.  Those of a
\* multisig are not: its owners decide, and the node settles what was signed.  No
\* call is relied upon to raise.
Fairness ==
  /\ \A p \in Client : WF_vars(Continue(p))
  /\ WF_vars(world.multisig /\ \E i \in DOMAIN txs : Settle(i))

FairSpec == Spec /\ Fairness

-----------------------------------------------------------------------------
(* Properties                                                              *)

TypeOK ==
  /\ world \in Worlds
  /\ chain \in [Layer -> Nat]
  /\ txs \in Seq(Tx)
  /\ cache \in [Client -> [Layer -> Nat \cup {Unknown}]]
  /\ call \in [Client -> CallRecord]
  /\ \A p \in Client : call[p].step \in {"wait", "poll", "receipt"} => call[p].tx \in DOMAIN txs

\* No transaction is ever sent with a nonce the account has not reached: after any
\* mix of clients, stale answers, rejections and timeouts there is no hole that
\* would keep an accepted transaction, and all that follow, in the pool for ever.
NoNonceGap ==
  \A i \in DOMAIN txs : /\ txs[i].nonce <= chain["starknet"]
                        /\ txs[i].kind = "evm" => txs[i].evm <= chain["evm"]

\* A call that began with no transaction on its way, and is alone, is sent with the
\* nonces the accounts have, whatever earlier rejections, reverts, timeouts and other
\* clients did to the caches: a client recovers by itself, when the node answers promptly.
QuietCallIsFresh ==
  world.lag = 0 =>
    \A p \in Client : call[p].step \in {"send", "resend"} /\ call[p].quiet =>
      /\ call[p].nonce = chain["starknet"]
      /\ call[p].kind = "evm" => call[p].evm = chain["evm"]

\* The nonces that a call has taken when it ends.
Took(p) ==
  {l \in Layer : /\ l = "evm" => call[p].kind = "evm"
                 /\ call[p].result = "unsent" => l = "evm" /\ call[p].layer = "starknet"}

\* A revert spends the Starknet nonce and not the EVM one.
Spent(p, l) ==
  /\ call[p].result \notin {"unsent", "refused"}
  /\ Own(p).status \in IF l = "evm" THEN {"succeeded"} ELSE {"succeeded", "reverted"}

\* The two nonces the code gives back, when it knows what became of the transaction.
GivenBack(p, l) ==
  IF l = "evm" THEN call[p].result = "reverted"
  ELSE call[p].result = "rejected" /\ ~world.multisig

\* However such a call ends, returning or raising, and whatever becomes of its
\* transaction afterwards: a cached nonce is that of the chain when the transaction has
\* spent the one it took or the call has given it back, never both, and else it is one
\* ahead.  Ahead are the EVM nonce after a rejection, both after a request that raised
\* or an answer that was lost unless the transaction is included all the same, and the
\* Starknet nonce after a proposal that was declined.
InSync ==
  world.lag = 0 =>
    \A p \in Client :
      call[p].step = "idle" /\ call[p].quiet /\ call[p].result # "none" =>
        \A l \in Took(p) :
          cache[p][l] = IF Spent(p, l) \/ GivenBack(p, l) THEN chain[l] ELSE chain[l] + 1

\* Every call returns or raises.
CallsEnd == \A p \in Client : call[p].step # "idle" ~> call[p].step = "idle"

=============================================================================
