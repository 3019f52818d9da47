--------------------------- MODULE TxClientProofs ---------------------------
(***************************************************************************)
(* Proofs about TxClient, for every set of clients, every lag of the node   *)
(* and every number of retries.                                            *)
(*                                                                         *)
(* No transaction is sent past a nonce the account has reached.  The nonce  *)
(* of a call is a reading of the chain, which never goes back: the          *)
(* inductive invariant Reached says so of the call before it is sent.       *)
(*                                                                         *)
(* A client that is alone and whose node is prompt begins with the nonces   *)
(* of the chain (QInv) and ends with them, whatever its transaction came to *)
(* (SInv): its own transaction is the only one on its way, and the chain is *)
(* where the nonces it took and what it gave back say.                      *)
(***************************************************************************)
EXTENDS TxClient, TLAPS, SequenceTheorems

\* The nonces a call has taken are nonces its accounts have reached.
CallReached(r) ==
  /\ r.step \in {"send", "resend"} => r.nonce <= chain["starknet"]
  /\ r.step \in {"first", "read", "send", "resend"} /\ r.layer = "starknet" /\ r.kind = "evm"
       => r.evm <= chain["evm"]

\* The cache holds the nonce that follows the one taken, until the call has its
\* answer: what a rejection or a revert gives back is the nonce of this call.
Taken(r, c) ==
  /\ r.step \in {"send", "resend", "wait", "poll", "receipt"} => r.layer = "starknet"
  /\ r.step = "receipt" => r.kind = "evm"
  /\ r.step \in {"send", "resend", "wait", "poll"} => c["starknet"] = r.nonce + 1
  /\ r.step # "idle" /\ r.layer = "starknet" /\ r.kind = "evm" => c["evm"] = r.evm + 1

Reached == \A p \in Client : CallReached(call[p]) /\ Taken(call[p], cache[p])

IInv == TypeOK /\ NoNonceGap /\ Reached

Caches == [Layer -> Nat \cup {Unknown}]

\* Entering get_nonce gives a call to go on with.
LEMMA EnterType ==
  ASSUME TypeOK, NEW p \in Client, NEW l \in Layer
  PROVE  Enter(p, l) \in CallRecord
<1>1. call[p] \in CallRecord
  BY DEF TypeOK
<1> QED
  BY <1>1, RetriesAssumption DEF Enter, CallRecord, Step, Layer

\* An action that changes one call and the caches of its process.
LEMMA CallStep ==
  ASSUME IInv, NEW p \in Client, NEW r \in CallRecord, NEW c \in Caches,
         call' = [call EXCEPT ![p] = r],
         cache' = [cache EXCEPT ![p] = c],
         UNCHANGED <<world, chain, txs>>,
         r.step \in {"wait", "poll", "receipt"} => r.tx \in DOMAIN txs,
         CallReached(r), Taken(r, c)
  PROVE  IInv'
<1>1. \A q \in Client : /\ call'[q] = IF q = p THEN r ELSE call[q]
                        /\ cache'[q] = IF q = p THEN c ELSE cache[q]
  BY DEF IInv, TypeOK
<1>2. TypeOK'
  BY <1>1 DEF IInv, TypeOK, Caches
<1>3. NoNonceGap'
  BY DEF IInv, NoNonceGap
<1>4. Reached'
  BY <1>1 DEF IInv, Reached, CallReached, Taken
<1> QED
  BY <1>2, <1>3, <1>4 DEF IInv

\* What the invariant says of one process.
LEMMA OfProcess ==
  ASSUME IInv, NEW p \in Client
  PROVE  /\ call[p] \in CallRecord
         /\ cache[p] \in Caches
         /\ CallReached(call[p])
         /\ Taken(call[p], cache[p])
         /\ call[p].step \in {"wait", "poll", "receipt"} => call[p].tx \in DOMAIN txs
BY DEF IInv, TypeOK, Reached, Caches

\* A reading is a nonce the account has reached.
LEMMA ReadingsReached ==
  ASSUME TypeOK, NEW l \in Layer, NEW v \in Readings(l)
  PROVE  v \in Nat /\ v <= chain[l]
<1>1. chain[l] \in Nat
  BY DEF TypeOK
<1> QED
  BY <1>1 DEF Readings

LEMMA InitInv == Init => IInv
<1> SUFFICES ASSUME Init PROVE IInv
  OBVIOUS
<1>1. TypeOK
  BY DEF Init, TypeOK, CallRecord, Step, Layer, Result, Tx, Unknown
<1>2. NoNonceGap
  BY DEF Init, NoNonceGap
<1>3. Reached
  BY DEF Init, Reached, CallReached, Taken
<1> QED
  BY <1>1, <1>2, <1>3 DEF IInv

LEMMA BeginInv ==
  ASSUME IInv, NEW p \in Client, NEW kind \in {"invoke", "evm"}, Begin(p, kind)
  PROVE  IInv'
<1> DEFINE l == IF kind = "evm" THEN "evm" ELSE "starknet"
           quiet == (\A i \in DOMAIN txs : ~InFlight(i)) /\ (\A q \in Client \ {p} : call[q].step = "idle")
           r == [Enter(p, l) EXCEPT !.kind = kind, !.evm = 0, !.nonce = 0, !.tx = 0,
                                    !.result = "none", !.quiet = quiet]
           other(q) == [call[q] EXCEPT !.quiet = FALSE]
<1>1. l \in Layer
  BY DEF Layer
<1>2. Enter(p, l) \in CallRecord
  BY <1>1, EnterType DEF IInv
<1>3. /\ r \in CallRecord
      /\ r.step \in {"first", "read"}
      /\ r.kind = kind
      /\ r.layer = l
  <2>1. Enter(p, l).step \in {"first", "read"} /\ Enter(p, l).layer = l
    BY OfProcess DEF Enter, CallRecord
  <2>2. quiet \in BOOLEAN
    OBVIOUS
  <2> HIDE DEF l, quiet
  <2> QED
    BY <1>2, <2>1, <2>2 DEF CallRecord, Result
<1>4. /\ call' = [q \in Client |-> IF q = p THEN r ELSE other(q)]
      /\ UNCHANGED <<world, chain, txs, cache>>
  BY Zenon DEF Begin
<1> HIDE DEF r
<1>5. CallReached(r) /\ Taken(r, cache[p])
  BY <1>3 DEF CallReached, Taken
<1>6. ASSUME NEW q \in Client
      PROVE  /\ other(q) \in CallRecord
             /\ CallReached(other(q))
             /\ Taken(other(q), cache[q])
             /\ other(q).step \in {"wait", "poll", "receipt"} => other(q).tx \in DOMAIN txs
  <2>1. /\ other(q) \in CallRecord
        /\ other(q).step = call[q].step
        /\ other(q).kind = call[q].kind
        /\ other(q).layer = call[q].layer
        /\ other(q).evm = call[q].evm
        /\ other(q).nonce = call[q].nonce
        /\ other(q).tx = call[q].tx
    BY OfProcess DEF CallRecord
  <2> HIDE DEF other
  <2> QED
    BY <2>1, OfProcess DEF CallReached, Taken
<1> HIDE DEF other
<1>7. TypeOK'
  BY <1>3, <1>4, <1>6 DEF IInv, TypeOK
<1>8. NoNonceGap'
  BY <1>4 DEF IInv, NoNonceGap
<1>9. Reached'
  BY <1>4, <1>5, <1>6 DEF Reached, CallReached, Taken
<1> QED
  BY <1>7, <1>8, <1>9 DEF IInv

LEMMA ReadFirstInv ==
  ASSUME IInv, NEW p \in Client, ReadFirst(p)
  PROVE  IInv'
<1> DEFINE l == call[p].layer
           r == [call[p] EXCEPT !.step = "read"]
<1>1. /\ call[p] \in CallRecord
      /\ cache[p] \in Caches
      /\ l \in Layer
      /\ call[p].step = "first"
      /\ CallReached(call[p])
      /\ Taken(call[p], cache[p])
  BY OfProcess DEF ReadFirst, CallRecord
<1>2. PICK v \in Readings(l) : cache' = [cache EXCEPT ![p][l] = v]
  BY DEF ReadFirst
<1> DEFINE c == [cache[p] EXCEPT ![l] = v]
<1>3. v \in Nat
  BY <1>1, ReadingsReached DEF IInv
<1>4. c \in Caches /\ (l = "starknet" => c["evm"] = cache[p]["evm"])
  BY <1>1, <1>3 DEF Caches, Layer
<1>5. /\ r \in CallRecord
      /\ r.step = "read"
      /\ r.layer = l
      /\ r.kind = call[p].kind
      /\ r.evm = call[p].evm
  BY <1>1 DEF CallRecord, Step
<1>6. call' = [call EXCEPT ![p] = r] /\ cache' = [cache EXCEPT ![p] = c] /\ UNCHANGED <<world, chain, txs>>
  BY <1>2 DEF ReadFirst
<1> HIDE DEF r, c
<1>7. CallReached(r) /\ Taken(r, c)
  BY <1>1, <1>4, <1>5 DEF CallReached, Taken
<1> QED
  BY <1>4, <1>5, <1>6, <1>7, CallStep

LEMMA ReadAgainInv ==
  ASSUME IInv, NEW p \in Client, ReadAgain(p)
  PROVE  IInv'
<1> DEFINE r == [call[p] EXCEPT !.left = @ - 1]
<1>1. /\ call[p] \in CallRecord
      /\ cache[p] \in Caches
      /\ call[p].step = "read"
      /\ call[p].left > 0
      /\ CallReached(call[p])
      /\ Taken(call[p], cache[p])
  BY OfProcess DEF ReadAgain
<1>2. /\ r \in CallRecord
      /\ r.step = "read"
      /\ r.layer = call[p].layer
      /\ r.kind = call[p].kind
      /\ r.evm = call[p].evm
  BY <1>1 DEF CallRecord
<1>3. call' = [call EXCEPT ![p] = r] /\ cache' = [cache EXCEPT ![p] = cache[p]]
        /\ UNCHANGED <<world, chain, txs>>
  BY DEF ReadAgain, IInv, TypeOK
<1> HIDE DEF r
<1>4. CallReached(r) /\ Taken(r, cache[p])
  BY <1>1, <1>2 DEF CallReached, Taken
<1> QED
  BY <1>1, <1>2, <1>3, <1>4, CallStep

LEMMA TakeNonceInv ==
  ASSUME IInv, NEW p \in Client, TakeNonce(p)
  PROVE  IInv'
<1> DEFINE l == call[p].layer
<1>1. /\ call[p] \in CallRecord
      /\ cache[p] \in Caches
      /\ l \in Layer
      /\ call[p].step = "read"
      /\ CallReached(call[p])
      /\ Taken(call[p], cache[p])
  BY OfProcess DEF TakeNonce, CallRecord
<1>2. PICK v \in Readings(l) :
        /\ cache' = [cache EXCEPT ![p][l] = v + 1]
        /\ call' = [call EXCEPT ![p] =
             IF @.layer = "evm" THEN [Enter(p, "starknet") EXCEPT !.evm = v]
             ELSE [@ EXCEPT !.step = "send", !.nonce = v]]
  BY DEF TakeNonce
<1> DEFINE c == [cache[p] EXCEPT ![l] = v + 1]
<1>3. v \in Nat /\ v <= chain[l]
  BY <1>1, ReadingsReached DEF IInv
<1>4. /\ c \in Caches
      /\ c[l] = v + 1
      /\ l = "starknet" => c["evm"] = cache[p]["evm"]
  BY <1>1, <1>3 DEF Caches, Layer
<1>5. cache' = [cache EXCEPT ![p] = c] /\ UNCHANGED <<world, chain, txs>>
  BY <1>2 DEF TakeNonce
<1>6. CASE l = "evm"
  <2> DEFINE r == [Enter(p, "starknet") EXCEPT !.evm = v]
  <2>1. Enter(p, "starknet") \in CallRecord
    BY EnterType DEF IInv, Layer
  <2>2. Enter(p, "starknet").step \in {"first", "read"}
    BY <1>1 DEF Enter, CallRecord
  <2>3. r \in CallRecord /\ r.step \in {"first", "read"} /\ r.evm = v
    BY <1>3, <2>1, <2>2 DEF CallRecord
  <2>4. call' = [call EXCEPT ![p] = r]
    BY <1>2, <1>6
  <2> HIDE DEF r, c
  <2>5. CallReached(r) /\ Taken(r, c)
    BY <1>3, <1>4, <1>6, <2>3 DEF CallReached, Taken
  <2> QED
    BY <1>4, <1>5, <2>3, <2>4, <2>5, CallStep
<1>7. CASE l = "starknet"
  <2> DEFINE r == [call[p] EXCEPT !.step = "send", !.nonce = v]
  <2>1. /\ r \in CallRecord
        /\ r.step = "send"
        /\ r.nonce = v
        /\ r.layer = "starknet"
        /\ r.kind = call[p].kind
        /\ r.evm = call[p].evm
    BY <1>1, <1>3, <1>7 DEF CallRecord, Step
  <2>2. call' = [call EXCEPT ![p] = r]
    BY <1>2, <1>7
  <2> HIDE DEF r, c
  <2>3. CallReached(r) /\ Taken(r, c)
    BY <1>1, <1>3, <1>4, <1>7, <2>1 DEF CallReached, Taken
  <2> QED
    BY <1>4, <1>5, <2>1, <2>2, <2>3, CallStep
<1> QED
  BY <1>1, <1>6, <1>7 DEF Layer

\* A call that ends raises or returns, whatever its caches have become.
LEMMA ReturnsInv ==
  ASSUME IInv, NEW p \in Client, NEW result \in Result, NEW c \in Caches,
         call' = Returns(p, result), cache' = [cache EXCEPT ![p] = c],
         UNCHANGED <<world, chain, txs>>
  PROVE  IInv'
<1> DEFINE r == [call[p] EXCEPT !.step = "idle", !.result = result]
<1>1. r \in CallRecord /\ r.step = "idle"
  BY OfProcess DEF CallRecord, Step
<1>2. call' = [call EXCEPT ![p] = r]
  BY DEF Returns
<1> HIDE DEF r
<1>3. CallReached(r) /\ Taken(r, c)
  BY <1>1 DEF CallReached, Taken
<1> QED
  BY <1>1, <1>2, <1>3, CallStep

\* A transaction is accepted with the nonces of its call.
LEMMA AcceptedInv ==
  ASSUME IInv, NEW p \in Client, NEW status \in {"proposed", "pool"}, Accepted(p, status),
         call[p].step \in {"send", "resend"}, UNCHANGED <<world, chain, cache>>
  PROVE  IInv'
<1> DEFINE t == [by |-> p, kind |-> call[p].kind, nonce |-> call[p].nonce,
                 evm |-> call[p].evm, status |-> status]
           n == Len(txs) + 1
           r == call'[p]
<1>1. /\ call[p] \in CallRecord
      /\ txs \in Seq(Tx)
      /\ n \in Nat
      /\ CallReached(call[p])
      /\ Taken(call[p], cache[p])
  BY OfProcess DEF IInv, TypeOK
<1>2. t \in Tx
  BY <1>1 DEF Tx, CallRecord, Status
<1>3. t.nonce <= chain["starknet"] /\ (t.kind = "evm" => t.evm <= chain["evm"])
  BY <1>1 DEF CallReached, Taken
<1>4. /\ txs' = Append(txs, t)
      /\ \/ r = [call[p] EXCEPT !.step = IF status = "proposed" THEN "poll" ELSE "wait", !.tx = n]
         \/ r = [call[p] EXCEPT !.step = "idle", !.result = "lost", !.tx = n]
      /\ call' = [call EXCEPT ![p] = r]
  BY DEF Accepted, Returns, IInv, TypeOK
<1>5. /\ txs' \in Seq(Tx)
      /\ \A i \in DOMAIN txs' : txs'[i] = IF i = n THEN t ELSE txs[i]
      /\ \A i \in DOMAIN txs' : i # n => i \in DOMAIN txs
      /\ DOMAIN txs \subseteq DOMAIN txs'
      /\ n \in DOMAIN txs'
  <2> HIDE DEF t
  <2> QED
    BY <1>1, <1>2, <1>4
<1> HIDE DEF n
<1> HIDE DEF r
<1>6. /\ r \in CallRecord
      /\ r.step \in {"wait", "poll", "idle"}
      /\ r.tx = n
      /\ r.layer = call[p].layer
      /\ r.kind = call[p].kind
      /\ r.nonce = call[p].nonce
      /\ r.evm = call[p].evm
  <2> DEFINE step == IF status = "proposed" THEN "poll" ELSE "wait"
  <2>1. step \in {"wait", "poll"}
    OBVIOUS
  <2>2. CASE r = [call[p] EXCEPT !.step = step, !.tx = n]
    <3> HIDE DEF step
    <3> QED
      BY <1>1, <2>1, <2>2 DEF CallRecord, Step
  <2>3. CASE r = [call[p] EXCEPT !.step = "idle", !.result = "lost", !.tx = n]
    BY <1>1, <2>3 DEF CallRecord, Step, Result
  <2> QED
    BY <1>4, <2>2, <2>3
<1> HIDE DEF t
<1>7. \A q \in Client : call'[q] = IF q = p THEN r ELSE call[q]
  BY <1>4 DEF IInv, TypeOK
<1>8. TypeOK'
  BY <1>4, <1>5, <1>6, <1>7 DEF IInv, TypeOK
<1>9. NoNonceGap'
  BY <1>3, <1>5 DEF IInv, NoNonceGap
<1>10. CallReached(r) /\ Taken(r, cache[p])
  BY <1>1, <1>6 DEF CallReached, Taken
<1>11. Reached'
  BY <1>7, <1>10 DEF IInv, Reached, CallReached, Taken
<1> QED
  BY <1>8, <1>9, <1>11 DEF IInv

\* A request that raises ends its call.
LEMMA RefusedInv ==
  ASSUME IInv, NEW p \in Client, NEW result \in Result, call' = Returns(p, result),
         UNCHANGED <<world, chain, txs, cache>>
  PROVE  IInv'
<1>1. cache' = [cache EXCEPT ![p] = cache[p]] /\ cache[p] \in Caches
  BY OfProcess DEF IInv, TypeOK
<1> QED
  BY <1>1, ReturnsInv

LEMMA SendInv ==
  ASSUME IInv, NEW p \in Client, Send(p) \/ Propose(p)
  PROVE  IInv'
<1>1. /\ call[p].step \in {"send", "resend"}
      /\ UNCHANGED <<world, chain, cache>>
      /\ cache' = [cache EXCEPT ![p] = cache[p]]
  BY DEF Send, Propose, IInv, TypeOK
<1>2. /\ call[p] \in CallRecord
      /\ cache[p] \in Caches
      /\ CallReached(call[p])
      /\ Taken(call[p], cache[p])
  BY OfProcess
<1>3. CASE \E status \in {"proposed", "pool"} : Accepted(p, status)
  BY <1>1, <1>3, AcceptedInv
<1>4. CASE Refused(p)
  BY <1>1, <1>4, RefusedInv DEF Refused, Result
<1>5. CASE call[p].step = "send" /\ call' = [call EXCEPT ![p].step = "resend"] /\ txs' = txs
  <2> DEFINE r == [call[p] EXCEPT !.step = "resend"]
  <2>1. /\ r \in CallRecord
        /\ r.step = "resend"
        /\ r.nonce = call[p].nonce
        /\ r.layer = call[p].layer
        /\ r.kind = call[p].kind
        /\ r.evm = call[p].evm
    BY <1>2 DEF CallRecord, Step
  <2>2. call' = [call EXCEPT ![p] = r]
    BY <1>5
  <2> HIDE DEF r
  <2>3. CallReached(r) /\ Taken(r, cache[p])
    BY <1>2, <1>5, <2>1 DEF CallReached, Taken
  <2> QED
    BY <1>1, <1>2, <1>5, <2>1, <2>2, <2>3, CallStep
<1> QED
  BY <1>3, <1>4, <1>5 DEF Send, Propose

LEMMA AnswerType ==
  ASSUME NEW p \in Client
  PROVE  Answer(p) \in Result
BY DEF Answer, Result

LEMMA PollInv ==
  ASSUME IInv, NEW p \in Client, Poll(p)
  PROVE  IInv'
<1> DEFINE result == IF Own(p).status = "succeeded" THEN "ok" ELSE Own(p).status
<1>1. result \in Result
  BY DEF Poll, Final, Result
<1>2. /\ call' = Returns(p, result)
      /\ UNCHANGED <<world, chain, txs>>
      /\ cache' = [cache EXCEPT ![p] = cache[p]]
  BY DEF Poll, IInv, TypeOK
<1> HIDE DEF result
<1> QED
  BY <1>1, <1>2, OfProcess, ReturnsInv

LEMMA WaitInv ==
  ASSUME IInv, NEW p \in Client, Wait(p)
  PROVE  IInv'
<1>0. PICK answer \in {Answer(p), "lost"} :
        /\ call' = [call EXCEPT ![p].step = IF call[p].kind = "evm" THEN "receipt" ELSE "idle",
                                ![p].result = answer]
        /\ cache' = [cache EXCEPT ![p]["starknet"] = IF answer = "rejected" THEN @ - 1 ELSE @]
        /\ UNCHANGED <<world, chain, txs>>
  BY Zenon DEF Wait
<1> DEFINE c == [cache[p] EXCEPT !["starknet"] = IF answer = "rejected" THEN @ - 1 ELSE @]
           step == IF call[p].kind = "evm" THEN "receipt" ELSE "idle"
           r == [call[p] EXCEPT !.step = step, !.result = answer]
<1>1. /\ call[p] \in CallRecord
      /\ cache[p] \in Caches
      /\ call[p].step = "wait"
      /\ Taken(call[p], cache[p])
      /\ call[p].tx \in DOMAIN txs
  BY OfProcess DEF Wait
<1>2. c \in Caches /\ c["evm"] = cache[p]["evm"]
  <2>1. cache[p]["starknet"] - 1 \in Nat
    BY <1>1 DEF Taken, CallRecord
  <2>2. (IF answer = "rejected" THEN cache[p]["starknet"] - 1 ELSE cache[p]["starknet"])
          \in Nat \cup {Unknown}
    BY <1>1, <2>1 DEF Caches, Layer
  <2> QED
    BY <1>1, <2>2 DEF Caches, Layer
<1>3. step \in {"receipt", "idle"} /\ answer \in Result
        /\ (step = "receipt" => call[p].kind = "evm")
  BY AnswerType DEF Result
<1>4. call' = [call EXCEPT ![p] = r] /\ cache' = [cache EXCEPT ![p] = c] /\ UNCHANGED <<world, chain, txs>>
  BY <1>0
<1> HIDE DEF step, c
<1>5. /\ r \in CallRecord
      /\ r.step \in {"receipt", "idle"}
      /\ r.tx = call[p].tx
      /\ r.layer = call[p].layer
      /\ r.kind = call[p].kind
      /\ r.step = "receipt" => r.kind = "evm"
      /\ r.evm = call[p].evm
  BY <1>1, <1>3 DEF CallRecord, Step
<1> HIDE DEF r
<1>6. CallReached(r) /\ Taken(r, c)
  BY <1>1, <1>2, <1>5 DEF CallReached, Taken
<1> QED
  BY <1>1, <1>2, <1>4, <1>5, <1>6, CallStep

LEMMA ReceiptInv ==
  ASSUME IInv, NEW p \in Client, Receipt(p)
  PROVE  IInv'
<1>1. CASE /\ call' = Returns(p, Answer(p))
           /\ cache' = [cache EXCEPT ![p]["evm"] = IF Own(p).status = "reverted" THEN @ - 1 ELSE @]
  <2> DEFINE c == [cache[p] EXCEPT !["evm"] = IF Own(p).status = "reverted" THEN @ - 1 ELSE @]
  <2>1. /\ call[p] \in CallRecord
        /\ cache[p] \in Caches
        /\ call[p].step = "receipt"
        /\ Taken(call[p], cache[p])
    BY OfProcess DEF Receipt
  <2>2. cache' = [cache EXCEPT ![p] = c] /\ UNCHANGED <<world, chain, txs>>
    BY <1>1 DEF Receipt
  <2>3. c \in Caches
    <3>1. cache[p]["evm"] - 1 \in Nat
      BY <2>1 DEF Taken, CallRecord
    <3>2. (IF Own(p).status = "reverted" THEN cache[p]["evm"] - 1 ELSE cache[p]["evm"])
            \in Nat \cup {Unknown}
      BY <2>1, <3>1 DEF Caches, Layer
    <3> QED
      BY <2>1, <3>2 DEF Caches, Layer
  <2> HIDE DEF c
  <2> QED
    BY <1>1, <2>2, <2>3, AnswerType, ReturnsInv
<1>2. CASE /\ call' = Returns(p, IF call[p].result = "rejected" THEN "rejected" ELSE "lost")
           /\ cache' = cache
  <2> DEFINE result == IF call[p].result = "rejected" THEN "rejected" ELSE "lost"
  <2>1. result \in Result /\ UNCHANGED <<world, chain, txs>>
    BY DEF Result, Receipt
  <2> HIDE DEF result
  <2> QED
    BY <1>2, <2>1, RefusedInv DEF result
<1> QED
  BY <1>1, <1>2 DEF Receipt

LEMMA RaisesInv ==
  ASSUME IInv, NEW p \in Client, Raises(p)
  PROVE  IInv'
BY RefusedInv DEF Raises, ReadRaises, NotFound, Result

\* The node changes the status of a transaction and moves the chain forward.
LEMMA SettleStep ==
  ASSUME IInv, NEW i \in DOMAIN txs, NEW status \in Status,
         txs' = [txs EXCEPT ![i].status = status],
         chain' \in [Layer -> Nat], \A l \in Layer : chain[l] <= chain'[l],
         UNCHANGED <<world, cache, call>>
  PROVE  IInv'
<1>1. /\ txs \in Seq(Tx)
      /\ chain \in [Layer -> Nat]
      /\ \A p \in Client : call[p] \in CallRecord
  BY DEF IInv, TypeOK
<1> DEFINE t == [txs[i] EXCEPT !.status = status]
<1>2. /\ t \in Tx
      /\ t.nonce = txs[i].nonce
      /\ t.kind = txs[i].kind
      /\ t.evm = txs[i].evm
  <2>1. txs[i] \in Tx
    BY <1>1
  <2> QED
    BY <2>1 DEF Tx
<1>3. /\ txs' \in Seq(Tx)
      /\ DOMAIN txs' = DOMAIN txs
      /\ \A j \in DOMAIN txs : txs'[j] = IF j = i THEN t ELSE txs[j]
  <2>1. txs' = [txs EXCEPT ![i] = t]
    OBVIOUS
  <2> HIDE DEF t
  <2>2. DOMAIN txs = 1..Len(txs) /\ Len(txs) \in Nat /\ \A j \in DOMAIN txs : txs[j] \in Tx
    BY <1>1
  <2>3. DOMAIN txs' = DOMAIN txs /\ \A j \in DOMAIN txs : txs'[j] = IF j = i THEN t ELSE txs[j]
    BY <2>1
  <2>4. txs' = [j \in 1..Len(txs) |-> IF j = i THEN t ELSE txs[j]]
    BY <2>1, <2>2
  <2>5. txs' \in [1..Len(txs) -> Tx]
    BY <1>2, <2>2, <2>4
  <2>6. txs' \in Seq(Tx)
    BY <2>2, <2>5, SeqDef
  <2> QED
    BY <2>3, <2>6
<1> HIDE DEF t
<1>4. TypeOK'
  BY <1>3 DEF IInv, TypeOK
<1>5. NoNonceGap'
  <2> SUFFICES ASSUME NEW j \in DOMAIN txs
               PROVE  /\ txs'[j].nonce <= chain'["starknet"]
                      /\ txs'[j].kind = "evm" => txs'[j].evm <= chain'["evm"]
    BY <1>3 DEF NoNonceGap
  <2>1. /\ txs'[j].nonce = txs[j].nonce
        /\ txs'[j].kind = txs[j].kind
        /\ txs'[j].evm = txs[j].evm
    BY <1>2, <1>3
  <2>2. txs[j] \in Tx
    BY <1>1
  <2>3. txs[j].nonce \in Nat /\ txs[j].evm \in Nat
    BY <2>2 DEF Tx
  <2> QED
    BY <1>1, <2>1, <2>3 DEF IInv, NoNonceGap, Layer
<1>6. Reached'
  <2> SUFFICES ASSUME NEW p \in Client
               PROVE  CallReached(call[p])' /\ Taken(call[p], cache[p])'
    BY DEF Reached
  <2>1. call[p].nonce \in Nat /\ call[p].evm \in Nat
    BY <1>1 DEF CallRecord
  <2> QED
    BY SMTT(60), <1>1, <2>1 DEF IInv, Reached, CallReached, Taken, Layer
<1> QED
  BY <1>4, <1>5, <1>6 DEF IInv

LEMMA IncludeInv ==
  ASSUME IInv, NEW i \in DOMAIN txs, Include(i)
  PROVE  IInv'
<1>1. chain \in [Layer -> Nat]
  BY DEF IInv, TypeOK
<1>2. CASE txs' = [txs EXCEPT ![i].status = "succeeded"]
           /\ chain' = [l \in Layer |-> IF l = "starknet" \/ txs[i].kind = "evm" THEN chain[l] + 1
                                        ELSE chain[l]]
  <2>1. chain' \in [Layer -> Nat] /\ \A l \in Layer : chain[l] <= chain'[l]
    BY <1>1, <1>2
  <2> QED
    BY <1>2, <2>1, SettleStep DEF Include, Status
<1>3. CASE txs' = [txs EXCEPT ![i].status = "reverted"]
           /\ chain' = [chain EXCEPT !["starknet"] = @ + 1]
  <2>1. chain' \in [Layer -> Nat] /\ \A l \in Layer : chain[l] <= chain'[l]
    BY <1>1, <1>3 DEF Layer
  <2> QED
    BY <1>3, <2>1, SettleStep DEF Include, Status
<1> QED
  BY <1>2, <1>3 DEF Include

\* A rejection or a signature leaves the chain where it is.
LEMMA DecideInv ==
  ASSUME IInv, NEW i \in DOMAIN txs, Reject(i) \/ Sign(i) \/ Decline(i)
  PROVE  IInv'
<1>1. chain \in [Layer -> Nat]
  BY DEF IInv, TypeOK
<1>2. chain' \in [Layer -> Nat] /\ (\A l \in Layer : chain[l] <= chain'[l])
        /\ UNCHANGED <<world, cache, call>>
  BY <1>1 DEF Reject, Sign, Decline
<1> QED
  BY <1>2, SettleStep DEF Reject, Sign, Decline, Status

LEMMA StutterInv ==
  ASSUME IInv, UNCHANGED vars
  PROVE  IInv'
BY DEF IInv, TypeOK, NoNonceGap, Reached, CallReached, Taken, vars, InFlight

LEMMA NextInv == IInv /\ [Next]_vars => IInv'
<1> SUFFICES ASSUME IInv, [Next]_vars PROVE IInv'
  OBVIOUS
<1>1. CASE UNCHANGED vars
  BY <1>1, StutterInv
<1>2. CASE \E p \in Client : \E kind \in {"invoke", "evm"} : Begin(p, kind)
  BY <1>2, BeginInv
<1>3. CASE \E p \in Client : Continue(p) \/ Raises(p)
  BY <1>3, ReadFirstInv, ReadAgainInv, TakeNonceInv, SendInv, PollInv, WaitInv, ReceiptInv,
     RaisesInv DEF Continue
<1>4. CASE \E i \in DOMAIN txs : Settle(i)
  BY <1>4, IncludeInv, DecideInv DEF Settle
<1> QED
  BY <1>1, <1>2, <1>3, <1>4 DEF Next

\* The transactions, the caches and the calls have their types in every state, so
\* that what a rejection or a revert gives back never takes a nonce below zero.
THEOREM TypeCorrect == Spec => []TypeOK
<1>1. Init => IInv
  BY InitInv
<1>2. IInv /\ [Next]_vars => IInv'
  BY NextInv
<1>3. IInv => TypeOK
  BY DEF IInv
<1> QED
  BY <1>1, <1>2, <1>3, PTL DEF Spec

\* get_nonce never hands out a nonce the account has not reached, whatever the
\* number of clients, the lag of the node and its rejections.
THEOREM NoNonceGapHolds == Spec => []NoNonceGap
<1>1. Init => IInv
  BY InitInv
<1>2. IInv /\ [Next]_vars => IInv'
  BY NextInv
<1>3. IInv => NoNonceGap
  BY DEF IInv
<1> QED
  BY <1>1, <1>2, <1>3, PTL DEF Spec

-----------------------------------------------------------------------------
(* A call that is alone, and a prompt node                                  *)

\* While a quiet call goes on, and until another one begins, no other call does.
Alone(p) == call[p].quiet => \A q \in Client \ {p} : call[q].step = "idle"

\* While it prepares its transaction nothing is on its way, so the nonces it has
\* taken stay those of the chain.
Quiet(p) ==
  call[p].quiet /\ call[p].step \in {"first", "read", "send", "resend"} =>
    /\ \A i \in DOMAIN txs : ~InFlight(i)
    /\ call[p].layer = "starknet" /\ call[p].kind = "evm" => call[p].evm = chain["evm"]
    /\ call[p].step \in {"send", "resend"} =>
         call[p].layer = "starknet" /\ call[p].nonce = chain["starknet"]

QInv == \A p \in Client : Alone(p) /\ Quiet(p)

LEMMA PromptReading ==
  ASSUME TypeOK, world.lag = 0, NEW l \in Layer, NEW v \in Readings(l)
  PROVE  v = chain[l]
<1>1. chain[l] \in Nat
  BY DEF TypeOK
<1> QED
  BY <1>1 DEF Readings

\* What a process does between the beginning and the end of a call.
Steps(p) == Continue(p) \/ Raises(p)

\* Such a step leaves the other calls as they are, and its own to the same end.
LEMMA StepCall ==
  ASSUME TypeOK, NEW p \in Client, Steps(p)
  PROVE  /\ call[p].step # "idle"
         /\ call'[p].quiet = call[p].quiet
         /\ call'[p].kind = call[p].kind
         /\ call'[p].step = "poll" => world.multisig
         /\ call'[p].step = "wait" => ~world.multisig
         /\ \A q \in Client \ {p} : call'[q] = call[q]
<1>1. /\ call \in [Client -> CallRecord]
      /\ call[p] \in CallRecord
  BY DEF TypeOK
<1>2. CASE ReadFirst(p) \/ ReadAgain(p)
  BY <1>1, <1>2 DEF ReadFirst, ReadAgain, CallRecord
<1>3. CASE TakeNonce(p)
  <2>1. PICK v : call' = [call EXCEPT ![p] =
                   IF @.layer = "evm" THEN [Enter(p, "starknet") EXCEPT !.evm = v]
                   ELSE [@ EXCEPT !.step = "send", !.nonce = v]]
    BY <1>3 DEF TakeNonce
  <2>2. /\ [Enter(p, "starknet") EXCEPT !.evm = v].quiet = call[p].quiet
        /\ [Enter(p, "starknet") EXCEPT !.evm = v].kind = call[p].kind
        /\ [Enter(p, "starknet") EXCEPT !.evm = v].step \notin {"poll", "wait"}
    BY <1>1 DEF Enter, CallRecord
  <2>3. /\ [call[p] EXCEPT !.step = "send", !.nonce = v].quiet = call[p].quiet
        /\ [call[p] EXCEPT !.step = "send", !.nonce = v].kind = call[p].kind
        /\ [call[p] EXCEPT !.step = "send", !.nonce = v].step \notin {"poll", "wait"}
    BY <1>1 DEF CallRecord
  <2> QED
    BY <1>1, <1>3, <2>1, <2>2, <2>3 DEF TakeNonce
<1>4. CASE Send(p)
  BY <1>1, <1>4 DEF Send, Accepted, Refused, Returns, CallRecord
<1>5. CASE Propose(p)
  BY <1>1, <1>5 DEF Propose, Accepted, Refused, Returns, CallRecord
<1>6. CASE Poll(p) \/ Receipt(p) \/ Raises(p)
  BY <1>1, <1>6 DEF Poll, Receipt, Raises, ReadRaises, NotFound, Returns, CallRecord
<1>7. CASE Wait(p)
  BY <1>1, <1>7 DEF Wait, CallRecord
<1> QED
  BY <1>2, <1>3, <1>4, <1>5, <1>6, <1>7 DEF Continue, Steps

\* The settings of the world stay.
LEMMA NextWorld ==
  ASSUME [Next]_vars
  PROVE  world' = world
<1>1. ASSUME NEW p \in Client, Steps(p)
      PROVE  world' = world
  <2>1. CASE ReadFirst(p) \/ ReadAgain(p) \/ TakeNonce(p)
    BY Zenon, <2>1 DEF ReadFirst, ReadAgain, TakeNonce
  <2>2. CASE Send(p) \/ Propose(p)
    BY Zenon, <2>2 DEF Send, Propose
  <2>3. CASE Poll(p) \/ Wait(p) \/ Receipt(p)
    BY Zenon, <2>3 DEF Poll, Wait, Receipt
  <2>4. CASE Raises(p)
    BY Zenon, <2>4 DEF Raises, ReadRaises, NotFound
  <2> QED
    BY <1>1, <2>1, <2>2, <2>3, <2>4 DEF Steps, Continue
<1>2. ASSUME NEW p \in Client, NEW kind \in {"invoke", "evm"}, Begin(p, kind)
      PROVE  world' = world
  BY Zenon, <1>2 DEF Begin
<1>3. ASSUME NEW i \in DOMAIN txs, Settle(i)
      PROVE  world' = world
  BY Zenon, <1>3 DEF Settle, Include, Reject, Sign, Decline
<1>4. CASE UNCHANGED vars
  BY <1>4 DEF vars
<1> QED
  BY Zenon, <1>1, <1>2, <1>3, <1>4 DEF Next, Steps

LEMMA BeginCall ==
  ASSUME TypeOK, NEW p \in Client, NEW kind \in {"invoke", "evm"}, Begin(p, kind)
  PROVE  /\ UNCHANGED <<world, chain, txs>>
         /\ \A q \in Client \ {p} : call'[q].quiet = FALSE /\ call'[q].step = call[q].step
         /\ call'[p].step \in {"first", "read"}
         /\ call'[p].layer = (IF kind = "evm" THEN "evm" ELSE "starknet")
         /\ call'[p].kind = kind
         /\ call'[p].quiet => /\ \A i \in DOMAIN txs : ~InFlight(i)
                              /\ \A q \in Client \ {p} : call[q].step = "idle"
<1> DEFINE l == IF kind = "evm" THEN "evm" ELSE "starknet"
           quiet == (\A i \in DOMAIN txs : ~InFlight(i)) /\ (\A q \in Client \ {p} : call[q].step = "idle")
<1>1. \A q \in Client : call[q] \in CallRecord
  BY DEF TypeOK
<1>2. call' = [q \in Client |->
          IF q = p THEN [Enter(p, l) EXCEPT !.kind = kind, !.evm = 0, !.nonce = 0, !.tx = 0,
                                            !.result = "none", !.quiet = quiet]
          ELSE [call[q] EXCEPT !.quiet = FALSE]]
  BY Zenon DEF Begin
<1>3. quiet \in BOOLEAN
  OBVIOUS
<1> HIDE DEF quiet, l
<1>4. call'[p] = [Enter(p, l) EXCEPT !.kind = kind, !.evm = 0, !.nonce = 0, !.tx = 0,
                                     !.result = "none", !.quiet = quiet]
  BY <1>2
<1>5. /\ call'[p].step \in {"first", "read"}
      /\ call'[p].layer = l
      /\ call'[p].kind = kind
      /\ call'[p].quiet = quiet
  BY <1>1, <1>3, <1>4 DEF Enter, CallRecord
<1>6. \A q \in Client \ {p} : call'[q].quiet = FALSE /\ call'[q].step = call[q].step
  BY <1>1, <1>2 DEF CallRecord
<1> QED
  BY <1>5, <1>6 DEF Begin, quiet, l

LEMMA AloneStep ==
  ASSUME TypeOK, QInv, [Next]_vars, NEW p \in Client
  PROVE  Alone(p)'
<1>1. CASE UNCHANGED vars
  BY <1>1 DEF vars, QInv, Alone
<1>2. CASE \E q \in Client : \E kind \in {"invoke", "evm"} : Begin(q, kind)
  <2>1. PICK q \in Client, kind \in {"invoke", "evm"} : Begin(q, kind)
    BY <1>2
  <2> QED
    BY <2>1, BeginCall DEF Alone
<1>3. CASE \E q \in Client : Steps(q)
  <2>1. PICK q \in Client : Steps(q)
    BY <1>3
  <2>2. CASE q = p
    BY <2>1, <2>2, StepCall DEF QInv, Alone
  <2>3. CASE q # p
    BY <2>1, <2>3, StepCall DEF QInv, Alone
  <2> QED
    BY <2>2, <2>3
<1>4. CASE \E i \in DOMAIN txs : Settle(i)
  <2>1. call' = call
    BY <1>4 DEF Settle, Include, Reject, Sign, Decline
  <2> QED
    BY <2>1 DEF QInv, Alone
<1> QED
  BY <1>1, <1>2, <1>3, <1>4 DEF Next, Steps

LEMMA QuietContinue ==
  ASSUME TypeOK, NEW c \in Client, world.lag = 0, Quiet(c), Steps(c)
  PROVE  Quiet(c)'
<1>1. /\ call \in [Client -> CallRecord]
      /\ call[c] \in CallRecord
      /\ call[c].layer \in Layer
  BY DEF TypeOK, CallRecord
<1>4. CASE ReadFirst(c) \/ ReadAgain(c)
  <2>1. /\ call'[c].step = "read"
        /\ call[c].step \in {"first", "read"}
        /\ call'[c].layer = call[c].layer
        /\ call'[c].kind = call[c].kind
        /\ call'[c].quiet = call[c].quiet
        /\ call'[c].evm = call[c].evm
        /\ UNCHANGED <<world, chain, txs>>
    BY <1>1, <1>4 DEF ReadFirst, ReadAgain, CallRecord
  <2> QED
    BY <1>1, <2>1 DEF Quiet, InFlight
<1>5. CASE TakeNonce(c)
  <2> DEFINE l == call[c].layer
  <2>1. PICK v \in Readings(l) :
          call' = [call EXCEPT ![c] = IF @.layer = "evm" THEN [Enter(c, "starknet") EXCEPT !.evm = v]
                                      ELSE [@ EXCEPT !.step = "send", !.nonce = v]]
    BY <1>5 DEF TakeNonce
  <2>2. v = chain[l] /\ call[c].step = "read" /\ UNCHANGED <<world, chain, txs>>
    BY <1>1, <1>5, <2>1, PromptReading DEF TakeNonce
  <2>3. CASE l = "evm"
    <3>1. call'[c] = [Enter(c, "starknet") EXCEPT !.evm = v]
      BY <1>1, <2>1, <2>3
    <3>2. /\ call'[c].step \in {"first", "read"}
          /\ call'[c].layer = "starknet"
          /\ call'[c].kind = call[c].kind
          /\ call'[c].quiet = call[c].quiet
          /\ call'[c].evm = v
      BY <1>1, <3>1 DEF Enter, CallRecord
    <3> QED
      BY <1>1, <2>2, <2>3, <3>2 DEF Quiet, InFlight
  <2>4. CASE l = "starknet"
    <3>1. call'[c] = [call[c] EXCEPT !.step = "send", !.nonce = v]
      BY <1>1, <2>1, <2>4
    <3>2. /\ call'[c].step = "send"
          /\ call'[c].layer = "starknet"
          /\ call'[c].kind = call[c].kind
          /\ call'[c].quiet = call[c].quiet
          /\ call'[c].evm = call[c].evm
          /\ call'[c].nonce = v
      BY <1>1, <2>4, <3>1 DEF CallRecord
    <3> QED
      BY <1>1, <2>2, <2>4, <3>2 DEF Quiet, InFlight
  <2> QED
    BY <1>1, <2>3, <2>4 DEF Layer
<1>6. CASE Propose(c) /\ call' = [call EXCEPT ![c].step = "resend"] /\ txs' = txs
  <2>1. /\ call[c].step \in {"send", "resend"}
        /\ call'[c].layer = call[c].layer
        /\ call'[c].kind = call[c].kind
        /\ call'[c].quiet = call[c].quiet
        /\ call'[c].evm = call[c].evm
        /\ call'[c].nonce = call[c].nonce
        /\ chain' = chain
    BY <1>1, <1>6 DEF Propose, CallRecord
  <2> QED
    BY <1>1, <1>6, <2>1 DEF Quiet, InFlight
<1>7. CASE \/ \E status \in {"pool", "proposed"} : Accepted(c, status)
           \/ \E result \in Result : call' = Returns(c, result)
           \/ Wait(c)
  <2>1. CASE \E status \in {"pool", "proposed"} : Accepted(c, status)
    <3>1. call'[c].step \in {"wait", "poll", "idle"}
      BY <1>1, <2>1 DEF Accepted, Returns, CallRecord
    <3> QED
      BY <3>1 DEF Quiet
  <2>2. CASE Wait(c) \/ \E result \in Result : call' = Returns(c, result)
    <3>1. call'[c].step \in {"receipt", "idle"}
      BY <1>1, <2>2 DEF Returns, Wait, CallRecord
    <3> QED
      BY <3>1 DEF Quiet
  <2> QED
    BY <1>7, <2>1, <2>2
<1>8. CASE Receipt(c) \/ Poll(c) \/ Raises(c)
  <2>1. call'[c].step = "idle"
    BY <1>1, <1>8 DEF Receipt, Poll, Raises, ReadRaises, NotFound, Returns, CallRecord
  <2> QED
    BY <2>1 DEF Quiet
<1>9. CASE Send(c)
  BY <1>7, <1>9 DEF Send, Refused, Result
<1>10. CASE Propose(c)
  BY <1>6, <1>7, <1>10 DEF Propose, Refused, Result
<1> QED
  BY <1>4, <1>5, <1>7, <1>8, <1>9, <1>10 DEF Continue, Steps

LEMMA QuietStep ==
  ASSUME TypeOK, QInv, world.lag = 0, [Next]_vars, NEW p \in Client
  PROVE  Quiet(p)'
<1>1. Quiet(p) /\ Alone(p)
  BY DEF QInv
<1>2. CASE UNCHANGED vars
  BY <1>1, <1>2 DEF vars, Quiet, InFlight
<1>3. CASE \E q \in Client : \E kind \in {"invoke", "evm"} : Begin(q, kind)
  <2>1. PICK q \in Client, kind \in {"invoke", "evm"} : Begin(q, kind)
    BY <1>3
  <2>2. CASE q = p
    BY <2>1, <2>2, BeginCall DEF Quiet, InFlight
  <2>3. CASE q # p
    BY <2>1, <2>3, BeginCall DEF Quiet
  <2> QED
    BY <2>2, <2>3
<1>4. CASE Steps(p)
  BY <1>1, <1>4, QuietContinue
<1>5. CASE \E q \in Client \ {p} : Steps(q)
  <2>1. PICK q \in Client \ {p} : Steps(q)
    BY <1>5
  <2>2. call[q].step # "idle" /\ call'[p] = call[p]
    BY <2>1, StepCall
  <2> QED
    BY <1>1, <2>2 DEF Alone, Quiet
<1>6. CASE \E i \in DOMAIN txs : Settle(i)
  <2>1. PICK i \in DOMAIN txs : Settle(i)
    BY <1>6
  <2>2. InFlight(i) /\ call' = call
    BY <2>1 DEF Settle, Include, Reject, Sign, Decline, InFlight
  <2> QED
    BY <1>1, <2>2 DEF Quiet
<1> QED
  BY <1>2, <1>3, <1>4, <1>5, <1>6 DEF Next, Steps

\* A client of a node that answers promptly recovers by itself: whatever was rejected,
\* reverted or given up before, by any number of clients, a call that begins with
\* nothing on its way, and stays alone, is sent with the nonces the accounts have.
THEOREM QuietCallIsFreshHolds == Spec => []QuietCallIsFresh
<1> DEFINE Inv == IInv /\ (world.lag = 0 => QInv)
<1>1. Init => Inv
  <2> SUFFICES ASSUME Init PROVE Inv
    OBVIOUS
  <2>1. IInv
    BY InitInv
  <2>2. QInv
    BY DEF Init, QInv, Alone, Quiet
  <2> QED
    BY <2>1, <2>2
<1>2. Inv /\ [Next]_vars => Inv'
  <2> SUFFICES ASSUME Inv, [Next]_vars PROVE Inv'
    OBVIOUS
  <2>1. IInv'
    BY Zenon, NextInv
  <2>2. world' = world
    BY NextWorld
  <2>3. ASSUME world.lag = 0
        PROVE  QInv'
    <3>1. TypeOK /\ QInv
      BY <2>3 DEF IInv
    <3> QED
      BY <2>3, <3>1, AloneStep, QuietStep DEF QInv
  <2> QED
    BY <2>1, <2>2, <2>3
<1>3. Inv => QuietCallIsFresh
  BY DEF QInv, Quiet, QuietCallIsFresh
<1> QED
  BY <1>1, <1>2, <1>3, PTL DEF Spec

-----------------------------------------------------------------------------
(* What such a call has when it ends                                        *)

\* A multisig makes invokes only, and only its calls are polled for.
Polls(p) ==
  /\ call[p].step = "poll" => world.multisig
  /\ call[p].step = "wait" => ~world.multisig
  /\ call[p].step # "idle" /\ world.multisig => call[p].kind = "invoke"

\* The call has sent its transaction, whether it has an answer or not.
Sent(r) ==
  \/ r.step \in {"wait", "poll", "receipt"}
  \/ r.step = "idle" /\ r.result \in {"ok", "reverted", "rejected", "lost"}

\* The nonces of the chain, counted from those the transaction was sent with.
Settlement(t) ==
  /\ chain["starknet"] = IF t.status \in {"succeeded", "reverted"} THEN t.nonce + 1 ELSE t.nonce
  /\ t.kind = "evm" => chain["evm"] = IF t.status = "succeeded" THEN t.evm + 1 ELSE t.evm

\* What the call has learnt is what became of its transaction.
Learnt(r, t) ==
  r.step \in {"receipt", "idle"} =>
    /\ r.result = "ok" => t.status = "succeeded"
    /\ r.result = "reverted" => t.status = "reverted"
    /\ r.result = "rejected" => t.status = "rejected"

\* What the call has given back of the nonces it took.
Holds(r, c) ==
  /\ c["starknet"] = IF r.step \in {"receipt", "idle"} /\ r.result = "rejected" /\ ~world.multisig
                     THEN r.nonce ELSE r.nonce + 1
  /\ r.kind = "evm" => c["evm"] = IF r.step = "idle" /\ r.result = "reverted" THEN r.evm ELSE r.evm + 1

\* The transaction is the one of the call, and nothing else is on its way.
Only(r) ==
  /\ r.tx \in DOMAIN txs
  /\ \A i \in DOMAIN txs \ {r.tx} : ~InFlight(i)
  /\ txs[r.tx].kind = r.kind
  /\ txs[r.tx].nonce = r.nonce
  /\ txs[r.tx].evm = r.evm

Settling(p) ==
  call[p].quiet /\ Sent(call[p]) =>
    /\ Only(call[p])
    /\ Settlement(txs[call[p].tx])
    /\ Learnt(call[p], txs[call[p].tx])
    /\ Holds(call[p], cache[p])

\* A call that ended before its transaction was sent has spent nothing.
Unsent(p) ==
  call[p].quiet /\ call[p].step = "idle" /\ call[p].result \in {"unsent", "refused"} =>
    /\ \A i \in DOMAIN txs : ~InFlight(i)
    /\ call[p].result = "refused" =>
         call[p].layer = "starknet" /\ cache[p]["starknet"] = chain["starknet"] + 1
    /\ call[p].layer = "starknet" /\ call[p].kind = "evm" => cache[p]["evm"] = chain["evm"] + 1

SInv == QInv /\ \A p \in Client : Polls(p) /\ Settling(p) /\ Unsent(p)

LEMMA PollsStep ==
  ASSUME TypeOK, SInv, [Next]_vars, NEW p \in Client
  PROVE  Polls(p)'
<1>1. Polls(p) /\ call \in [Client -> CallRecord] /\ call[p] \in CallRecord /\ world' = world
  BY NextWorld DEF SInv, TypeOK
<1>2. CASE UNCHANGED vars
  BY <1>1, <1>2 DEF vars, Polls
<1>3. CASE \E q \in Client : \E kind \in {"invoke", "evm"} : Begin(q, kind)
  <2>1. PICK q \in Client, kind \in {"invoke", "evm"} : Begin(q, kind)
    BY <1>3
  <2>2. world.multisig => kind = "invoke"
    BY <2>1 DEF Begin
  <2>3. CASE q = p
    <3>1. call'[p].step \in {"first", "read"} /\ call'[p].kind = kind
      BY <2>1, <2>3, BeginCall
    <3> QED
      BY <1>1, <2>2, <3>1 DEF Polls
  <2>4. CASE q # p
    <3>1. call'[p].kind = call[p].kind /\ call'[p].step = call[p].step
      BY <1>1, <2>1, <2>4 DEF Begin, CallRecord
    <3> QED
      BY <1>1, <3>1 DEF Polls
  <2> QED
    BY <2>3, <2>4
<1>4. CASE \E q \in Client \ {p} : Steps(q)
  <2>1. PICK q \in Client \ {p} : Steps(q)
    BY Zenon, <1>4
  <2>2. call'[p] = call[p]
    BY <2>1, StepCall
  <2> QED
    BY <1>1, <2>2 DEF Polls
<1>5. CASE Steps(p)
  BY <1>1, <1>5, StepCall DEF Polls
<1>6. CASE \E i \in DOMAIN txs : Settle(i)
  <2>1. call' = call
    BY <1>6 DEF Settle, Include, Reject, Sign, Decline
  <2> QED
    BY <1>1, <2>1 DEF Polls
<1> QED
  BY <1>2, <1>3, <1>4, <1>5, <1>6 DEF Next, Steps

LEMMA SettlingAccepted ==
  ASSUME IInv, QInv, NEW c \in Client, NEW status \in {"proposed", "pool"}, Accepted(c, status),
         call[c].step \in {"send", "resend"}, UNCHANGED <<world, chain, cache>>
  PROVE  Settling(c)' /\ Unsent(c)'
<1> DEFINE t == [by |-> c, kind |-> call[c].kind, nonce |-> call[c].nonce,
                 evm |-> call[c].evm, status |-> status]
           n == Len(txs) + 1
           step == IF status = "proposed" THEN "poll" ELSE "wait"
<1>1. /\ call \in [Client -> CallRecord]
      /\ call[c] \in CallRecord
      /\ txs \in Seq(Tx)
      /\ t \in Tx
  BY DEF IInv, TypeOK, CallRecord, Tx, Status
<1>2. /\ txs' = Append(txs, t)
      /\ \/ call'[c] = [call[c] EXCEPT !.step = step, !.tx = n]
         \/ call'[c] = [call[c] EXCEPT !.step = "idle", !.result = "lost", !.tx = n]
  BY <1>1 DEF Accepted, Returns
<1>3. /\ DOMAIN txs' = 1..n
      /\ n \in DOMAIN txs'
      /\ txs'[n] = t
      /\ \A i \in DOMAIN txs' \ {n} : i \in DOMAIN txs /\ txs'[i] = txs[i]
  BY <1>1, <1>2
<1>4. step \in {"wait", "poll"}
  OBVIOUS
<1> HIDE DEF step, n
<1>5. /\ \/ call'[c].step \in {"wait", "poll"}
         \/ call'[c].step = "idle" /\ call'[c].result = "lost"
      /\ call'[c].tx = n
      /\ call'[c].kind = call[c].kind
      /\ call'[c].nonce = call[c].nonce
      /\ call'[c].evm = call[c].evm
      /\ call'[c].quiet = call[c].quiet
  BY <1>1, <1>2, <1>4 DEF CallRecord
<1>6. ASSUME call[c].quiet
      PROVE  /\ \A i \in DOMAIN txs : ~InFlight(i)
             /\ call[c].layer = "starknet"
             /\ call[c].kind = "evm" => call[c].evm = chain["evm"]
             /\ call[c].nonce = chain["starknet"]
  BY <1>6 DEF QInv, Quiet
<1>7. Taken(call[c], cache[c])
  BY OfProcess
<1>8. /\ t.kind = call[c].kind
      /\ t.nonce = call[c].nonce
      /\ t.evm = call[c].evm
      /\ t.status \notin {"succeeded", "reverted"}
  OBVIOUS
<1> HIDE DEF t
<1>9. Settling(c)'
  <2> SUFFICES ASSUME call[c].quiet
               PROVE  /\ Only(call[c])'
                      /\ Settlement(txs[call[c].tx])'
                      /\ Learnt(call[c], txs[call[c].tx])'
                      /\ Holds(call[c], cache[c])'
    BY <1>5 DEF Settling
  <2>1. Only(call[c])'
    BY <1>3, <1>5, <1>6, <1>8 DEF InFlight, Only
  <2>2. Settlement(txs[call[c].tx])'
    BY <1>3, <1>5, <1>6, <1>8 DEF Settlement
  <2>3. Learnt(call[c], txs[call[c].tx])'
    BY <1>5 DEF Learnt
  <2>4. Holds(call[c], cache[c])'
    BY <1>5, <1>6, <1>7 DEF Holds, Taken
  <2> QED
    BY <2>1, <2>2, <2>3, <2>4
<1>10. Unsent(c)'
  BY <1>5 DEF Unsent
<1> QED
  BY <1>9, <1>10

\* A step that goes on preparing the transaction.
LEMMA Preparing ==
  ASSUME NEW c \in Client, call'[c].step \in {"first", "read", "send", "resend"}
  PROVE  Settling(c)' /\ Unsent(c)'
BY DEF Settling, Sent, Unsent

\* The call ends before its transaction is sent.
LEMMA Stopped ==
  ASSUME IInv, QInv, NEW c \in Client, NEW result \in {"unsent", "refused"},
         call' = Returns(c, result), UNCHANGED <<world, chain, txs, cache>>,
         call[c].step \in IF result = "unsent" THEN {"first", "read"} ELSE {"send", "resend"}
  PROVE  Settling(c)' /\ Unsent(c)'
<1>1. /\ call \in [Client -> CallRecord]
      /\ call[c] \in CallRecord
      /\ Taken(call[c], cache[c])
      /\ Quiet(c)
  BY OfProcess DEF IInv, TypeOK, QInv
<1>2. /\ call'[c].step = "idle"
      /\ call'[c].result = result
      /\ call'[c].quiet = call[c].quiet
      /\ call'[c].kind = call[c].kind
      /\ call'[c].layer = call[c].layer
  BY <1>1 DEF Returns, CallRecord
<1>3. Settling(c)'
  BY <1>2 DEF Settling, Sent
<1>4. Unsent(c)'
  <2> SUFFICES ASSUME call[c].quiet
               PROVE  /\ \A i \in DOMAIN txs : ~InFlight(i)
                      /\ result = "refused" =>
                           call[c].layer = "starknet" /\ cache[c]["starknet"] = chain["starknet"] + 1
                      /\ call[c].layer = "starknet" /\ call[c].kind = "evm" =>
                           cache[c]["evm"] = chain["evm"] + 1
    BY <1>2 DEF Unsent, InFlight
  <2> QED
    BY <1>1 DEF Quiet, Taken
<1> QED
  BY <1>3, <1>4

\* A step of a call that was sent, which learns or gives back something.
LEMMA Learning ==
  ASSUME NEW c \in Client, Settling(c), Sent(call[c]), UNCHANGED <<world, chain, txs>>,
         call'[c].step \in {"receipt", "idle"},
         call'[c].result \in {"ok", "reverted", "rejected", "lost"},
         call'[c].tx = call[c].tx,
         call'[c].kind = call[c].kind,
         call'[c].nonce = call[c].nonce,
         call'[c].evm = call[c].evm,
         call'[c].quiet = call[c].quiet,
         call[c].quiet => Learnt(call[c], txs[call[c].tx])' /\ Holds(call[c], cache[c])'
  PROVE  Settling(c)' /\ Unsent(c)'
<1>1. Unsent(c)'
  BY DEF Unsent
<1>2. Settling(c)'
  <2> SUFFICES ASSUME call[c].quiet
               PROVE  Only(call[c])' /\ Settlement(txs[call[c].tx])'
    BY DEF Settling
  <2>1. Only(call[c]) /\ Settlement(txs[call[c].tx])
    BY DEF Settling
  <2> QED
    BY <2>1 DEF Only, Settlement, InFlight
<1> QED
  BY <1>1, <1>2

\* The answer of the node about a transaction, in Status.
LEMMA AnswerLearnt ==
  ASSUME NEW c \in Client, Own(c) \in Tx
  PROVE  /\ Answer(c) \in {"ok", "reverted", "rejected", "lost"}
         /\ Answer(c) = "ok" => Own(c).status = "succeeded"
         /\ Answer(c) = "reverted" => Own(c).status = "reverted"
         /\ Answer(c) = "rejected" => Own(c).status = "rejected"
BY DEF Answer

LEMMA SettlingWait ==
  ASSUME IInv, NEW c \in Client, Polls(c), Settling(c), Wait(c)
  PROVE  Settling(c)' /\ Unsent(c)'
<1>1. /\ call \in [Client -> CallRecord]
      /\ call[c] \in CallRecord
      /\ call[c].step = "wait"
      /\ call[c].tx \in DOMAIN txs
      /\ Own(c) \in Tx
      /\ Own(c) = txs[call[c].tx]
      /\ cache \in [Client -> Caches]
      /\ cache[c] \in Caches
      /\ call[c].nonce \in Nat
      /\ Taken(call[c], cache[c])
  BY OfProcess DEF Wait, Own, IInv, TypeOK, Caches, CallRecord
<1>2. PICK answer \in {Answer(c), "lost"} :
        /\ call' = [call EXCEPT ![c].step = IF call[c].kind = "evm" THEN "receipt" ELSE "idle",
                                ![c].result = answer]
        /\ cache' = [cache EXCEPT ![c]["starknet"] = IF answer = "rejected" THEN @ - 1 ELSE @]
        /\ UNCHANGED <<world, chain, txs>>
  BY Zenon DEF Wait
<1>3. /\ cache'[c]["starknet"] = IF answer = "rejected" THEN call[c].nonce ELSE call[c].nonce + 1
      /\ cache'[c]["evm"] = cache[c]["evm"]
  BY <1>1, <1>2 DEF Caches, Layer, Taken
<1> DEFINE step == IF call[c].kind = "evm" THEN "receipt" ELSE "idle"
<1>4. step \in {"receipt", "idle"} /\ (call[c].kind = "evm" => step = "receipt")
  OBVIOUS
<1>5. /\ answer \in {"ok", "reverted", "rejected", "lost"}
      /\ answer = "ok" => Own(c).status = "succeeded"
      /\ answer = "reverted" => Own(c).status = "reverted"
      /\ answer = "rejected" => Own(c).status = "rejected"
  BY <1>1, AnswerLearnt
<1>6. call'[c] = [call[c] EXCEPT !.step = step, !.result = answer]
  BY <1>1, <1>2
<1> HIDE DEF step
<1>7. /\ call'[c].step = step
      /\ call'[c].result = answer
      /\ call'[c].tx = call[c].tx
      /\ call'[c].kind = call[c].kind
      /\ call'[c].nonce = call[c].nonce
      /\ call'[c].evm = call[c].evm
      /\ call'[c].quiet = call[c].quiet
      /\ call'[c].layer = call[c].layer
  BY <1>1, <1>6 DEF CallRecord
<1>8. Learnt(call[c], txs[call[c].tx])'
  BY <1>1, <1>2, <1>5, <1>7 DEF Learnt
<1>9. call[c].layer = "starknet"
  <2>1. call[c].step \in {"send", "resend", "wait", "poll", "receipt"} => call[c].layer = "starknet"
    BY <1>1 DEF Taken
  <2> QED
    BY <1>1, <2>1
<1>10. Holds(call[c], cache[c])'
  <2>1. call[c].kind = "evm" => cache[c]["evm"] = call[c].evm + 1
    BY <1>1, <1>9 DEF Taken
  <2> QED
    BY <1>1, <1>2, <1>3, <1>4, <1>7, <2>1 DEF Holds, Polls
<1> QED
  BY <1>1, <1>2, <1>4, <1>5, <1>7, <1>8, <1>10, Learning DEF Sent

LEMMA SettlingPoll ==
  ASSUME IInv, NEW c \in Client, Polls(c), Settling(c), Poll(c) \/ NotFound(c)
  PROVE  Settling(c)' /\ Unsent(c)'
<1> DEFINE answer == IF Own(c).status = "succeeded" THEN "ok" ELSE Own(c).status
<1>1. /\ call \in [Client -> CallRecord]
      /\ call[c] \in CallRecord
      /\ call[c].step = "poll"
      /\ call[c].tx \in DOMAIN txs
      /\ Own(c) = txs[call[c].tx]
      /\ Taken(call[c], cache[c])
      /\ world.multisig
      /\ call[c].kind = "invoke"
  BY OfProcess DEF Poll, NotFound, Own, IInv, TypeOK, Polls
<1>2. \/ call' = Returns(c, "lost")
      \/ call' = Returns(c, answer) /\ Own(c).status \in Final
  BY DEF Poll, NotFound
<1>3. PICK result \in {"ok", "reverted", "rejected", "lost"} :
        /\ call' = Returns(c, result)
        /\ result = "ok" => Own(c).status = "succeeded"
        /\ result = "reverted" => Own(c).status = "reverted"
        /\ result = "rejected" => Own(c).status = "rejected"
  BY <1>2 DEF Final
<1>4. /\ call'[c].step = "idle"
      /\ call'[c].result = result
      /\ call'[c].tx = call[c].tx
      /\ call'[c].kind = call[c].kind
      /\ call'[c].nonce = call[c].nonce
      /\ call'[c].evm = call[c].evm
      /\ call'[c].quiet = call[c].quiet
      /\ UNCHANGED <<world, chain, txs, cache>>
  BY <1>1, <1>3 DEF Poll, NotFound, Returns, CallRecord
<1>5. Learnt(call[c], txs[call[c].tx])'
  BY <1>1, <1>3, <1>4 DEF Learnt
<1>6. Holds(call[c], cache[c])'
  BY <1>1, <1>4 DEF Holds, Taken
<1> QED
  BY <1>1, <1>4, <1>5, <1>6, Learning DEF Sent

LEMMA SettlingReceipt ==
  ASSUME IInv, NEW c \in Client, Settling(c), Receipt(c)
  PROVE  Settling(c)' /\ Unsent(c)'
<1>1. /\ call \in [Client -> CallRecord]
      /\ call[c] \in CallRecord
      /\ call[c].step = "receipt"
      /\ call[c].tx \in DOMAIN txs
      /\ Own(c) = txs[call[c].tx]
      /\ Own(c) \in Tx
      /\ cache \in [Client -> Caches]
      /\ cache[c] \in Caches
      /\ call[c].evm \in Nat
      /\ Taken(call[c], cache[c])
  BY SMTT(60), OfProcess DEF Receipt, Own, IInv, TypeOK, CallRecord, Caches
<1>2. /\ call[c].kind = "evm"
      /\ call[c].layer = "starknet"
      /\ cache[c]["evm"] = call[c].evm + 1
  BY <1>1 DEF Taken
<1>3. ASSUME call[c].quiet
      PROVE  Learnt(call[c], txs[call[c].tx]) /\ Holds(call[c], cache[c])
  BY <1>1, <1>3 DEF Settling, Sent
<1>4. ASSUME NEW result \in {"ok", "reverted", "rejected", "lost"}, call' = Returns(c, result)
      PROVE  /\ call'[c].step = "idle"
             /\ call'[c].result = result
             /\ call'[c].tx = call[c].tx
             /\ call'[c].kind = call[c].kind
             /\ call'[c].nonce = call[c].nonce
             /\ call'[c].evm = call[c].evm
             /\ call'[c].quiet = call[c].quiet
             /\ UNCHANGED <<world, chain, txs>>
  BY <1>1, <1>4 DEF Receipt, Returns, CallRecord
<1>5. CASE /\ Own(c).status \in {"succeeded", "reverted"}
           /\ call' = Returns(c, Answer(c))
           /\ cache' = [cache EXCEPT ![c]["evm"] = IF Own(c).status = "reverted" THEN @ - 1 ELSE @]
  <2>1. /\ Answer(c) \in {"ok", "reverted"}
        /\ (Answer(c) = "reverted") = (Own(c).status = "reverted")
        /\ (Answer(c) = "ok") = (Own(c).status = "succeeded")
    BY <1>5 DEF Answer
  <2>2. /\ cache'[c]["starknet"] = cache[c]["starknet"]
        /\ cache'[c]["evm"] = IF Own(c).status = "reverted" THEN call[c].evm ELSE call[c].evm + 1
    BY <1>1, <1>2, <1>5 DEF Caches, Layer
  <2>3. /\ call'[c].step = "idle"
        /\ call'[c].result = Answer(c)
        /\ call'[c].tx = call[c].tx
        /\ call'[c].kind = call[c].kind
        /\ call'[c].nonce = call[c].nonce
        /\ call'[c].evm = call[c].evm
        /\ call'[c].quiet = call[c].quiet
        /\ UNCHANGED <<world, chain, txs>>
    BY <1>4, <1>5, <2>1
  <2>4. Learnt(call[c], txs[call[c].tx])'
    BY <1>1, <2>1, <2>3 DEF Learnt
  <2>5. ASSUME call[c].quiet
        PROVE  Holds(call[c], cache[c])'
    BY <1>1, <1>2, <1>3, <1>5, <2>1, <2>2, <2>3, <2>5 DEF Holds, Learnt
  <2> QED
    BY <1>1, <2>1, <2>3, <2>4, <2>5, Learning DEF Sent
<1>6. CASE /\ call' = Returns(c, IF call[c].result = "rejected" THEN "rejected" ELSE "lost")
           /\ cache' = cache
  <2> DEFINE result == IF call[c].result = "rejected" THEN "rejected" ELSE "lost"
  <2>1. result \in {"rejected", "lost"} /\ (result = "rejected") = (call[c].result = "rejected")
    OBVIOUS
  <2> HIDE DEF result
  <2>2. /\ call'[c].step = "idle"
        /\ call'[c].result = result
        /\ call'[c].tx = call[c].tx
        /\ call'[c].kind = call[c].kind
        /\ call'[c].nonce = call[c].nonce
        /\ call'[c].evm = call[c].evm
        /\ call'[c].quiet = call[c].quiet
        /\ UNCHANGED <<world, chain, txs>>
    BY <1>4, <1>6, <2>1 DEF result
  <2>3. ASSUME call[c].quiet
        PROVE  Learnt(call[c], txs[call[c].tx])' /\ Holds(call[c], cache[c])'
    BY <1>1, <1>2, <1>3, <1>6, <2>1, <2>2, <2>3 DEF Holds, Learnt
  <2> QED
    BY <1>1, <2>1, <2>2, <2>3, Learning DEF Sent
<1> QED
  BY <1>5, <1>6 DEF Receipt

LEMMA SettlingContinue ==
  ASSUME IInv, SInv, NEW c \in Client, Steps(c)
  PROVE  Settling(c)' /\ Unsent(c)'
<1>1. /\ call \in [Client -> CallRecord]
      /\ call[c] \in CallRecord
      /\ Polls(c) /\ Settling(c) /\ QInv
  BY DEF SInv, IInv, TypeOK
<1>2. CASE ReadFirst(c) \/ ReadAgain(c)
  <2>1. call'[c].step = "read"
    BY <1>1, <1>2 DEF ReadFirst, ReadAgain, CallRecord
  <2> QED
    BY <2>1, Preparing
<1>3. CASE TakeNonce(c)
  <2>1. PICK v : call' = [call EXCEPT ![c] =
                   IF @.layer = "evm" THEN [Enter(c, "starknet") EXCEPT !.evm = v]
                   ELSE [@ EXCEPT !.step = "send", !.nonce = v]]
    BY <1>3 DEF TakeNonce
  <2>2. [Enter(c, "starknet") EXCEPT !.evm = v].step \in {"first", "read"}
    BY <1>1 DEF Enter, CallRecord
  <2>3. [call[c] EXCEPT !.step = "send", !.nonce = v].step = "send"
    BY <1>1 DEF CallRecord
  <2>4. call'[c].step \in {"first", "read", "send", "resend"}
    BY <1>1, <2>1, <2>2, <2>3
  <2> QED
    BY <2>4, Preparing
<1>4. CASE call' = [call EXCEPT ![c].step = "resend"]
  <2>1. call'[c].step = "resend"
    BY <1>1, <1>4 DEF CallRecord
  <2> QED
    BY <2>1, Preparing
<1>5. CASE Refused(c) /\ (Send(c) \/ Propose(c))
  BY <1>1, <1>5, Stopped DEF Send, Propose, Refused
<1>6. ASSUME NEW status \in {"proposed", "pool"}, Accepted(c, status), Send(c) \/ Propose(c)
      PROVE  Settling(c)' /\ Unsent(c)'
  BY <1>1, <1>6, SettlingAccepted DEF Send, Propose
<1>7. CASE Send(c)
  BY <1>5, <1>6, <1>7 DEF Send
<1>8. CASE Propose(c)
  BY <1>4, <1>5, <1>6, <1>8 DEF Propose
<1>9. CASE ReadRaises(c)
  BY <1>1, <1>9, Stopped DEF ReadRaises
<1> QED
  BY <1>1, <1>2, <1>3, <1>7, <1>8, <1>9, SettlingWait, SettlingPoll, SettlingReceipt
     DEF Continue, Raises, Steps

\* A transaction that gets another status.
LEMMA NewStatus ==
  ASSUME txs \in Seq(Tx), NEW i \in DOMAIN txs, NEW st, txs' = [txs EXCEPT ![i].status = st]
  PROVE  /\ DOMAIN txs' = DOMAIN txs
         /\ \A j \in DOMAIN txs \ {i} : txs'[j] = txs[j]
         /\ txs'[i].kind = txs[i].kind
         /\ txs'[i].nonce = txs[i].nonce
         /\ txs'[i].evm = txs[i].evm
         /\ txs'[i].status = st
<1>1. txs[i] \in Tx /\ DOMAIN txs = 1..Len(txs) /\ i \in 1..Len(txs)
  OBVIOUS
<1>2. txs' = [txs EXCEPT ![i] = [txs[i] EXCEPT !.status = st]]
  OBVIOUS
<1>3. txs'[i] = [txs[i] EXCEPT !.status = st]
  BY <1>1, <1>2
<1>4. DOMAIN txs' = DOMAIN txs /\ \A j \in DOMAIN txs \ {i} : txs'[j] = txs[j]
  BY <1>1, <1>2
<1>5. txs[i] = [by |-> txs[i].by, kind |-> txs[i].kind, nonce |-> txs[i].nonce,
                evm |-> txs[i].evm, status |-> txs[i].status]
  BY <1>1 DEF Tx
<1> QED
  BY <1>3, <1>4, <1>5

\* What the node and the owners decide about the one transaction on its way.
LEMMA SettlingSettle ==
  ASSUME IInv, NEW p \in Client, Settling(p), Unsent(p), NEW i \in DOMAIN txs, Settle(i)
  PROVE  Settling(p)' /\ Unsent(p)'
<1> DEFINE k == call[p].tx
           s == txs'[i].status
<1>1. /\ InFlight(i)
      /\ UNCHANGED <<world, cache, call>>
  BY DEF Settle, Include, Reject, Sign, Decline, InFlight
<1>2. /\ txs \in Seq(Tx)
      /\ chain \in [Layer -> Nat]
  BY DEF IInv, TypeOK
<1>3. /\ DOMAIN txs' = DOMAIN txs
      /\ \A j \in DOMAIN txs \ {i} : txs'[j] = txs[j]
      /\ txs'[i].kind = txs[i].kind
      /\ txs'[i].nonce = txs[i].nonce
      /\ txs'[i].evm = txs[i].evm
  BY <1>2, NewStatus DEF Settle, Include, Reject, Sign, Decline
<1>4. Unsent(p)'
  BY <1>1 DEF Unsent
<1>5. Settling(p)'
  <2> SUFFICES ASSUME call[p].quiet, Sent(call[p])
               PROVE  /\ Only(call[p])'
                      /\ Settlement(txs[k])'
                      /\ Learnt(call[p], txs[k])'
                      /\ Holds(call[p], cache[p])'
    BY <1>1 DEF Settling, Sent
  <2>1. /\ Only(call[p])
        /\ Settlement(txs[k])
        /\ Learnt(call[p], txs[k])
        /\ Holds(call[p], cache[p])
    BY DEF Settling
  <2>2. i = k
    BY <1>1, <2>1 DEF Only
  <2>3. Only(call[p])'
    BY <1>1, <1>3, <2>1, <2>2 DEF Only, InFlight
  <2>4. Learnt(call[p], txs[k])'
    BY <1>1, <2>1, <2>2 DEF Learnt, InFlight
  <2>5. Holds(call[p], cache[p])'
    BY <1>1, <2>1 DEF Holds
  <2>6. /\ chain["starknet"] = txs[i].nonce
        /\ txs[i].kind = "evm" => chain["evm"] = txs[i].evm
    BY <1>1, <2>1, <2>2 DEF Settlement, InFlight
  <2>7. CASE Include(i)
    <3> HIDE DEF s
    <3>1. \/ /\ s = "succeeded"
             /\ chain' = [l \in Layer |-> IF l = "starknet" \/ txs[i].kind = "evm" THEN chain[l] + 1
                                          ELSE chain[l]]
          \/ /\ s = "reverted"
             /\ chain' = [chain EXCEPT !["starknet"] = @ + 1]
      <4>1. ASSUME NEW st, txs' = [txs EXCEPT ![i].status = st]
            PROVE  s = st
        BY <1>2, <4>1, NewStatus DEF s
      <4> QED BY Zenon, <2>7, <4>1 DEF Include
    <3>2. CASE s = "succeeded"
      <4>1. /\ chain'["starknet"] = txs[i].nonce + 1
            /\ txs[i].kind = "evm" => chain'["evm"] = txs[i].evm + 1
        BY <1>2, <2>6, <3>1, <3>2 DEF Layer
      <4>2. Settlement(txs[k])'
        BY <1>1, <1>3, <2>2, <3>2, <4>1 DEF Settlement, s
      <4> QED
        BY <2>3, <2>4, <2>5, <4>2
    <3>3. CASE s = "reverted"
      <4>1. /\ chain'["starknet"] = txs[i].nonce + 1
            /\ txs[i].kind = "evm" => chain'["evm"] = txs[i].evm
        BY <1>2, <2>6, <3>1, <3>3 DEF Layer
      <4>2. Settlement(txs[k])'
        BY <1>1, <1>3, <2>2, <3>3, <4>1 DEF Settlement, s
      <4> QED
        BY <2>3, <2>4, <2>5, <4>2
    <3> QED
      BY <3>1, <3>2, <3>3
  <2>8. CASE Reject(i) \/ Sign(i) \/ Decline(i)
    <3>1. chain' = chain /\ s \in {"rejected", "pool"}
      <4>1. CASE Reject(i)
        BY <1>2, <4>1, NewStatus DEF Reject
      <4>2. CASE Sign(i)
        BY <1>2, <4>2, NewStatus DEF Sign
      <4>3. CASE Decline(i)
        BY <1>2, <4>3, NewStatus DEF Decline
      <4> QED
        BY <2>8, <4>1, <4>2, <4>3
    <3>2. Settlement(txs[k])'
      BY <1>1, <1>3, <2>2, <2>6, <3>1 DEF Settlement
    <3> QED
      BY <2>3, <2>4, <2>5, <3>2
  <2> QED
    BY <2>7, <2>8 DEF Settle
<1> QED
  BY <1>4, <1>5

LEMMA SettlingStep ==
  ASSUME IInv, SInv, [Next]_vars, NEW p \in Client
  PROVE  Settling(p)' /\ Unsent(p)'
<1>1. TypeOK /\ Settling(p) /\ Unsent(p) /\ Alone(p)
  BY DEF SInv, QInv, IInv
<1>2. CASE UNCHANGED vars
  BY <1>1, <1>2 DEF vars, Settling, Unsent, Sent, Only, Settlement, Learnt, Holds, InFlight
<1>3. CASE \E q \in Client : \E kind \in {"invoke", "evm"} : Begin(q, kind)
  <2>1. PICK q \in Client, kind \in {"invoke", "evm"} : Begin(q, kind)
    BY <1>3
  <2>2. call'[p].quiet => call'[p].step \in {"first", "read"}
    BY <1>1, <2>1, BeginCall
  <2> QED
    BY <2>2 DEF Settling, Unsent, Sent
<1>4. CASE Steps(p)
  BY <1>4, SettlingContinue
<1>5. CASE \E q \in Client \ {p} : Steps(q)
  <2>1. PICK q \in Client \ {p} : Steps(q)
    BY <1>5
  <2>2. call[q].step # "idle" /\ call'[p] = call[p]
    BY <1>1, <2>1, StepCall
  <2>3. ~call'[p].quiet
    BY <1>1, <2>2 DEF Alone
  <2> QED
    BY <2>3 DEF Settling, Unsent
<1>6. CASE \E i \in DOMAIN txs : Settle(i)
  BY <1>1, <1>6, SettlingSettle
<1> QED
  BY <1>2, <1>3, <1>4, <1>5, <1>6 DEF Next, Steps

\* The cached nonce is the one the chain says, less what the call has neither spent
\* nor given back.
LEMMA SettledInSync ==
  ASSUME IInv, SInv, NEW p \in Client, call[p].step = "idle", call[p].quiet,
         call[p].result # "none", NEW l \in Took(p)
  PROVE  cache[p][l] = IF Spent(p, l) \/ GivenBack(p, l) THEN chain[l] ELSE chain[l] + 1
<1>1. /\ call[p] \in CallRecord
      /\ call[p].nonce \in Nat
      /\ call[p].evm \in Nat
      /\ call[p].result \in Result
      /\ l \in Layer
  BY OfProcess DEF CallRecord, Took
<1>2. CASE call[p].result \in {"unsent", "refused"}
  <2>1. ~Spent(p, l) /\ ~GivenBack(p, l)
    BY <1>2 DEF Spent, GivenBack
  <2>2. cache[p][l] = chain[l] + 1
    BY <1>1, <1>2 DEF SInv, Unsent, Took, Layer
  <2> QED
    BY <2>1, <2>2
<1>3. CASE call[p].result \in {"ok", "reverted", "rejected", "lost"}
  <2>1. /\ Only(call[p])
        /\ Settlement(Own(p))
        /\ Learnt(call[p], Own(p))
        /\ Holds(call[p], cache[p])
    BY <1>3 DEF SInv, Settling, Sent, Own
  <2>2. /\ Own(p).kind = call[p].kind
        /\ Own(p).nonce = call[p].nonce
        /\ Own(p).evm = call[p].evm
    BY <2>1 DEF Only, Own
  <2>3. CASE l = "starknet"
    <3>1. Spent(p, l) <=> Own(p).status \in {"succeeded", "reverted"}
      BY <1>3, <2>3 DEF Spent
    <3>2. GivenBack(p, l) <=> call[p].result = "rejected" /\ ~world.multisig
      BY <2>3 DEF GivenBack
    <3>3. call[p].result = "rejected" => Own(p).status = "rejected"
      BY <2>1 DEF Learnt
    <3> QED
      BY <1>1, <2>1, <2>2, <2>3, <3>1, <3>2, <3>3 DEF Settlement, Holds
  <2>4. CASE l = "evm"
    <3>1. Spent(p, l) <=> Own(p).status = "succeeded"
      BY <1>3, <2>4 DEF Spent
    <3>2. GivenBack(p, l) <=> call[p].result = "reverted"
      BY <2>4 DEF GivenBack
    <3>3. call[p].result = "reverted" => Own(p).status = "reverted"
      BY <2>1 DEF Learnt
    <3>4. call[p].kind = "evm"
      BY <2>4 DEF Took
    <3> QED
      BY <1>1, <2>1, <2>2, <2>4, <3>1, <3>2, <3>3, <3>4 DEF Settlement, Holds
  <2> QED
    BY <1>1, <2>3, <2>4 DEF Layer
<1> QED
  BY <1>1, <1>2, <1>3 DEF Result

\* When a call that began with nothing on its way has ended, however it did, and until
\* another begins, the caches of its process differ from the chain by exactly what its
\* transaction has not spent and execute_v1 and send_starknet_transaction did not give
\* back, and what the transaction has spent was not given back.
THEOREM InSyncHolds == Spec => []InSync
<1> DEFINE Inv == IInv /\ (world.lag = 0 => SInv)
<1>1. Init => Inv
  <2> SUFFICES ASSUME Init PROVE Inv
    OBVIOUS
  <2>1. IInv
    BY InitInv
  <2>2. SInv
    BY DEF Init, SInv, QInv, Alone, Quiet, Polls, Settling, Sent, Unsent
  <2> QED
    BY <2>1, <2>2
<1>2. Inv /\ [Next]_vars => Inv'
  <2> SUFFICES ASSUME Inv, [Next]_vars PROVE Inv'
    OBVIOUS
  <2>1. IInv'
    BY NextInv
  <2>2. world' = world
    BY NextWorld
  <2>3. ASSUME world.lag = 0
        PROVE  SInv'
    <3>1. TypeOK /\ SInv /\ QInv
      BY <2>3 DEF IInv, SInv
    <3>2. QInv'
      BY <2>3, <3>1, AloneStep, QuietStep DEF QInv
    <3> QED
      BY <3>1, <3>2, PollsStep, SettlingStep DEF SInv
  <2> QED
    BY <2>1, <2>2, <2>3
<1>3. Inv => InSync
  <2> SUFFICES ASSUME Inv, world.lag = 0 PROVE InSync
    BY DEF InSync
  <2> QED
    BY SettledInSync DEF InSync
<1> QED
  BY <1>1, <1>2, <1>3, PTL DEF Spec
=============================================================================
