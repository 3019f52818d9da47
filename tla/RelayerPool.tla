----------------------------- MODULE RelayerPool -----------------------------
(***************************************************************************)
(* The relayers that carry EVM transactions: RelayerPool, fund_address and  *)
(* deploy_starknet_account of utils/starknet.py, and                        *)
(* deploy_and_fund_evm_address of utils/kakarot.py.                         *)
(*                                                                         *)
(* Creating the pool funds every relayer in one multicall of the main       *)
(* account (the transfers are queued while the account is "lazy"), deploys  *)
(* the accounts, each with one retry, and gives the main account an         *)
(* allowance over their funds.  Any request may raise, any transaction may  *)
(* be reverted or be late, which is only logged, and the process may be     *)
(* killed.  An exception ends a script; a test session goes on with the     *)
(* memory the exception left.  (A local devnet, where fund_address mints    *)
(* what is asked for, is left out.)                                        *)
(***************************************************************************)
EXTENDS Integers, Sequences

CONSTANTS
  N,           \* relayers
  Amount,      \* what each is funded with, in ETH
  Eth,         \* wei in one ETH
  Worlds       \* the circumstances to consider

ASSUME BoundsAssumption ==
  /\ N \in Nat \ {0} /\ Amount \in Nat /\ Eth \in Nat \ {0}
  /\ Worlds \subseteq
       [funds : Nat,         \* wei the main account starts with
        dust : SUBSET Nat,   \* wei the other accounts may start with
        session : BOOLEAN,   \* an exception does not end the process
        raises : BOOLEAN,    \* a request, of a reading or a multicall, may raise
        late : BOOLEAN,      \* a transaction may be included after the wait for it
        failures : Nat,      \* bound: failures, late answers and kills
        queued : Nat]        \* bound: transfers in the queue when an EVM address is funded

Main == 0
Relayer == 1..N
Eoa == N + 1  \* the account of an EVM address
Account == Main..Eoa

VARIABLES
  balance,   \* wei of each account
  deployed,  \* the accounts that are deployed
  allowed,   \* the relayers that gave the main account their allowance
  pending,   \* multicalls that are late
  lazy,      \* _lazy_execute of the main account
  queue,     \* _logs of the main account
  pool,      \* _cached_relayers is set
  proc,      \* what the process is doing
  world      \* one of Worlds, which stays, with the failures so far

network == <<balance, deployed, allowed, pending>>
memory == <<lazy, queue, pool>>
vars == <<network, memory, proc, world>>

Transfers == [from : Account, to : Account, amount : Nat]
Idle == [step |-> "idle", i |-> 1, isLazy |-> FALSE, then |-> "return", tried |-> FALSE]

Init ==
  /\ \E w \in Worlds :
       world = [funds |-> w.funds, dust |-> w.dust, session |-> w.session, raises |-> w.raises,
                late |-> w.late, failures |-> w.failures, queued |-> w.queued, failed |-> 0]
  /\ \E dust \in [Account \ {Main} -> world.dust] :
       balance = [a \in Account |-> IF a = Main THEN world.funds ELSE dust[a]]
  /\ deployed = {Main}
  /\ allowed = {}
  /\ pending = {}
  /\ lazy = FALSE
  /\ queue = <<>>
  /\ pool = FALSE
  /\ proc = Idle

-----------------------------------------------------------------------------
(* The process and its memory                                              *)

Fails == world.failed < world.failures /\ world' = [world EXCEPT !.failed = @ + 1]
Works == world' = world

Exit ==
  /\ lazy' = FALSE
  /\ queue' = <<>>
  /\ pool' = FALSE
  /\ proc' = Idle

\* An exception that reaches the top.
Raise == IF world.session THEN proc' = Idle /\ UNCHANGED memory ELSE Exit

Kill == Fails /\ proc.step # "idle" /\ Exit /\ UNCHANGED network

Goto(step) == [proc EXCEPT !.step = step, !.i = 1, !.tried = FALSE]

\* A request of a call raises: a reading of the chain, or what a relayer sends.  (One
\* that comes after a transfer is the same as one before the next step.)
RequestRaises ==
  /\ proc.step \in {"fund", "deploy", "approve", "get", "eoa"}
  /\ world.raises
  /\ Fails
  /\ Raise
  /\ UNCHANGED network

\* Mutant of NextOr: one relayer too many.
NextPast(step) == IF proc.i > N THEN Goto(step) ELSE [proc EXCEPT !.i = @ + 1, !.tried = FALSE]

\* On to the next relayer, or to the first one of the next step.
NextOr(step) == IF proc.i = N THEN Goto(step) ELSE [proc EXCEPT !.i = @ + 1, !.tried = FALSE]

-----------------------------------------------------------------------------
(* Transfers                                                               *)

\* The transfers of a multicall happen together or not at all.
Transfer(s, t) ==
  LET paid == [s.balance EXCEPT ![t.from] = @ - t.amount] IN
  IF s.ok /\ s.balance[t.from] >= t.amount /\ t.from \in {Main} \cup allowed
  THEN [s EXCEPT !.balance = [paid EXCEPT ![t.to] = @ + t.amount]]
  ELSE [s EXCEPT !.ok = FALSE]

Balances(calls) ==
  LET after[n \in 0..Len(calls)] ==
        IF n = 0 THEN [ok |-> TRUE, balance |-> balance] ELSE Transfer(after[n - 1], calls[n])
      s == after[Len(calls)]
  IN  IF s.ok THEN s.balance ELSE balance

\* execute_v1: a transaction that fails or is late is logged, no more.
Executes(calls) ==
  \/ balance' = Balances(calls) /\ pending' = pending /\ Works
  \/ balance' = balance /\ pending' = pending /\ Fails
  \/ balance' = balance /\ pending' = pending \cup {calls} /\ world.late /\ Fails

Includes ==
  /\ \E calls \in pending : balance' = Balances(calls) /\ pending' = pending \ {calls}
  /\ UNCHANGED <<deployed, allowed, memory, proc, world>>

\* invoke of the main account.
Invoke(t) ==
  IF lazy THEN queue' = Append(queue, t) /\ UNCHANGED <<balance, pending, world>>
  ELSE queue' = queue /\ Executes(<<t>>)

\* Mutant of FundAddress: the whole amount is sent.
FundWholly(to, amount, next) ==
  LET required == amount - balance[to] IN
  /\ IF balance[Main] < required THEN Raise /\ UNCHANGED <<balance, pending, world>>
     ELSE /\ proc' = next
          /\ UNCHANGED <<lazy, pool>>
          /\ IF required <= 0 THEN UNCHANGED <<queue, balance, pending, world>>
             ELSE Invoke([from |-> Main, to |-> to, amount |-> amount])
  /\ UNCHANGED <<deployed, allowed>>

\* fund_address brings the balance of an account to the amount (in wei).
FundAddress(to, amount, next) ==
  LET required == amount - balance[to] IN
  /\ IF balance[Main] < required THEN Raise /\ UNCHANGED <<balance, pending, world>>
     ELSE /\ proc' = next
          /\ UNCHANGED <<lazy, pool>>
          /\ IF required <= 0 THEN UNCHANGED <<queue, balance, pending, world>>
             ELSE Invoke([from |-> Main, to |-> to, amount |-> required])
  /\ UNCHANGED <<deployed, allowed>>

-----------------------------------------------------------------------------
(* RelayerPool.create                                                      *)

StartCreate(next) ==
  /\ proc' = [Idle EXCEPT !.step = "fund", !.isLazy = lazy, !.then = next]
  /\ lazy' = TRUE
  /\ UNCHANGED <<network, queue, pool, world>>

\* RelayerPool.get, when no pool is cached.
Get ==
  /\ proc.step = "idle"
  /\ ~pool
  /\ StartCreate("return")

FundRelayer ==
  /\ proc.step = "fund"
  /\ FundAddress(proc.i, Amount * Eth, NextOr("flush"))

\* Mutant of ExecuteCalls: the account stays lazy.
ExecuteLazily ==
  /\ proc.step \in {"flush", "flush withdrawal"}
  /\ \/ world.raises /\ Fails /\ Raise /\ UNCHANGED <<balance, pending>>
     \/ /\ Executes(queue)
        /\ queue' = <<>>
        /\ lazy' = TRUE
        /\ pool' = pool
        /\ proc' = IF proc.step = "flush" THEN Goto("deploy") ELSE Idle
  /\ UNCHANGED <<deployed, allowed>>

\* execute_calls sends the queue in one transaction, then the account is what it was
\* before.  When the request raises, it is not: the queue and the mark are kept.
ExecuteCalls ==
  /\ proc.step \in {"flush", "flush withdrawal"}
  /\ \/ world.raises /\ Fails /\ Raise /\ UNCHANGED <<balance, pending>>
     \/ /\ Executes(queue)
        /\ queue' = <<>>
        /\ lazy' = proc.isLazy
        /\ pool' = pool
        /\ proc' = IF proc.step = "flush" THEN Goto("deploy") ELSE Idle
  /\ UNCHANGED <<deployed, allowed>>

\* Mutant of DeployRelayer: an account that is there is deployed again.
DeployAnyway ==
  /\ proc.step = "deploy"
  /\ UNCHANGED <<balance, allowed, pending>>
  /\ LET payable == proc.i \notin deployed /\ balance[proc.i] > 0 IN
       \/ /\ payable
          /\ \/ deployed' = deployed \cup {proc.i} /\ Works
             \/ deployed' = deployed /\ Fails
          /\ proc' = NextOr("approve")
          /\ UNCHANGED memory
       \/ /\ \/ payable /\ deployed' \in {deployed, deployed \cup {proc.i}} /\ Fails
             \/ ~payable /\ deployed' = deployed /\ Works
          /\ IF proc.tried THEN Raise
             ELSE proc' = [proc EXCEPT !.tried = TRUE] /\ UNCHANGED memory

\* deploy_starknet_account.  The account pays for its own deployment.  An error is
\* tried again once, although the first transaction may have been accepted; a
\* deployment that was accepted and fails is logged.  (One that is included after the
\* wait finds the account undeployed until then: what comes of it is what comes of a
\* kill after a deployment in time.)
DeployRelayer ==
  /\ proc.step = "deploy"
  /\ UNCHANGED <<balance, allowed, pending>>
  /\ LET there == proc.i \in deployed
         payable == ~there /\ balance[proc.i] > 0
     IN  \/ /\ there /\ ~proc.tried
            /\ proc' = NextOr("approve")
            /\ UNCHANGED <<deployed, memory, world>>
         \/ /\ payable
            /\ \/ deployed' = deployed \cup {proc.i} /\ Works
               \/ deployed' = deployed /\ Fails
            /\ proc' = NextOr("approve")
            /\ UNCHANGED memory
         \/ /\ \/ payable /\ deployed' \in {deployed, deployed \cup {proc.i}} /\ Fails
               \/ ~payable /\ (there => proc.tried) /\ deployed' = deployed /\ Works
            /\ IF proc.tried THEN Raise
               ELSE proc' = [proc EXCEPT !.tried = TRUE] /\ UNCHANGED memory

\* Mutant of ApproveMain: an account that does not answer is taken for deployed.
ApproveUnchecked ==
  /\ proc.step = "approve"
  /\ UNCHANGED <<balance, deployed, pending, lazy, queue>>
  /\ allowed' = allowed \cup ({proc.i} \cap deployed)
  /\ Works
  /\ IF proc.i < N THEN proc' = [proc EXCEPT !.i = @ + 1] /\ pool' = pool
     ELSE pool' = TRUE /\ proc' = IF proc.then = "eoa" THEN Goto("eoa") ELSE Idle

\* get_starknet_account asks the relayer for its key, which raises when it is not
\* deployed; then the relayer approves the main account, unless it has already, and
\* pays for that itself.
ApproveMain ==
  /\ proc.step = "approve"
  /\ UNCHANGED <<balance, deployed, pending>>
  /\ \/ /\ proc.i \notin deployed \/ (proc.i \notin allowed /\ balance[proc.i] = 0)
        /\ Raise
        /\ UNCHANGED <<allowed, world>>
     \/ /\ proc.i \in deployed
        /\ \/ allowed' = allowed \cup {proc.i} /\ Works /\ (proc.i \in allowed \/ balance[proc.i] > 0)
           \/ allowed' = allowed /\ proc.i \notin allowed /\ balance[proc.i] > 0 /\ Fails
        /\ UNCHANGED <<lazy, queue>>
        /\ IF proc.i < N THEN proc' = [proc EXCEPT !.i = @ + 1] /\ pool' = pool
           ELSE pool' = TRUE /\ proc' = IF proc.then = "eoa" THEN Goto("eoa") ELSE Idle

-----------------------------------------------------------------------------
(* withdraw_all and deploy_and_fund_evm_address                            *)

\* A transferFrom for every relayer that has a balance,
Withdrawals ==
  LET upTo[r \in 0..N] ==
        IF r = 0 THEN <<>>
        ELSE IF balance[r] > 0
        THEN Append(upTo[r - 1], [from |-> r, to |-> Main, amount |-> balance[r]])
        ELSE upTo[r - 1]
  IN  upTo[N]

\* in one transaction.
WithdrawAll ==
  /\ proc.step = "idle"
  /\ pool
  /\ proc' = [Idle EXCEPT !.step = "flush withdrawal", !.isLazy = lazy]
  /\ lazy' = TRUE
  /\ queue' = queue \o Withdrawals
  /\ UNCHANGED <<network, pool, world>>

\* The balance, in wei, is compared with the amount, in ETH, and the difference of
\* the two is what fund_address is asked for, in ETH.
DeployAndFundEvmAddress ==
  /\ proc.step = "idle"
  /\ Len(queue) <= world.queued
  /\ LET next == [Idle EXCEPT !.step = "get"] IN
       IF balance[Eoa] < Amount
       THEN FundAddress(Eoa, (Amount - balance[Eoa]) * Eth, next)
       ELSE proc' = next /\ UNCHANGED <<network, memory, world>>

\* The deployment is sent by a relayer, so the pool is created now if it has not been.
GetRelayer ==
  /\ proc.step = "get"
  /\ IF Eoa \in deployed THEN proc' = [Idle EXCEPT !.step = "done"] /\ UNCHANGED <<network, memory, world>>
     ELSE IF pool THEN proc' = Goto("eoa") /\ UNCHANGED <<network, memory, world>>
     ELSE StartCreate("eoa")

DeployEoa ==
  /\ proc.step = "eoa"
  /\ \/ deployed' = deployed \cup {Eoa} /\ Works
     \/ deployed' = deployed /\ Fails
  /\ proc' = [Idle EXCEPT !.step = "done"]
  /\ UNCHANGED <<balance, allowed, pending, memory>>

\* The caller has its answer.
Return ==
  /\ proc.step = "done"
  /\ proc' = Idle
  /\ UNCHANGED <<network, memory, world>>

\* A script that has done its work ends; what it cached is gone.
End ==
  /\ proc.step = "idle"
  /\ ~world.session
  /\ pool
  /\ Exit
  /\ UNCHANGED <<network, world>>

Continue ==
  FundRelayer \/ ExecuteCalls \/ DeployRelayer \/ ApproveMain \/ GetRelayer \/ DeployEoa \/ Return

Next ==
  Continue \/ Get \/ WithdrawAll \/ DeployAndFundEvmAddress \/ End \/ Kill \/ RequestRaises \/ Includes

Spec == Init /\ [][Next]_vars

\* A run goes on and makes finitely many calls; one that creates the pool is begun again,
\* whatever other scripts are run in between; the node includes what is late.
FairSpec ==
  Spec /\ WF_vars(Continue) /\ WF_vars(Includes) /\ SF_vars(End) /\ SF_vars(Get)

-----------------------------------------------------------------------------
(* Properties                                                              *)

TypeOK ==
  /\ balance \in [Account -> Nat]
  /\ deployed \subseteq Account
  /\ allowed \subseteq Relayer
  /\ lazy \in BOOLEAN /\ pool \in BOOLEAN
  /\ queue \in Seq(Transfers)
  /\ proc.i \in Relayer

\* A pool that was created holds accounts that exist, whatever was reverted, late or
\* tried again on the way.
PoolIsDeployed == pool => Relayer \subseteq deployed

\* What a request that raised left in the memory is there when the next call begins.
KeepsQueue == world.session /\ world.raises

\* However often a creation is cut short and begun again, no relayer gets more than
\* the amount: it is topped up to it.  A late transfer, or one left in the queue of a
\* session, is not seen by the creation that comes next and is made twice.
NoOverFunding ==
  ~world.late /\ ~KeepsQueue => \A r \in Relayer : balance[r] <= Amount * Eth

\* The main account can pay for every relayer once more than it may fail, and for
\* the account of the EVM address.
Solvent == world.funds >= ((world.failures + 1) * N + 1) * Amount * Eth

\* A call of a session does not leave the main account lazy, with transfers that nobody
\* will send, when an account was not deployed or an allowance not given; an exception
\* of the funding or of a request does.
NotLeftLazy == proc.step = "idle" /\ ~KeepsQueue /\ Solvent => ~lazy /\ queue = <<>>

\* Creations that are begun again after every failure complete in the end: all
\* relayers deployed, with their allowance.
PoolCompletes ==
  ~world.session /\ Solvent => <>[](Relayer \subseteq deployed /\ allowed = Relayer)

=============================================================================
