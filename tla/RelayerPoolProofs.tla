-------------------------- MODULE RelayerPoolProofs --------------------------
(***************************************************************************)
(* Theorems about RelayerPool, for any number of relayers and failures.     *)
(*                                                                         *)
(* A pool holds accounts that exist.  The loop that deploys relayers may    *)
(* leave one undeployed, since a deployment that fails is only logged.      *)
(* What protects the pool is the second loop, which asks each relayer for   *)
(* its key: the invariant says how far it has come (Answered).              *)
(*                                                                         *)
(* No balance is ever negative, nor are the withdrawals that are left: the  *)
(* transfers of a queue are a recursive function over a prefix of it, and   *)
(* the facts about it are proved by induction on its length, which rests on *)
(* the least number principle of WellFoundedInduction.                      *)
(*                                                                         *)
(* A prompt network and a pool funded from dust leave no relayer with more  *)
(* than it was to have.  What is in a queue does not count until it is      *)
(* sent, so the invariant follows every funding to come (Funding), and what *)
(* a run that raised has left in the memory of a session (Stuck).           *)
(*                                                                         *)
(* A main account that has the funds is not left lazy in a session, since   *)
(* no funding raises: it can pay what a relayer lacks.  That takes what the *)
(* others have at most (Share), for all the transactions that were late     *)
(* (Book), and that all balances together stay what they were (Totals).     *)
(***************************************************************************)
EXTENDS RelayerPool, FiniteSets, TLAPS, WellFoundedInduction, FiniteSetTheorems

\* The steps of a process.
Step == {"idle", "fund", "flush", "deploy", "approve", "flush withdrawal", "get", "eoa", "done"}

\* The process counts relayers, and the fields it is copied with are there.
ProcType ==
  /\ proc \in [step : Step, i : Relayer, isLazy : BOOLEAN, then : {"return", "eoa"},
               tried : BOOLEAN]
  /\ lazy \in BOOLEAN

\* The relayers that have answered for their key are deployed.
Answered == proc.step = "approve" => \A r \in 1..(proc.i - 1) : r \in deployed

IInv == ProcType /\ Answered /\ PoolIsDeployed

-----------------------------------------------------------------------------
\* The process of a script that waits.
LEMMA IdleType ==
  /\ Idle \in [step : Step, i : Relayer, isLazy : BOOLEAN, then : {"return", "eoa"},
               tried : BOOLEAN]
  /\ Idle.step = "idle"
BY BoundsAssumption DEF Idle, Step, Relayer

\* A step of a process that is not in the second loop preserves the invariant if
\* no account goes and no pool comes.
LEMMA OutsideApproval ==
  ASSUME IInv, ProcType', proc'.step # "approve",
         deployed \subseteq deployed', pool' => pool
  PROVE  IInv'
BY DEF IInv, Answered, PoolIsDeployed

\* So does entering the second loop, at its first relayer.
LEMMA EntersApproval ==
  ASSUME IInv, ProcType', proc'.i = 1, deployed \subseteq deployed', pool' => pool
  PROVE  IInv'
<1>1. Answered'
  BY DEF Answered
<1> QED BY <1>1 DEF IInv, PoolIsDeployed

\* An exception ends the process or leaves its memory; a killed process is idle.
LEMMA RaisePreserves ==
  ASSUME IInv, Raise \/ Exit, deployed' = deployed
  PROVE  IInv'
<1>1. lazy \in BOOLEAN
  BY DEF IInv, ProcType
<1>2. proc' = Idle /\ lazy' \in BOOLEAN /\ (pool' => pool)
  BY <1>1 DEF Raise, Exit, memory
<1>3. ProcType' /\ proc'.step # "approve"
  BY <1>2, IdleType DEF ProcType
<1> QED BY <1>2, <1>3, OutsideApproval

\* A step begins with the first relayer.
LEMMA GotoType ==
  ASSUME ProcType, NEW step \in Step
  PROVE  /\ Goto(step) \in [step : Step, i : Relayer, isLazy : BOOLEAN,
                            then : {"return", "eoa"}, tried : BOOLEAN]
         /\ Goto(step).step = step /\ Goto(step).i = 1
<1>1. 1 \in Relayer
  BY BoundsAssumption DEF Relayer
<1> QED BY <1>1 DEF ProcType, Goto

\* What comes after a relayer: the next one, or the first one of the next step.
LEMMA NextOrType ==
  ASSUME ProcType, NEW step \in Step
  PROVE  /\ NextOr(step) \in [step : Step, i : Relayer, isLazy : BOOLEAN,
                              then : {"return", "eoa"}, tried : BOOLEAN]
         /\ \/ NextOr(step).step = step /\ NextOr(step).i = 1
            \/ NextOr(step).step = proc.step
<1>1. proc.i \in 1..N /\ N \in Nat /\ N > 0
  BY BoundsAssumption DEF ProcType, Relayer
<1>2. CASE proc.i = N
  <2>1. NextOr(step) = Goto(step)
    BY <1>2 DEF NextOr
  <2> QED BY <2>1, GotoType
<1>3. CASE proc.i # N
  <2>1. NextOr(step) = [proc EXCEPT !.i = @ + 1, !.tried = FALSE]
    BY <1>3 DEF NextOr
  <2>2. proc.i + 1 \in Relayer
    BY <1>1, <1>3 DEF Relayer
  <2> QED BY <2>1, <2>2 DEF ProcType
<1> QED BY <1>2, <1>3

\* So does funding, of whom it may be.
LEMMA FundAddressPreserves ==
  ASSUME IInv, NEW to, NEW amount, NEW next, FundAddress(to, amount, next),
         next \in [step : Step, i : Relayer, isLazy : BOOLEAN, then : {"return", "eoa"},
                   tried : BOOLEAN],
         next.step # "approve"
  PROVE  IInv'
<1>1. deployed' = deployed
  BY DEF FundAddress
<1>2. CASE Raise
  BY <1>1, <1>2, RaisePreserves
<1>3. CASE ~Raise
  <2>1. proc' = next /\ lazy' = lazy /\ pool' = pool
    BY <1>3 DEF FundAddress
  <2>2. ProcType'
    BY <2>1 DEF IInv, ProcType
  <2> QED BY <1>1, <2>1, <2>2, OutsideApproval
<1> QED BY <1>2, <1>3

\* So does the beginning of a creation.
LEMMA StartCreatePreserves ==
  ASSUME IInv, NEW next \in {"return", "eoa"}, StartCreate(next)
  PROVE  IInv'
<1>1. lazy \in BOOLEAN
  BY DEF IInv, ProcType
<1>2. /\ proc' = [Idle EXCEPT !.step = "fund", !.isLazy = lazy, !.then = next]
      /\ lazy' = TRUE /\ deployed' = deployed /\ pool' = pool
  BY DEF StartCreate, network
<1>3. ProcType' /\ proc'.step = "fund"
  BY <1>1, <1>2, IdleType DEF ProcType, Step
<1> QED BY <1>2, <1>3, OutsideApproval

\* So does sending the queue, which fails or not.
LEMMA ExecuteCallsPreserves ==
  ASSUME IInv, ExecuteCalls
  PROVE  IInv'
<1>1. deployed' = deployed
  BY DEF ExecuteCalls
<1>2. CASE Raise
  BY <1>1, <1>2, RaisePreserves
<1>3. CASE ~Raise
  <2>1. /\ lazy' = proc.isLazy /\ pool' = pool
        /\ proc' = Goto("deploy") \/ proc' = Idle
    BY <1>3 DEF ExecuteCalls
  <2>2. ProcType' /\ proc'.step # "approve"
    <3>1. ProcType /\ lazy' \in BOOLEAN
      BY <2>1 DEF IInv, ProcType
    <3>2. CASE proc' = Goto("deploy")
      <4>1. "deploy" \in Step
        BY DEF Step
      <4>2. proc'.step = "deploy"
        BY <3>1, <3>2, <4>1, GotoType
      <4> QED BY <3>1, <3>2, <4>1, <4>2, GotoType DEF ProcType
    <3>3. CASE proc' = Idle
      BY <3>1, <3>3, IdleType DEF ProcType
    <3> QED BY <2>1, <3>2, <3>3
  <2> QED BY <1>1, <2>1, <2>2, OutsideApproval
<1> QED BY <1>2, <1>3

\* So does the first loop, deployed or not.
LEMMA DeployRelayerPreserves ==
  ASSUME IInv, DeployRelayer
  PROVE  IInv'
<1>1. ProcType /\ proc.step = "deploy"
  BY DEF IInv, DeployRelayer
<1>2. deployed \subseteq deployed'
  BY DEF DeployRelayer
<1>3. \/ proc' = NextOr("approve") /\ lazy' = lazy /\ pool' = pool
      \/ proc' = [proc EXCEPT !.tried = TRUE] /\ lazy' = lazy /\ pool' = pool
      \/ Raise /\ deployed' = deployed
      \/ Raise
  BY DEF DeployRelayer, memory
<1>4. CASE proc' = NextOr("approve") /\ lazy' = lazy /\ pool' = pool
  <2>1. ProcType' /\ (proc'.i = 1 \/ proc'.step # "approve")
    BY <1>1, <1>4, NextOrType DEF ProcType, Step
  <2> QED BY <1>2, <1>4, <2>1, OutsideApproval, EntersApproval
<1>5. CASE proc' = [proc EXCEPT !.tried = TRUE] /\ lazy' = lazy /\ pool' = pool
  <2>1. ProcType' /\ proc'.step # "approve"
    BY <1>1, <1>5 DEF ProcType
  <2> QED BY <1>2, <1>5, <2>1, OutsideApproval
<1>6. CASE Raise
  <2>1. proc' = Idle /\ lazy' \in BOOLEAN /\ (pool' => pool)
    BY <1>1, <1>6 DEF Raise, Exit, memory, ProcType
  <2>2. ProcType' /\ proc'.step # "approve"
    BY <2>1, IdleType DEF ProcType
  <2> QED BY <1>2, <2>1, <2>2, OutsideApproval
<1> QED BY <1>3, <1>4, <1>5, <1>6

\* So does the second loop: a relayer that does not answer ends the creation, and
\* the pool is cached when all have.
LEMMA ApproveMainPreserves ==
  ASSUME IInv, ApproveMain
  PROVE  IInv'
<1>1. /\ ProcType /\ proc.step = "approve" /\ deployed' = deployed
      /\ proc.i \in 1..N /\ N \in Nat
  BY BoundsAssumption DEF IInv, ApproveMain, ProcType, Relayer
<1>2. CASE Raise
  BY <1>1, <1>2, RaisePreserves
<1>3. CASE ~Raise
  <2>1. /\ proc.i \in deployed /\ lazy' = lazy
        /\ IF proc.i < N THEN proc' = [proc EXCEPT !.i = @ + 1] /\ pool' = pool
           ELSE pool' = TRUE /\ proc' = IF proc.then = "eoa" THEN Goto("eoa") ELSE Idle
    BY <1>3 DEF ApproveMain
  <2>2. \A r \in 1..(proc.i - 1) : r \in deployed
    BY <1>1 DEF IInv, Answered
  <2>3. \A r \in 1..proc.i : r \in deployed
    <3>1. \A r \in 1..proc.i : r \in 1..(proc.i - 1) \/ r = proc.i
      BY <1>1
    <3> QED BY <2>1, <2>2, <3>1
  <2>4. CASE proc.i < N
    <3>1. proc' = [proc EXCEPT !.i = @ + 1] /\ pool' = pool
      BY <2>1, <2>4
    <3>2. ProcType' /\ proc'.i - 1 = proc.i
      BY <1>1, <2>1, <2>4, <3>1 DEF ProcType, Relayer
    <3> QED BY <1>1, <2>3, <3>1, <3>2 DEF IInv, Answered, PoolIsDeployed
  <2>5. CASE ~(proc.i < N)
    <3>1. proc.i = N /\ (proc' = Goto("eoa") \/ proc' = Idle)
      BY <1>1, <2>1, <2>5
    <3>2. ProcType' /\ proc'.step # "approve"
      BY ZenonT(60), <1>1, <2>1, <3>1, IdleType, GotoType DEF ProcType, Step
    <3>3. PoolIsDeployed'
      BY <1>1, <2>3, <3>1 DEF PoolIsDeployed, Relayer
    <3> QED BY <3>2, <3>3 DEF IInv, Answered
  <2> QED BY <2>4, <2>5
<1> QED BY <1>2, <1>3

\* So do the withdrawal and the deployment of the EVM account.
LEMMA OthersPreserve ==
  ASSUME IInv, WithdrawAll \/ GetRelayer \/ DeployEoa \/ Return \/ Includes
  PROVE  IInv'
<1>1. ProcType
  BY DEF IInv
<1>2. CASE WithdrawAll
  <2>1. /\ proc' = [Idle EXCEPT !.step = "flush withdrawal", !.isLazy = lazy]
        /\ lazy' = TRUE /\ deployed' = deployed /\ pool' = pool
    BY <1>2 DEF WithdrawAll, network
  <2>2. ProcType' /\ proc'.step # "approve"
    BY <1>1, <2>1, IdleType DEF ProcType, Step
  <2> QED BY <2>1, <2>2, OutsideApproval
<1>3. CASE GetRelayer /\ ~StartCreate("eoa")
  <2>1. /\ proc' = [Idle EXCEPT !.step = "done"] \/ proc' = Goto("eoa")
        /\ lazy' = lazy /\ deployed' = deployed /\ pool' = pool
    BY <1>3 DEF GetRelayer, network, memory
  <2>2. "done" \in Step /\ "eoa" \in Step
    BY DEF Step
  <2>3. CASE proc' = [Idle EXCEPT !.step = "done"]
    <3>1. ProcType' /\ proc'.step = "done"
      BY <1>1, <2>1, <2>2, <2>3, IdleType DEF ProcType
    <3> QED BY <2>1, <3>1, OutsideApproval
  <2>4. CASE proc' = Goto("eoa")
    <3>1. ProcType' /\ proc'.step = "eoa"
      BY <1>1, <2>1, <2>2, <2>4, GotoType DEF ProcType
    <3> QED BY <2>1, <3>1, OutsideApproval
  <2> QED BY <2>1, <2>3, <2>4
<1>4. CASE DeployEoa \/ Return
  <2>1. /\ proc' = [Idle EXCEPT !.step = "done"] \/ proc' = Idle
        /\ lazy' = lazy /\ deployed \subseteq deployed' /\ pool' = pool
    BY <1>4 DEF DeployEoa, Return, network, memory
  <2>2. ProcType' /\ proc'.step # "approve"
    BY <1>1, <2>1, IdleType DEF ProcType, Step
  <2> QED BY <2>1, <2>2, OutsideApproval
<1>5. CASE Includes
  <2>1. proc' = proc /\ lazy' = lazy /\ deployed' = deployed /\ pool' = pool
    BY <1>5 DEF Includes, memory
  <2> QED BY <2>1 DEF IInv, ProcType, Answered, PoolIsDeployed
<1> QED BY <1>2, <1>3, <1>4, <1>5, StartCreatePreserves DEF GetRelayer

\* The invariant holds at first,
LEMMA InitInvariant == Init => IInv
BY IdleType DEF Init, IInv, ProcType, Answered, PoolIsDeployed

\* and every step preserves it.
LEMMA NextInvariant == IInv /\ [Next]_vars => IInv'
<1> SUFFICES ASSUME IInv, [Next]_vars PROVE IInv'
  OBVIOUS
<1>1. ProcType
  BY DEF IInv
<1>2. CASE FundRelayer
  <2>1. /\ NextOr("flush") \in [step : Step, i : Relayer, isLazy : BOOLEAN,
                                then : {"return", "eoa"}, tried : BOOLEAN]
        /\ NextOr("flush").step # "approve"
    BY <1>1, <1>2, NextOrType DEF FundRelayer, Step
  <2> QED BY <1>2, <2>1, FundAddressPreserves DEF FundRelayer
<1>3. CASE DeployAndFundEvmAddress
  <2> DEFINE next == [Idle EXCEPT !.step = "get"]
  <2>1. /\ next \in [step : Step, i : Relayer, isLazy : BOOLEAN, then : {"return", "eoa"},
                     tried : BOOLEAN]
        /\ next.step # "approve"
    BY IdleType DEF Step
  <2>2. \/ FundAddress(Eoa, (Amount - balance[Eoa]) * Eth, next)
        \/ proc' = next /\ lazy' = lazy /\ deployed' = deployed /\ pool' = pool
    BY <1>3 DEF DeployAndFundEvmAddress, network, memory
  <2> HIDE DEF next
  <2>3. CASE proc' = next /\ lazy' = lazy /\ deployed' = deployed /\ pool' = pool
    <3>1. ProcType' /\ proc'.step # "approve"
      BY <1>1, <2>1, <2>3 DEF ProcType
    <3> QED BY <2>3, <3>1, OutsideApproval
  <2> QED BY <2>1, <2>2, <2>3, FundAddressPreserves
<1>4. CASE ExecuteCalls \/ DeployRelayer \/ ApproveMain
  BY <1>4, ExecuteCallsPreserves, DeployRelayerPreserves, ApproveMainPreserves
<1>5. CASE Get
  BY <1>5, StartCreatePreserves DEF Get
<1>6. CASE WithdrawAll \/ GetRelayer \/ DeployEoa \/ Return \/ Includes
  BY <1>6, OthersPreserve
<1>7. CASE End \/ Kill \/ RequestRaises
  BY <1>7, RaisePreserves DEF End, Kill, RequestRaises, network
<1>8. CASE UNCHANGED vars
  BY <1>8 DEF vars, network, memory, IInv, ProcType, Answered, PoolIsDeployed
<1> QED BY <1>2, <1>3, <1>4, <1>5, <1>6, <1>7, <1>8 DEF Next, Continue

\* A pool that was created holds accounts that exist, for any number of relayers,
\* failures, late transactions and killed runs.
THEOREM PoolIsDeployedHolds == Spec => []PoolIsDeployed
<1>1. Init => IInv
  BY InitInvariant
<1>2. IInv /\ [Next]_vars => IInv'
  BY NextInvariant
<1>3. IInv => PoolIsDeployed
  BY DEF IInv
<1> QED BY <1>1, <1>2, <1>3, PTL DEF Spec

-----------------------------------------------------------------------------
(* Loops: a function that is defined from one index to the next exists and    *)
(* keeps its type.                                                         *)

\* Induction for a set of numbers, from the least element it does not hold.
LEMMA NatSet ==
  ASSUME NEW S, 0 \in S, \A n \in Nat : n \in S => n + 1 \in S
  PROVE  \A n \in Nat : n \in S
<1> SUFFICES ASSUME Nat \ S # {} PROVE FALSE
  OBVIOUS
<1>1. PICK x \in Nat \ S : \A y \in Nat \ S : <<y, x>> \notin OpToRel(<, Nat)
  BY NatLessThanWellFounded, WFMin
<1>2. \A y \in Nat : y < x => <<y, x>> \in OpToRel(<, Nat)
  BY DEF OpToRel
<1>3. \A y \in Nat : y < x => y \in S
  BY <1>1, <1>2
<1>4. CASE x = 0
  BY <1>4
<1>5. CASE x # 0
  <2>1. x - 1 \in Nat /\ x - 1 < x /\ (x - 1) + 1 = x
    BY <1>5
  <2> QED BY <1>3, <2>1
<1> QED BY <1>4, <1>5

\* f holds what a loop of m rounds has, from b on, after each of them.
Loop(b, m, step, f) == \A n \in 0..m : f[n] = IF n = 0 THEN b ELSE step[<<f[n - 1], n>>]

LEMMA LoopExists ==
  ASSUME NEW S, NEW b \in S, NEW m \in Nat, NEW step \in [S \X (1..m) -> S]
  PROVE  \E f \in [0..m -> S] : Loop(b, m, step, f)
<1> DEFINE K == {k \in Nat : k <= m => \E f \in [0..k -> S] : Loop(b, k, step, f)}
<1>1. 0 \in K
  <2> DEFINE f == [n \in 0..0 |-> b]
  <2>1. f \in [0..0 -> S] /\ Loop(b, 0, step, f)
    BY DEF Loop
  <2> QED BY <2>1
<1>2. ASSUME NEW k \in Nat, k \in K PROVE k + 1 \in K
  <2> SUFFICES ASSUME k + 1 <= m PROVE \E f \in [0..(k + 1) -> S] : Loop(b, k + 1, step, f)
    OBVIOUS
  <2>1. PICK g \in [0..k -> S] : Loop(b, k, step, g)
    BY <1>2
  <2> DEFINE next == step[<<g[k], k + 1>>]
             f == [n \in 0..(k + 1) |-> IF n = k + 1 THEN next ELSE g[n]]
  <2>2. next \in S
    <3>1. <<g[k], k + 1>> \in S \X (1..m)
      OBVIOUS
    <3> QED BY <3>1
  <2>3. f \in [0..(k + 1) -> S]
    BY <2>2
  <2>4. ASSUME NEW n \in 0..(k + 1)
        PROVE  f[n] = IF n = 0 THEN b ELSE step[<<f[n - 1], n>>]
    <3>1. CASE n = k + 1
      <4>1. f[n] = next /\ f[n - 1] = g[k] /\ n # 0
        BY <3>1
      <4> QED BY <3>1, <4>1
    <3>2. CASE n # k + 1
      <4>1. n \in 0..k /\ f[n] = g[n] /\ (n # 0 => f[n - 1] = g[n - 1])
        BY <3>2
      <4> QED BY <2>1, <4>1 DEF Loop
    <3> QED BY <3>1, <3>2
  <2> HIDE DEF f, next
  <2> QED BY <2>3, <2>4 DEF Loop
<1> HIDE DEF K
<1>3. \A k \in Nat : k \in K
  BY <1>1, <1>2, NatSet
<1> QED BY <1>3 DEF K

-----------------------------------------------------------------------------
(* Balances                                                                *)

Ledgers == [Account -> Nat]
Multicall == [ok : BOOLEAN, balance : Ledgers]

\* A transfer takes what is there and loses nothing of the type.
LEMMA TransferType ==
  ASSUME NEW s \in Multicall, NEW t \in Transfers
  PROVE  /\ Transfer(s, t) \in Multicall
         /\ \A a \in Account : a # t.to => Transfer(s, t).balance[a] <= s.balance[a]
         /\ Transfer(s, t).balance[t.to] <= s.balance[t.to] + t.amount
<1>1. /\ s.ok \in BOOLEAN
      /\ s.balance \in [Account -> Nat]
      /\ t.from \in Account /\ t.to \in Account /\ t.amount \in Nat
  BY DEF Multicall, Transfers, Ledgers
<1> DEFINE paid == [s.balance EXCEPT ![t.from] = @ - t.amount]
           got == [paid EXCEPT ![t.to] = @ + t.amount]
<1>2. CASE s.ok /\ s.balance[t.from] >= t.amount /\ t.from \in {Main} \cup allowed
  <2>1. paid \in [Account -> Nat] /\ \A a \in Account : paid[a] <= s.balance[a]
    BY <1>1, <1>2
  <2> HIDE DEF paid
  <2>2. /\ got \in [Account -> Nat]
        /\ got[t.to] = paid[t.to] + t.amount
        /\ \A a \in Account : a # t.to => got[a] = paid[a]
    BY <1>1, <2>1
  <2>3. Transfer(s, t) = [s EXCEPT !.balance = got]
    BY <1>1, <1>2 DEF Transfer, paid
  <2> HIDE DEF got
  <2>4. Transfer(s, t).balance = got /\ Transfer(s, t) \in Multicall
    BY <2>2, <2>3 DEF Multicall, Ledgers
  <2> QED BY <1>1, <2>1, <2>2, <2>4
<1>3. CASE ~(s.ok /\ s.balance[t.from] >= t.amount /\ t.from \in {Main} \cup allowed)
  <2>1. Transfer(s, t) = [s EXCEPT !.ok = FALSE]
    BY <1>3 DEF Transfer
  <2>2. Transfer(s, t).balance = s.balance /\ Transfer(s, t) \in Multicall
    BY <2>1 DEF Multicall
  <2> QED BY <1>1, <2>2
<1> QED BY <1>2, <1>3

\* What Balances folds the transfers with.
Follows(calls, after) ==
  after = [n \in 0..Len(calls) |->
             IF n = 0 THEN [ok |-> TRUE, balance |-> balance]
             ELSE Transfer(after[n - 1], calls[n])]

LEMMA BalancesDef ==
  ASSUME balance \in Ledgers, NEW calls \in Seq(Transfers)
  PROVE  \E after \in [0..Len(calls) -> Multicall] :
           /\ after[0] = [ok |-> TRUE, balance |-> balance]
           /\ \A n \in 1..Len(calls) : after[n] = Transfer(after[n - 1], calls[n])
           /\ Balances(calls) = IF after[Len(calls)].ok THEN after[Len(calls)].balance ELSE balance
<1> DEFINE b == [ok |-> TRUE, balance |-> balance]
           m == Len(calls)
           step == [p \in Multicall \X (1..m) |-> Transfer(p[1], calls[p[2]])]
<1>1. b \in Multicall /\ m \in Nat
  BY DEF Multicall
<1>2. step \in [Multicall \X (1..m) -> Multicall]
  <2>1. ASSUME NEW p \in Multicall \X (1..m)
        PROVE  Transfer(p[1], calls[p[2]]) \in Multicall
    <3>1. p[1] \in Multicall /\ calls[p[2]] \in Transfers
      OBVIOUS
    <3> QED BY <3>1, TransferType
  <2> QED BY <2>1
<1> HIDE DEF step, b
<1>3. PICK f \in [0..m -> Multicall] : Loop(b, m, step, f)
  <2> HIDE DEF m
  <2> QED BY <1>1, <1>2, LoopExists
<1>4. ASSUME NEW n \in 0..m
      PROVE  f[n] = IF n = 0 THEN b ELSE Transfer(f[n - 1], calls[n])
  <2>1. CASE n = 0
    BY <1>3, <2>1 DEF Loop
  <2>2. CASE n # 0
    <3>1. <<f[n - 1], n>> \in Multicall \X (1..m)
      BY <2>2
    <3>2. step[<<f[n - 1], n>>] = Transfer(f[n - 1], calls[n])
      BY <3>1 DEF step
    <3> QED BY <1>3, <2>2, <3>2 DEF Loop
  <2> QED BY <2>1, <2>2
<1>5. Follows(calls, f)
  BY <1>4 DEF Follows, b
<1> DEFINE g == CHOOSE after : Follows(calls, after)
<1>6. Follows(calls, g)
  BY <1>5
<1>7. Balances(calls) = IF g[Len(calls)].ok THEN g[Len(calls)].balance ELSE balance
  BY DEF Balances, Follows
<1> HIDE DEF g
<1>8. \A n \in 0..m : g[n] = IF n = 0 THEN b ELSE Transfer(g[n - 1], calls[n])
  BY <1>6 DEF Follows, b
<1>9. g = [n \in 0..m |-> g[n]]
  BY <1>6 DEF Follows
<1> DEFINE K == {n \in Nat : n <= m => g[n] \in Multicall}
<1>10. 0 \in K
  BY <1>1, <1>8
<1>11. ASSUME NEW n \in Nat, n \in K PROVE n + 1 \in K
  <2> SUFFICES ASSUME n + 1 <= m PROVE g[n + 1] \in Multicall
    OBVIOUS
  <2>1. n + 1 \in 1..m /\ n + 1 # 0 /\ (n + 1) - 1 = n /\ g[n] \in Multicall
    BY <1>11
  <2>2. g[n + 1] = Transfer(g[n], calls[n + 1])
    BY <1>8, <2>1
  <2>3. calls[n + 1] \in Transfers
    BY <2>1
  <2> QED BY <2>1, <2>2, <2>3, TransferType
<1> HIDE DEF K
<1>12. \A n \in Nat : n \in K
  BY <1>10, <1>11, NatSet
<1>13. g \in [0..m -> Multicall]
  BY <1>1, <1>9, <1>12 DEF K
<1>14. /\ g[0] = b
       /\ \A n \in 1..m : g[n] = Transfer(g[n - 1], calls[n])
  BY <1>1, <1>8
<1> QED BY <1>7, <1>13, <1>14 DEF b

\* Balances are natural, whatever multicall is included.
LEMMA BalancesType ==
  ASSUME balance \in Ledgers, NEW calls \in Seq(Transfers)
  PROVE  Balances(calls) \in Ledgers
<1>1. PICK after \in [0..Len(calls) -> Multicall] :
        Balances(calls) = IF after[Len(calls)].ok THEN after[Len(calls)].balance ELSE balance
  BY BalancesDef
<1>2. after[Len(calls)] \in Multicall
  OBVIOUS
<1> QED BY <1>1, <1>2 DEF Multicall

\* What the relayers have goes to the main account.
ToMain == {q \in Seq(Transfers) : \A k \in 1..Len(q) : q[k].to = Main}

Collects(upTo) ==
  upTo = [r \in 0..N |->
            IF r = 0 THEN <<>>
            ELSE IF balance[r] > 0
            THEN Append(upTo[r - 1], [from |-> r, to |-> Main, amount |-> balance[r]])
            ELSE upTo[r - 1]]

LEMMA CollectedType ==
  ASSUME balance \in Ledgers, NEW q \in ToMain, NEW r \in 1..N
  PROVE  Append(q, [from |-> r, to |-> Main, amount |-> balance[r]]) \in ToMain
<1> DEFINE t == [from |-> r, to |-> Main, amount |-> balance[r]]
           p == Append(q, t)
<1>1. r \in Account /\ Main \in Account /\ balance[r] \in Nat
  BY BoundsAssumption DEF Account, Main, Eoa, Ledgers
<1>2. t \in Transfers /\ t.to = Main
  BY <1>1 DEF Transfers
<1> HIDE DEF t
<1>3. q \in Seq(Transfers) /\ \A k \in 1..Len(q) : q[k].to = Main
  BY DEF ToMain
<1>4. /\ p \in Seq(Transfers) /\ Len(p) = Len(q) + 1 /\ p[Len(q) + 1] = t
      /\ \A k \in 1..Len(q) : p[k] = q[k]
  BY <1>2, <1>3
<1>5. ASSUME NEW k \in 1..Len(p) PROVE p[k].to = Main
  <2>1. k \in 1..Len(q) \/ k = Len(q) + 1
    BY <1>3, <1>4
  <2> QED BY <1>2, <1>3, <1>4, <2>1
<1> QED BY <1>4, <1>5 DEF ToMain, t

LEMMA WithdrawalsType ==
  ASSUME balance \in Ledgers
  PROVE  Withdrawals \in ToMain
<1> DEFINE collected(q, r) ==
             IF balance[r] > 0 THEN Append(q, [from |-> r, to |-> Main, amount |-> balance[r]])
             ELSE q
           step == [p \in ToMain \X (1..N) |-> collected(p[1], p[2])]
           b == <<>>
<1>1. b \in ToMain /\ N \in Nat
  BY BoundsAssumption DEF ToMain
<1>2. ASSUME NEW q \in ToMain, NEW r \in 1..N PROVE collected(q, r) \in ToMain
  BY CollectedType
<1> HIDE DEF collected
<1>3. step \in [ToMain \X (1..N) -> ToMain]
  <2>1. ASSUME NEW p \in ToMain \X (1..N) PROVE collected(p[1], p[2]) \in ToMain
    BY <1>2
  <2> QED BY <2>1
<1> HIDE DEF step, b
<1>4. PICK f \in [0..N -> ToMain] : Loop(b, N, step, f)
  BY <1>1, <1>3, LoopExists
<1>5. ASSUME NEW r \in 0..N PROVE f[r] = IF r = 0 THEN b ELSE collected(f[r - 1], r)
  <2>1. CASE r = 0
    BY <1>4, <2>1 DEF Loop
  <2>2. CASE r # 0
    <3>1. <<f[r - 1], r>> \in ToMain \X (1..N)
      BY <1>1, <2>2
    <3>2. step[<<f[r - 1], r>>] = collected(f[r - 1], r)
      BY <3>1 DEF step
    <3> QED BY <1>4, <2>2, <3>2 DEF Loop
  <2> QED BY <2>1, <2>2
<1>6. Collects(f)
  BY <1>5 DEF Collects, b, collected
<1> DEFINE g == CHOOSE upTo : Collects(upTo)
<1>7. Collects(g)
  BY <1>6
<1>8. Withdrawals = g[N]
  BY DEF Withdrawals, Collects
<1> HIDE DEF g
<1>9. \A r \in 0..N : g[r] = IF r = 0 THEN b ELSE collected(g[r - 1], r)
  BY <1>7 DEF Collects, b, collected
<1> DEFINE K == {r \in Nat : r <= N => g[r] \in ToMain}
<1>10. 0 \in K
  BY <1>1, <1>9
<1>11. ASSUME NEW r \in Nat, r \in K PROVE r + 1 \in K
  <2> SUFFICES ASSUME r + 1 <= N PROVE g[r + 1] \in ToMain
    OBVIOUS
  <2>1. r + 1 \in 1..N /\ r + 1 # 0 /\ (r + 1) - 1 = r /\ g[r] \in ToMain
    BY <1>1, <1>11
  <2>2. g[r + 1] = collected(g[r], r + 1)
    BY <1>9, <2>1
  <2> QED BY <1>2, <2>1, <2>2
<1> HIDE DEF K
<1>12. \A r \in Nat : r \in K
  BY <1>10, <1>11, NatSet
<1> QED BY <1>1, <1>8, <1>12 DEF K

-----------------------------------------------------------------------------
(* Types                                                                   *)

World == [funds : Nat, dust : SUBSET Nat, session : BOOLEAN, raises : BOOLEAN,
          late : BOOLEAN, failures : Nat, queued : Nat, failed : Nat]

Types ==
  /\ balance \in Ledgers
  /\ deployed \subseteq Account
  /\ allowed \subseteq Relayer
  /\ pending \subseteq Seq(Transfers)
  /\ pool \in BOOLEAN
  /\ queue \in Seq(Transfers)
  /\ world \in World

TInv == IInv /\ Types

\* The accounts of the model.
LEMMA Accounts ==
  /\ Main \in Account /\ Eoa \in Account
  /\ \A r \in Relayer : r \in Account /\ r # Main /\ r # Eoa
BY BoundsAssumption DEF Main, Eoa, Relayer, Account

LEMMA RaiseTypes ==
  ASSUME Types, Raise \/ Exit
  PROVE  queue' \in Seq(Transfers) /\ pool' \in BOOLEAN
<1>1. \/ queue' = queue /\ pool' = pool
      \/ queue' = <<>> /\ pool' = FALSE
  BY DEF Raise, Exit, memory
<1>2. queue \in Seq(Transfers) /\ pool \in BOOLEAN
  BY DEF Types
<1>3. <<>> \in Seq(Transfers)
  OBVIOUS
<1>4. CASE queue' = queue /\ pool' = pool
  BY <1>2, <1>4
<1>5. CASE queue' = <<>> /\ pool' = FALSE
  BY <1>3, <1>5
<1> QED BY <1>1, <1>4, <1>5

LEMMA WorldStep ==
  ASSUME Types, Fails \/ Works
  PROVE  world' \in World
BY DEF Types, Fails, Works, World

LEMMA ExecutesTypes ==
  ASSUME Types, NEW calls \in Seq(Transfers), Executes(calls)
  PROVE  /\ balance' \in Ledgers
         /\ pending' \subseteq Seq(Transfers)
         /\ world' \in World
BY BalancesType, WorldStep DEF Types, Executes

LEMMA FundAddressTypes ==
  ASSUME Types, NEW to \in Account, NEW amount \in Int, NEW next, FundAddress(to, amount, next)
  PROVE  Types'
<1> DEFINE required == amount - balance[to]
           t == [from |-> Main, to |-> to, amount |-> required]
<1>1. balance[to] \in Nat /\ required \in Int
  BY DEF Types, Ledgers
<1>2. CASE balance[Main] < required
  BY <1>2, RaiseTypes DEF FundAddress, Types
<1>3. CASE ~(balance[Main] < required) /\ required <= 0
  BY <1>3 DEF FundAddress, Types
<1>4. CASE ~(balance[Main] < required) /\ ~(required <= 0)
  <2>1. t \in Transfers
    BY <1>1, <1>4, Accounts DEF Transfers
  <2>2. Invoke(t) /\ UNCHANGED <<lazy, pool, deployed, allowed>>
    BY <1>4 DEF FundAddress
  <2> HIDE DEF t
  <2>3. CASE lazy
    BY <2>1, <2>2, <2>3 DEF Invoke, Types
  <2>4. CASE ~lazy
    <3>1. <<t>> \in Seq(Transfers) /\ Executes(<<t>>) /\ queue' = queue
      BY <2>1, <2>2, <2>4 DEF Invoke
    <3> QED BY <2>2, <3>1, ExecutesTypes DEF Types
  <2> QED BY <2>3, <2>4
<1> QED BY <1>2, <1>3, <1>4

LEMMA NextTypes ==
  ASSUME TInv, [Next]_vars
  PROVE  Types'
<1>1. Types /\ IInv /\ ProcType /\ proc.i \in Relayer
  BY DEF TInv, IInv, ProcType
<1>2. Amount \in Nat /\ Eth \in Nat /\ Amount * Eth \in Nat
  BY BoundsAssumption
<1>3. CASE FundRelayer
  BY <1>1, <1>2, <1>3, Accounts, FundAddressTypes DEF FundRelayer
<1>4. CASE DeployAndFundEvmAddress
  <2> DEFINE amount == (Amount - balance[Eoa]) * Eth
  <2>1. amount \in Int
    BY <1>1, <1>2, Accounts DEF Types, Ledgers
  <2>2. CASE FundAddress(Eoa, amount, [Idle EXCEPT !.step = "get"])
    <3> HIDE DEF amount
    <3> QED BY <1>1, <2>1, <2>2, Accounts, FundAddressTypes
  <2>3. CASE UNCHANGED <<network, memory, world>>
    BY <1>1, <2>3 DEF Types, network, memory
  <2> QED BY <1>4, <2>2, <2>3 DEF DeployAndFundEvmAddress
<1>5. CASE ExecuteCalls
  <2>1. CASE Raise /\ Fails /\ UNCHANGED <<balance, pending, deployed, allowed>>
    BY <1>1, <2>1, RaiseTypes, WorldStep DEF Types
  <2>2. CASE Executes(queue) /\ queue' = <<>> /\ pool' = pool /\ UNCHANGED <<deployed, allowed>>
    BY <1>1, <2>2, ExecutesTypes DEF Types
  <2> QED BY <1>5, <2>1, <2>2 DEF ExecuteCalls
<1>6. CASE DeployRelayer
  <2>1. /\ UNCHANGED <<balance, allowed, pending>>
        /\ Fails \/ Works
        /\ deployed' = deployed \/ deployed' = deployed \cup {proc.i}
        /\ Raise \/ UNCHANGED memory
    BY <1>6 DEF DeployRelayer, Works
  <2> QED BY <1>1, <2>1, Accounts, RaiseTypes, WorldStep DEF Types, memory
<1>7. CASE ApproveMain
  <2>1. CASE Raise /\ UNCHANGED <<balance, deployed, pending, allowed, world>>
    BY <1>1, <2>1, RaiseTypes DEF Types
  <2>2. CASE /\ UNCHANGED <<balance, deployed, pending, queue>>
             /\ allowed' = allowed \/ allowed' = allowed \cup {proc.i}
             /\ pool' = pool \/ pool' = TRUE
             /\ Fails \/ Works
    BY <1>1, <2>2, WorldStep DEF Types
  <2> QED BY <1>7, <2>1, <2>2 DEF ApproveMain
<1>8. CASE Get \/ GetRelayer
  BY <1>1, <1>8 DEF Get, GetRelayer, StartCreate, Types, network, memory
<1>9. CASE DeployEoa
  BY <1>1, <1>9, Accounts, WorldStep DEF DeployEoa, Types, memory
<1>10. CASE WithdrawAll
  <2>1. Withdrawals \in Seq(Transfers)
    BY <1>1, WithdrawalsType DEF Types, ToMain
  <2>2. queue' = queue \o Withdrawals
    BY <1>10 DEF WithdrawAll
  <2>3. queue' \in Seq(Transfers)
    BY <1>1, <2>1, <2>2 DEF Types
  <2> QED BY <1>1, <1>10, <2>3 DEF WithdrawAll, Types, network
<1>11. CASE Return
  BY <1>1, <1>11 DEF Return, Types, network, memory
<1>12. CASE End \/ Kill \/ RequestRaises
  BY <1>1, <1>12, RaiseTypes, WorldStep DEF End, Kill, RequestRaises, Types, network
<1>13. CASE Includes
  BY <1>1, <1>13, BalancesType DEF Includes, Types, memory
<1>14. CASE UNCHANGED vars
  BY <1>1, <1>14 DEF vars, Types, network, memory
<1> QED BY <1>3, <1>4, <1>5, <1>6, <1>7, <1>8, <1>9, <1>10, <1>11, <1>12, <1>13, <1>14
     DEF Next, Continue

LEMMA InitTypes == Init => Types
<1> SUFFICES ASSUME Init PROVE Types
  OBVIOUS
<1>1. PICK w \in Worlds :
        world = [funds |-> w.funds, dust |-> w.dust, session |-> w.session,
                 raises |-> w.raises, late |-> w.late, failures |-> w.failures, queued |-> w.queued,
                 failed |-> 0]
  BY DEF Init
<1>2. w \in [funds : Nat, dust : SUBSET Nat, session : BOOLEAN, raises : BOOLEAN,
             late : BOOLEAN, failures : Nat, queued : Nat]
  BY BoundsAssumption
<1>3. world \in World
  BY <1>1, <1>2 DEF World
<1>4. PICK dust \in [Account \ {Main} -> world.dust] :
        balance = [a \in Account |-> IF a = Main THEN world.funds ELSE dust[a]]
  BY DEF Init
<1>5. balance \in Ledgers
  <2>1. world.funds \in Nat /\ world.dust \subseteq Nat
    BY <1>3 DEF World
  <2>2. \A a \in Account : a # Main => dust[a] \in Nat
    BY <1>4, <2>1
  <2> QED BY <1>4, <2>1, <2>2 DEF Ledgers
<1>6. <<>> \in Seq(Transfers)
  OBVIOUS
<1>7. queue = <<>> /\ pool = FALSE /\ pending = {} /\ allowed = {} /\ deployed = {Main}
  BY DEF Init
<1> QED BY <1>3, <1>5, <1>6, <1>7, Accounts DEF Types

\* Balances, multicalls and queues have their types in every state: a transfer never
\* takes more than there is, and no request asks for less than nothing.
THEOREM TypeCorrect == Spec => []TypeOK
<1>1. Init => TInv
  BY InitInvariant, InitTypes DEF TInv
<1>2. TInv /\ [Next]_vars => TInv'
  BY NextInvariant, NextTypes DEF TInv
<1>3. TInv => TypeOK
  BY DEF TInv, IInv, ProcType, Types, TypeOK, Ledgers
<1> QED BY <1>1, <1>2, <1>3, PTL DEF Spec

-----------------------------------------------------------------------------
(* No relayer gets more than the amount                                     *)

\* A node that answers in time, and a memory that an exception leaves in order.
Prompt == ~world.late /\ ~KeepsQueue

Full == Amount * Eth

\* Every relayer is paid once, and no more than it lacks.
Sparing(calls) ==
  \A k \in 1..Len(calls) : calls[k].to \in Relayer =>
    /\ balance[calls[k].to] + calls[k].amount <= Full
    /\ \A j \in 1..(k - 1) : calls[j].to # calls[k].to

Clean == ~lazy /\ queue = <<>>

\* The main account lacks what a relayer from i on is to get.
ShortFrom(i) == \E r \in Relayer : r >= i /\ balance[Main] < Full - balance[r]

\* A session whose funding raised.  It is never sent: while the account is lazy no
\* balance moves, so the next creation raises too.
Stuck == world.session /\ lazy /\ ~pool /\ ShortFrom(1)

Funding ==
  /\ lazy /\ ~pool
  /\ \/ /\ ~proc.isLazy
        /\ Sparing(queue)
        /\ \A k \in 1..Len(queue) : queue[k].to < proc.i
     \/ world.session /\ ShortFrom(proc.i)

Phase ==
  /\ proc.step \in {"idle", "get", "done"} => Clean \/ Stuck
  /\ proc.step \in {"deploy", "approve", "eoa"} => Clean
  /\ proc.step = "fund" => Funding
  /\ proc.step \in {"flush", "flush withdrawal"} => ~proc.isLazy /\ Sparing(queue)

BInv ==
  /\ pending = {}
  /\ \A r \in Relayer : balance[r] <= Full
  /\ Phase

\* What a world is stays, but for the failures so far.
LEMMA WorldStays ==
  ASSUME Types, Fails \/ Works
  PROVE  /\ world'.late = world.late
         /\ world'.session = world.session
         /\ world'.raises = world.raises
         /\ world'.funds = world.funds
         /\ world'.failures = world.failures
         /\ world'.failed >= world.failed
         /\ world.failed <= world.failures => world'.failed <= world'.failures
<1>1. world.failed \in Nat /\ world.failures \in Nat
  BY DEF Types, World
<1> QED BY <1>1 DEF Types, Fails, Works, World

LEMMA NextWorld ==
  ASSUME [Next]_vars
  PROVE  Works \/ Fails
<1>1. world' = world \/ Fails
  <2>1. CASE FundRelayer \/ DeployAndFundEvmAddress
    BY <2>1 DEF FundRelayer, DeployAndFundEvmAddress, FundAddress, Invoke, Executes, Works
  <2>2. CASE ExecuteCalls \/ DeployRelayer \/ ApproveMain
    BY <2>2 DEF ExecuteCalls, DeployRelayer, ApproveMain, Executes, Works
  <2>3. CASE GetRelayer \/ DeployEoa \/ Return \/ Get
    BY <2>3 DEF GetRelayer, DeployEoa, Return, Get, StartCreate, Works
  <2>4. CASE WithdrawAll \/ End \/ Kill \/ RequestRaises \/ Includes \/ UNCHANGED vars
    BY <2>4 DEF WithdrawAll, End, Kill, RequestRaises, Includes, vars
  <2> QED BY <2>1, <2>2, <2>3, <2>4 DEF Next, Continue
<1> QED BY <1>1 DEF Works

LEMMA PromptStays ==
  ASSUME Types, [Next]_vars
  PROVE  Prompt' = Prompt
BY NextWorld, WorldStays DEF Prompt, KeepsQueue

LEMMA FullType == Full \in Nat
BY BoundsAssumption DEF Full

\* An account that a multicall pays at most once has no more than the payment brings it to.
LEMMA PaidOnce ==
  ASSUME Types, NEW calls \in Seq(Transfers), NEW a \in Account, NEW most \in Int,
         balance[a] <= most,
         \A k \in 1..Len(calls) : calls[k].to = a =>
           /\ balance[a] + calls[k].amount <= most
           /\ \A j \in 1..(k - 1) : calls[j].to # a
  PROVE  Balances(calls)[a] <= most
<1> DEFINE m == Len(calls)
<1>1. /\ m \in Nat
      /\ \A n \in 1..m : calls[n] \in Transfers
      /\ balance \in Ledgers
  BY DEF Types
<1>2. PICK after \in [0..m -> Multicall] :
        /\ after[0] = [ok |-> TRUE, balance |-> balance]
        /\ \A n \in 1..m : after[n] = Transfer(after[n - 1], calls[n])
        /\ Balances(calls) = IF after[m].ok THEN after[m].balance ELSE balance
  BY <1>1, BalancesDef
<1>3. after[0].balance = balance
  BY <1>2
<1> DEFINE Held(n) == /\ after[n].balance[a] <= most
                      /\ (\A k \in 1..n : calls[k].to # a) => after[n].balance[a] <= balance[a]
           P == {n \in Nat : n <= m => Held(n)}
<1>4. 0 \in P
  <2>1. balance[a] <= balance[a]
    BY <1>1 DEF Ledgers
  <2> QED BY <1>3, <2>1
<1>5. ASSUME NEW n \in Nat, n \in P PROVE n + 1 \in P
  <2> SUFFICES ASSUME n + 1 <= m PROVE Held(n + 1)
    OBVIOUS
  <2> DEFINE s == after[n]
             t == calls[n + 1]
             z == after[n + 1]
  <2>1. /\ n + 1 \in 1..m /\ (n + 1) - 1 = n /\ n \in 0..m /\ n + 1 \in 0..m
        /\ s \in Multicall /\ t \in Transfers /\ z \in Multicall
        /\ z = Transfer(s, t)
    BY SMTT(30), <1>1, <1>2
  <2>2. /\ s.balance[a] \in Nat /\ z.balance[a] \in Nat /\ balance[a] \in Nat
        /\ t.amount \in Nat
    BY <1>1, <2>1 DEF Multicall, Ledgers, Transfers
  <2>3. s.balance[a] <= most /\ ((\A k \in 1..n : calls[k].to # a) => s.balance[a] <= balance[a])
    <3>1. Held(n)
      <4> HIDE DEF Held
      <4> QED BY <1>5, <2>1
    <3> QED BY <3>1
  <2>4. CASE t.to # a
    <3>1. z.balance[a] <= s.balance[a]
      BY <2>1, <2>4, TransferType
    <3>2. (\A k \in 1..(n + 1) : calls[k].to # a) => \A k \in 1..n : calls[k].to # a
      OBVIOUS
    <3> HIDE DEF s, t, z
    <3>3. z.balance[a] <= most
      BY <2>2, <2>3, <3>1
    <3>4. ASSUME \A k \in 1..(n + 1) : calls[k].to # a PROVE z.balance[a] <= balance[a]
      BY <2>2, <2>3, <3>1, <3>2, <3>4
    <3> QED BY <3>3, <3>4 DEF z
  <2>5. CASE t.to = a
    <3>1. z.balance[a] <= s.balance[a] + t.amount
      BY <2>1, <2>5, TransferType
    <3>2. balance[a] + t.amount <= most /\ \A k \in 1..n : calls[k].to # a
      BY <2>1, <2>5
    <3>3. s.balance[a] <= balance[a]
      BY <2>3, <3>2
    <3>4. ~(\A k \in 1..(n + 1) : calls[k].to # a)
      BY <2>5
    <3> HIDE DEF s, t, z
    <3>5. z.balance[a] <= most
      BY <2>2, <3>1, <3>2, <3>3
    <3> QED BY <3>4, <3>5 DEF z
  <2> QED BY <2>4, <2>5
<1> HIDE DEF P
<1>6. m \in P
  BY <1>1, <1>4, <1>5, NatSet
<1>7. after[m].balance[a] <= most
  BY <1>1, <1>6 DEF P
<1> QED BY <1>2, <1>7

\* A multicall that pays each relayer once, and no more than it lacks.
LEMMA SparingKeeps ==
  ASSUME Types, NEW calls \in Seq(Transfers), Sparing(calls),
         \A r \in Relayer : balance[r] <= Full
  PROVE  \A r \in Relayer : Balances(calls)[r] <= Full
<1> TAKE r \in Relayer
<1>1. r \in Account /\ Full \in Int /\ balance[r] <= Full
  BY Accounts, FullType
<1>2. \A k \in 1..Len(calls) : calls[k].to = r =>
        /\ balance[r] + calls[k].amount <= Full
        /\ \A j \in 1..(k - 1) : calls[j].to # r
  BY DEF Sparing
<1> QED BY <1>1, <1>2, PaidOnce

LEMMA ExecutesSparing ==
  ASSUME Types, Prompt, BInv, NEW calls \in Seq(Transfers), Sparing(calls), Executes(calls)
  PROVE  pending' = {} /\ \A r \in Relayer : balance'[r] <= Full
<1>1. pending = {} /\ \A r \in Relayer : balance[r] <= Full
  BY DEF BInv
<1>2. \A r \in Relayer : Balances(calls)[r] <= Full
  BY <1>1, SparingKeeps
<1>3. pending' = {} /\ (balance' = balance \/ balance' = Balances(calls))
  BY <1>1 DEF Executes, Prompt
<1> QED BY <1>1, <1>2, <1>3

\* Transfers to other accounts pay no relayer.
LEMMA OthersSparing ==
  ASSUME NEW calls, \A k \in 1..Len(calls) : calls[k].to \notin Relayer
  PROVE  Sparing(calls)
BY DEF Sparing

LEMMA BalanceNat == Types => \A a \in Account : balance[a] \in Nat
BY DEF Types, Ledgers

\* The four outcomes of fund_address.
FundResult(to, amount, next, t) ==
  \/ /\ balance[Main] < amount - balance[to]
     /\ Raise
     /\ UNCHANGED <<balance, pending, world>>
  \/ /\ balance[Main] >= amount - balance[to]
     /\ proc' = next
     /\ UNCHANGED <<lazy, pool>>
     /\ \/ UNCHANGED <<queue, balance, pending, world>>
        \/ t \in Transfers /\ lazy /\ queue' = Append(queue, t) /\ UNCHANGED <<balance, pending, world>>
        \/ t \in Transfers /\ ~lazy /\ queue' = queue /\ Executes(<<t>>)

LEMMA FundOutcome ==
  ASSUME Types, NEW to \in Account, NEW amount \in Int, NEW next, FundAddress(to, amount, next)
  PROVE  FundResult(to, amount, next, [from |-> Main, to |-> to, amount |-> amount - balance[to]])
<1> DEFINE required == amount - balance[to]
           t == [from |-> Main, to |-> to, amount |-> required]
<1>1. balance[to] \in Nat /\ balance[Main] \in Nat /\ required \in Int
  BY Accounts DEF Types, Ledgers
<1>2. required > 0 => t \in Transfers
  BY <1>1, Accounts DEF Transfers
<1> HIDE DEF t
<1>3. \/ balance[Main] < required /\ Raise /\ UNCHANGED <<balance, pending, world>>
      \/ /\ ~(balance[Main] < required)
         /\ proc' = next
         /\ UNCHANGED <<lazy, pool>>
         /\ \/ required <= 0 /\ UNCHANGED <<queue, balance, pending, world>>
            \/ ~(required <= 0) /\ Invoke(t)
  BY DEF FundAddress, t
<1>4. Invoke(t) => \/ lazy /\ queue' = Append(queue, t) /\ UNCHANGED <<balance, pending, world>>
                   \/ ~lazy /\ queue' = queue /\ Executes(<<t>>)
  BY DEF Invoke
<1>5. ~(required <= 0) => required > 0
  BY <1>1
<1>6. ~(balance[Main] < required) => balance[Main] >= required
  BY <1>1
<1> HIDE DEF required
<1>7. FundResult(to, amount, next, t)
  BY <1>2, <1>3, <1>4, <1>5, <1>6 DEF FundResult, required
<1> QED BY <1>7 DEF t, required

\* What fund_address and execute_calls leave is in the shares below; a step that moves
\* no balance keeps what depends on balances.
LEMMA SameBalances ==
  ASSUME balance' = balance
  PROVE  /\ \A i : ShortFrom(i)' <=> ShortFrom(i)
         /\ \A q : Sparing(q)' <=> Sparing(q)
BY DEF ShortFrom, Sparing

\* The memory is in order in every step but those that send or collect transfers.
LEMMA CleanStep ==
  ASSUME BInv, Clean', pending' = {}, \A r \in Relayer : balance'[r] <= Full,
         proc'.step \in {"idle", "get", "done", "deploy", "approve", "eoa"}
  PROVE  BInv'
BY DEF BInv, Phase

\* An exception: the memory stays in a session and is gone in a script.
LEMMA RaiseTidy ==
  ASSUME Clean, Raise \/ Exit
  PROVE  Clean' /\ proc'.step = "idle"
BY IdleType DEF Clean, Raise, Exit, memory

LEMMA RaiseClean ==
  ASSUME BInv, Clean, Raise \/ Exit, UNCHANGED <<balance, pending>>
  PROVE  BInv'
BY RaiseTidy, CleanStep DEF BInv

\* What funding a relayer does while the account is lazy.
Topped(i) == [from |-> Main, to |-> i, amount |-> Full - balance[i]]

LEMMA FundRelayerOutcome ==
  ASSUME TInv, FundRelayer, lazy
  PROVE  \/ /\ balance[Main] < Full - balance[proc.i]
            /\ Raise
            /\ UNCHANGED <<balance, pending, world>>
         \/ /\ balance[Main] >= Full - balance[proc.i]
            /\ proc' = NextOr("flush")
            /\ UNCHANGED <<lazy, pool, balance, pending, world>>
            /\ \/ queue' = queue
               \/ Topped(proc.i) \in Transfers /\ queue' = Append(queue, Topped(proc.i))
<1> DEFINE i == proc.i
           t == Topped(i)
           next == NextOr("flush")
<1>1. /\ Types /\ i \in Account
      /\ FundAddress(i, Full, next)
      /\ Full \in Int
  BY FullType, Accounts DEF TInv, IInv, ProcType, FundRelayer, Full
<1> HIDE DEF next
<1>2. FundResult(i, Full, next, t)
  BY <1>1, FundOutcome DEF Topped
<1> HIDE DEF t, i
<1>3. CASE balance[Main] < Full - balance[i] /\ Raise /\ UNCHANGED <<balance, pending, world>>
  BY <1>3 DEF i
<1>4. CASE /\ balance[Main] >= Full - balance[i]
           /\ proc' = next
           /\ UNCHANGED <<lazy, pool>>
           /\ UNCHANGED <<queue, balance, pending, world>>
  BY <1>4 DEF i, next
<1>5. CASE /\ balance[Main] >= Full - balance[i]
           /\ proc' = next
           /\ UNCHANGED <<lazy, pool>>
           /\ t \in Transfers /\ lazy /\ queue' = Append(queue, t)
           /\ UNCHANGED <<balance, pending, world>>
  BY <1>5 DEF i, next, t
<1> QED BY <1>2, <1>3, <1>4, <1>5 DEF FundResult

LEMMA FundRelayerLow ==
  ASSUME TInv, Prompt, BInv, FundRelayer
  PROVE  BInv'
<1> DEFINE i == proc.i
           t == [from |-> Main, to |-> i, amount |-> Full - balance[i]]
           next == NextOr("flush")
<1>1. /\ Types /\ ProcType /\ i \in Relayer /\ i \in Account
      /\ proc.step = "fund"
      /\ FundAddress(i, Full, next)
      /\ Full \in Int
  BY FullType, Accounts DEF TInv, IInv, ProcType, FundRelayer, Full
<1>2. /\ balance \in Ledgers
      /\ balance[i] \in Nat /\ balance[Main] \in Nat
      /\ queue \in Seq(Transfers)
      /\ i \in 1..N /\ N \in Nat
  BY <1>1, Accounts, BoundsAssumption DEF Types, Ledgers, Relayer
<1>3. Funding /\ pending = {} /\ \A r \in Relayer : balance[r] <= Full
  BY <1>1 DEF BInv, Phase
<1>4. \/ balance[Main] < Full - balance[i] /\ Raise /\ UNCHANGED <<balance, pending, world>>
      \/ /\ balance[Main] >= Full - balance[i]
         /\ proc' = next
         /\ UNCHANGED <<lazy, pool, balance, pending, world>>
         /\ queue' = queue \/ (t \in Transfers /\ queue' = Append(queue, t))
  BY <1>3, FundRelayerOutcome DEF Funding, Topped
<1>5. CASE balance[Main] < Full - balance[i] /\ Raise /\ UNCHANGED <<balance, pending, world>>
  <2>1. ShortFrom(1)
    BY <1>1, <1>2, <1>5 DEF ShortFrom
  <2>2. CASE world.session
    <3>1. proc' = Idle /\ UNCHANGED memory
      BY <1>5, <2>2 DEF Raise
    <3>2. proc'.step = "idle"
      BY <3>1, IdleType
    <3>3. Stuck'
      BY <1>3, <1>5, <2>1, <2>2, <3>1, SameBalances DEF Stuck, Funding, memory
    <3> QED BY <1>3, <1>5, <3>2, <3>3 DEF BInv, Phase
  <2>3. CASE ~world.session
    <3>1. Exit
      BY <1>5, <2>3 DEF Raise
    <3>2. Clean' /\ proc'.step = "idle"
      BY <3>1, IdleType DEF Exit, Clean
    <3> QED BY <1>3, <1>5, <3>2, CleanStep
  <2> QED BY <2>2, <2>3
<1>6. CASE /\ balance[Main] >= Full - balance[i]
           /\ proc' = next
           /\ UNCHANGED <<lazy, pool, balance, pending, world>>
           /\ queue' = queue \/ (t \in Transfers /\ queue' = Append(queue, t))
  <2>1. /\ next.isLazy = proc.isLazy
        /\ \/ i = N /\ next.step = "flush"
           \/ i < N /\ next.step = "fund" /\ next.i = i + 1
    BY <1>1, <1>2 DEF NextOr, Goto, ProcType
  <2> HIDE DEF next
  <2>2. CASE world.session /\ ShortFrom(i)
    <3>1. PICK r \in Relayer : r >= i /\ balance[Main] < Full - balance[r]
      BY <2>2 DEF ShortFrom
    <3>2. r # i
      BY <1>2, <1>6, <3>1, FullType
    <3>3. r \in 1..N /\ r >= i + 1 /\ i < N
      BY <1>2, <3>1, <3>2 DEF Relayer
    <3>4. ShortFrom(i + 1)
      BY <3>1, <3>3 DEF ShortFrom
    <3>5. next.step = "fund" /\ next.i = i + 1
      BY <1>2, <2>1, <3>3
    <3>6. Funding'
      BY <1>3, <1>6, <2>2, <3>4, <3>5, SameBalances DEF Funding
    <3> QED BY <1>3, <1>6, <3>5, <3>6 DEF BInv, Phase
  <2>3. CASE /\ ~proc.isLazy
             /\ Sparing(queue)
             /\ \A k \in 1..Len(queue) : queue[k].to < i
    <3>1. Sparing(queue') /\ \A k \in 1..Len(queue') : queue'[k].to < i + 1
      <4>1. CASE queue' = queue
        <5>1. \A k \in 1..Len(queue) : queue[k] \in Transfers
          BY <1>2
        <5>2. \A k \in 1..Len(queue) : queue[k].to \in Int
          BY <5>1, BoundsAssumption DEF Transfers, Account, Main, Eoa
        <5> QED BY <1>2, <2>3, <4>1, <5>2
      <4>2. CASE t \in Transfers /\ queue' = Append(queue, t)
        <5> DEFINE p == Append(queue, t)
                   m == Len(queue)
        <5>1. t.to = i /\ t.amount = Full - balance[i]
          OBVIOUS
        <5> HIDE DEF t
        <5>2. /\ Len(p) = m + 1 /\ m \in Nat /\ p[m + 1] = t
              /\ \A k \in 1..m : p[k] = queue[k] /\ queue[k] \in Transfers
          BY <1>2, <4>2
        <5>3. \A k \in 1..m : queue[k].to \in Int /\ queue[k].to # i
          BY SMTT(60), <1>2, <2>3, <5>2, BoundsAssumption DEF Transfers, Account, Main, Eoa
        <5> HIDE DEF p, m
        <5>4. ASSUME NEW k \in 1..Len(p)
              PROVE  /\ p[k].to < i + 1
                     /\ p[k].to \in Relayer =>
                          /\ balance[p[k].to] + p[k].amount <= Full
                          /\ \A j \in 1..(k - 1) : p[j].to # p[k].to
          <6>1. CASE k \in 1..m
            <7>1. p[k] = queue[k] /\ \A j \in 1..(k - 1) : p[j] = queue[j]
              BY <5>2, <6>1
            <7>2. queue[k].to < i + 1
              BY <1>2, <2>3, <5>3, <6>1 DEF m
            <7>3. queue[k].to \in Relayer =>
                    /\ balance[queue[k].to] + queue[k].amount <= Full
                    /\ \A j \in 1..(k - 1) : queue[j].to # queue[k].to
              BY <2>3, <6>1 DEF Sparing, m
            <7> QED BY <7>1, <7>2, <7>3
          <6>2. CASE k = m + 1
            <7>1. p[k].to = i /\ p[k].amount = Full - balance[i]
              BY <5>1, <5>2, <6>2
            <7>2. i < i + 1 /\ balance[i] + (Full - balance[i]) <= Full
              BY SMTT(30), <1>2, FullType
            <7>3. \A j \in 1..(k - 1) : p[j].to # i
              BY <5>2, <5>3, <6>2
            <7> QED BY <7>1, <7>2, <7>3
          <6> QED BY <5>2, <6>1, <6>2
        <5>5. queue' = p
          BY <4>2 DEF p
        <5> QED BY <5>4, <5>5 DEF Sparing
      <4> QED BY <1>6, <4>1, <4>2
    <3>2. Sparing(queue)'
      BY <1>6, <3>1, SameBalances DEF Sparing
    <3>3. CASE next.step = "flush"
      BY <1>3, <1>6, <2>1, <2>3, <3>2, <3>3 DEF BInv, Phase
    <3>4. CASE next.step = "fund" /\ next.i = i + 1
      <4>1. Funding'
        BY <1>3, <1>6, <2>1, <2>3, <3>1, <3>2, <3>4 DEF Funding
      <4> QED BY <1>3, <1>6, <3>4, <4>1 DEF BInv, Phase
    <3> QED BY <2>1, <3>3, <3>4
  <2> QED BY <1>3, <2>2, <2>3 DEF Funding
<1> QED BY <1>4, <1>5, <1>6

LEMMA ExecuteCallsLow ==
  ASSUME TInv, Prompt, BInv, ExecuteCalls
  PROVE  BInv'
<1>1. /\ Types /\ ProcType /\ queue \in Seq(Transfers)
      /\ proc.step \in {"flush", "flush withdrawal"}
      /\ ~proc.isLazy
      /\ Sparing(queue)
  BY DEF TInv, IInv, Types, ExecuteCalls, BInv, Phase
<1>2. CASE world.raises /\ Raise /\ UNCHANGED <<balance, pending>>
  <2>1. Exit
    BY <1>2 DEF Raise, Prompt, KeepsQueue
  <2>2. Clean' /\ proc'.step = "idle"
    BY <2>1, IdleType DEF Exit, Clean
  <2> QED BY <1>2, <2>2, CleanStep DEF BInv
<1>3. CASE /\ Executes(queue)
           /\ queue' = <<>>
           /\ lazy' = proc.isLazy
           /\ proc' = Goto("deploy") \/ proc' = Idle
  <2>1. pending' = {} /\ \A r \in Relayer : balance'[r] <= Full
    BY <1>1, <1>3, ExecutesSparing
  <2>2. "deploy" \in Step
    BY DEF Step
  <2>3. proc'.step \in {"deploy", "idle"}
    <3>1. CASE proc' = Goto("deploy")
      BY <1>1, <2>2, <3>1, GotoType
    <3>2. CASE proc' = Idle
      BY <3>2, IdleType
    <3> QED BY <1>3, <3>1, <3>2
  <2>4. Clean'
    BY <1>1, <1>3 DEF Clean
  <2> QED BY <2>1, <2>3, <2>4, CleanStep
<1> QED BY <1>2, <1>3 DEF ExecuteCalls

LEMMA LoopOutcome ==
  ASSUME TInv, DeployRelayer \/ ApproveMain
  PROVE  /\ UNCHANGED <<balance, pending>>
         /\ proc.step \in {"deploy", "approve"}
         /\ \/ Raise
            \/ UNCHANGED <<lazy, queue>> /\ proc'.step \in {"idle", "deploy", "approve", "eoa"}
<1>1. /\ ProcType /\ proc.step \in {"deploy", "approve"}
      /\ UNCHANGED <<balance, pending>>
  BY DEF TInv, IInv, DeployRelayer, ApproveMain
<1>2. CASE ~Raise
  <2>1. /\ UNCHANGED <<lazy, queue>>
        /\ \/ proc' = NextOr("approve")
           \/ proc' = [proc EXCEPT !.tried = TRUE]
           \/ proc' = [proc EXCEPT !.i = @ + 1]
           \/ proc' = Goto("eoa")
           \/ proc' = Idle
    BY <1>2 DEF DeployRelayer, ApproveMain, memory
  <2>2. "approve" \in Step /\ "eoa" \in Step
    BY DEF Step
  <2>3. NextOr("approve").step \in {"deploy", "approve"}
    BY <1>1, <2>2, NextOrType
  <2>4. Goto("eoa").step = "eoa"
    BY <1>1, <2>2, GotoType
  <2>5. /\ [proc EXCEPT !.tried = TRUE].step = proc.step
        /\ [proc EXCEPT !.i = @ + 1].step = proc.step
    BY <1>1 DEF ProcType
  <2> QED BY <1>1, <2>1, <2>3, <2>4, <2>5, IdleType
<1> QED BY <1>1, <1>2

LEMMA LoopsLow ==
  ASSUME TInv, BInv, DeployRelayer \/ ApproveMain
  PROVE  BInv'
<1>1. /\ UNCHANGED <<balance, pending>>
      /\ proc.step \in {"deploy", "approve"}
      /\ \/ Raise
         \/ UNCHANGED <<lazy, queue>> /\ proc'.step \in {"idle", "deploy", "approve", "eoa"}
  BY LoopOutcome
<1>2. Clean
  BY <1>1 DEF BInv, Phase
<1>3. CASE Raise
  BY <1>1, <1>2, <1>3, RaiseClean
<1>4. CASE UNCHANGED <<lazy, queue>> /\ proc'.step \in {"idle", "deploy", "approve", "eoa"}
  <2>1. Clean'
    BY <1>2, <1>4 DEF Clean
  <2> QED BY <1>1, <1>4, <2>1, CleanStep DEF BInv
<1> QED BY <1>1, <1>3, <1>4

LEMMA StartCreateLow ==
  ASSUME TInv, BInv, Clean \/ Stuck, ~pool, NEW next, StartCreate(next)
  PROVE  BInv'
<1>1. /\ proc' = [Idle EXCEPT !.step = "fund", !.isLazy = lazy, !.then = next]
      /\ lazy' = TRUE
      /\ UNCHANGED <<balance, pending, queue, pool, world>>
  BY DEF StartCreate, network
<1>2. proc'.step = "fund" /\ proc'.isLazy = lazy /\ proc'.i = 1
  BY <1>1 DEF Idle
<1>3. Funding'
  <2>1. CASE Clean
    <3>1. ~proc'.isLazy /\ queue' = <<>>
      BY <1>1, <1>2, <2>1 DEF Clean
    <3>2. Sparing(queue)' /\ \A k \in 1..Len(queue') : queue'[k].to < proc'.i
      BY <3>1 DEF Sparing
    <3> QED BY <1>1, <3>1, <3>2 DEF Funding
  <2>2. CASE Stuck
    BY <1>1, <1>2, <2>2, SameBalances DEF Stuck, Funding
  <2> QED BY <2>1, <2>2
<1> QED BY <1>1, <1>2, <1>3 DEF BInv, Phase

LEMMA WithdrawAllLow ==
  ASSUME TInv, BInv, WithdrawAll
  PROVE  BInv'
<1>1. /\ Clean
      /\ proc' = [Idle EXCEPT !.step = "flush withdrawal", !.isLazy = lazy]
      /\ queue' = queue \o Withdrawals
      /\ UNCHANGED <<balance, pending>>
  BY DEF BInv, Phase, Stuck, WithdrawAll, network
<1>2. proc'.step = "flush withdrawal" /\ ~proc'.isLazy
  BY <1>1 DEF Idle, Clean
<1>3. Withdrawals \in ToMain
  BY WithdrawalsType DEF TInv, Types
<1>4. queue' = Withdrawals
  BY <1>1, <1>3 DEF Clean, ToMain
<1>5. \A k \in 1..Len(queue') : queue'[k].to \notin Relayer
  BY <1>3, <1>4, Accounts DEF ToMain
<1>6. Sparing(queue)'
  BY <1>5 DEF Sparing
<1> QED BY <1>1, <1>2, <1>6 DEF BInv, Phase

LEMMA FundEoaLow ==
  ASSUME TInv, Prompt, BInv, DeployAndFundEvmAddress
  PROVE  BInv'
<1> DEFINE next == [Idle EXCEPT !.step = "get"]
           amount == (Amount - balance[Eoa]) * Eth
           t == [from |-> Main, to |-> Eoa, amount |-> amount - balance[Eoa]]
<1>1. /\ Types /\ proc.step = "idle" /\ (Clean \/ Stuck)
      /\ pending = {} /\ \A r \in Relayer : balance[r] <= Full
  BY DEF TInv, BInv, Phase, DeployAndFundEvmAddress
<1>2. next.step = "get"
  BY IdleType DEF Idle
<1>3. CASE proc' = next /\ UNCHANGED <<network, memory, world>>
  <2>1. (Clean \/ Stuck)' /\ UNCHANGED <<balance, pending>>
    BY <1>1, <1>3, SameBalances DEF Clean, Stuck, network, memory
  <2> QED BY <1>1, <1>2, <1>3, <2>1 DEF BInv, Phase
<1>4. CASE FundAddress(Eoa, amount, next)
  <2>1. amount \in Int
    <3>1. balance[Eoa] \in Nat
      BY <1>1, BalanceNat, Accounts
    <3> QED BY <3>1, BoundsAssumption
  <2> HIDE DEF next, amount
  <2>2. \/ Raise /\ UNCHANGED <<balance, pending, world>>
        \/ /\ proc' = next
           /\ UNCHANGED <<lazy, pool>>
           /\ \/ UNCHANGED <<queue, balance, pending, world>>
              \/ lazy /\ queue' = Append(queue, t) /\ UNCHANGED <<balance, pending, world>>
              \/ t \in Transfers /\ ~lazy /\ queue' = queue /\ Executes(<<t>>)
    <3>1. FundResult(Eoa, amount, next, t)
      BY <1>1, <1>4, <2>1, Accounts, FundOutcome
    <3> HIDE DEF t
    <3> QED BY <3>1 DEF FundResult
  <2>3. CASE Raise /\ UNCHANGED <<balance, pending, world>>
    <3>1. CASE Clean
      BY <2>3, <3>1, RaiseClean
    <3>2. CASE Stuck
      <4>1. proc' = Idle /\ UNCHANGED memory
        BY <2>3, <3>2 DEF Raise, Stuck
      <4>2. Stuck' /\ proc'.step = "idle"
        BY <2>3, <3>2, <4>1, IdleType, SameBalances DEF Stuck, memory
      <4> QED BY <1>1, <2>3, <4>2 DEF BInv, Phase
    <3> QED BY <1>1, <3>1, <3>2
  <2>4. CASE proc' = next /\ UNCHANGED <<lazy, pool, queue, balance, pending, world>>
    <3>1. (Clean \/ Stuck)'
      BY <1>1, <2>4, SameBalances DEF Clean, Stuck
    <3> QED BY <1>1, <1>2, <2>4, <3>1 DEF BInv, Phase
  <2>5. CASE proc' = next /\ lazy /\ UNCHANGED <<lazy, pool, balance, pending, world>>
    <3>1. Stuck'
      BY <1>1, <2>5, SameBalances DEF Clean, Stuck
    <3> QED BY <1>1, <1>2, <2>5, <3>1 DEF BInv, Phase
  <2>6. CASE /\ proc' = next /\ ~lazy /\ UNCHANGED <<lazy, pool, queue>>
             /\ t \in Transfers /\ Executes(<<t>>)
    <3>1. Clean'
      BY <1>1, <2>6 DEF Clean, Stuck
    <3> DEFINE calls == <<t>>
    <3>2. calls \in Seq(Transfers) /\ \A k \in 1..Len(calls) : calls[k].to \notin Relayer
      <4>1. t.to = Eoa
        OBVIOUS
      <4> HIDE DEF t
      <4> QED BY <2>6, <4>1, Accounts
    <3>3. Executes(calls)
      BY <2>6
    <3> HIDE DEF calls
    <3>4. Sparing(calls)
      BY <3>2, OthersSparing
    <3>5. pending' = {} /\ \A r \in Relayer : balance'[r] <= Full
      BY <1>1, <3>2, <3>4, <3>3, ExecutesSparing
    <3> QED BY <1>2, <2>6, <3>1, <3>5, CleanStep
  <2> QED BY <2>2, <2>3, <2>4, <2>5, <2>6
<1> QED BY <1>3, <1>4 DEF DeployAndFundEvmAddress

LEMMA OthersLow ==
  ASSUME TInv, Prompt, BInv,
         GetRelayer \/ DeployEoa \/ Return \/ End \/ Kill \/ RequestRaises \/ Includes \/ UNCHANGED vars
  PROVE  BInv'
<1>1. ProcType /\ pending = {} /\ \A r \in Relayer : balance[r] <= Full
  BY DEF TInv, IInv, BInv
<1>2. CASE GetRelayer
  <2>1. Clean \/ Stuck
    BY <1>2 DEF GetRelayer, BInv, Phase
  <2>2. CASE proc' = [Idle EXCEPT !.step = "done"] /\ UNCHANGED <<network, memory, world>>
    <3>1. proc'.step = "done"
      BY <2>2 DEF Idle
    <3>2. (Clean \/ Stuck)' /\ UNCHANGED <<balance, pending>>
      BY <2>1, <2>2, SameBalances DEF Clean, Stuck, network, memory
    <3> QED BY <1>1, <3>1, <3>2 DEF BInv, Phase
  <2>3. CASE pool /\ proc' = Goto("eoa") /\ UNCHANGED <<network, memory, world>>
    <3>1. "eoa" \in Step
      BY DEF Step
    <3>2. proc'.step = "eoa"
      BY <1>1, <2>3, <3>1, GotoType
    <3>3. Clean' /\ UNCHANGED <<balance, pending>>
      BY <2>1, <2>3 DEF Clean, Stuck, network, memory
    <3> QED BY <1>1, <3>2, <3>3, CleanStep
  <2>4. CASE ~pool /\ StartCreate("eoa")
    BY <2>1, <2>4, StartCreateLow
  <2> QED BY <1>2, <2>2, <2>3, <2>4 DEF GetRelayer
<1>3. CASE DeployEoa
  <2>1. proc' = [Idle EXCEPT !.step = "done"] /\ Clean' /\ UNCHANGED <<balance, pending>>
    BY <1>3 DEF DeployEoa, BInv, Phase, Clean, memory
  <2>2. proc'.step = "done"
    BY <2>1 DEF Idle
  <2> QED BY <1>1, <2>1, <2>2, CleanStep
<1>4. CASE Return
  <2>1. Clean \/ Stuck
    BY <1>4 DEF Return, BInv, Phase
  <2>2. proc' = Idle /\ (Clean \/ Stuck)' /\ UNCHANGED <<balance, pending>>
    BY <1>4, <2>1, SameBalances DEF Return, Clean, Stuck, network, memory
  <2> QED BY <1>1, <2>2, IdleType DEF BInv, Phase
<1>5. CASE End \/ Kill \/ RequestRaises
  <2>1. Clean' /\ proc' = Idle /\ UNCHANGED <<balance, pending>>
    BY <1>5 DEF End, Kill, RequestRaises, Raise, Prompt, KeepsQueue, Exit, Clean, network
  <2> QED BY <1>1, <2>1, IdleType, CleanStep
<1>6. CASE Includes
  BY <1>1, <1>6 DEF Includes
<1>7. CASE UNCHANGED vars
  <2>1. UNCHANGED <<balance, pending, lazy, queue, pool, proc, world>>
    BY <1>7 DEF vars, network, memory
  <2>2. /\ (Clean \/ Stuck)' <=> (Clean \/ Stuck)
        /\ Clean' <=> Clean
        /\ Funding' <=> Funding
        /\ Sparing(queue)' <=> Sparing(queue)
    BY <2>1 DEF Clean, Stuck, Funding, Sparing, ShortFrom
  <2> QED BY <2>1, <2>2 DEF BInv, Phase
<1> QED BY <1>2, <1>3, <1>4, <1>5, <1>6, <1>7

LEMMA NextLow ==
  ASSUME TInv, Prompt, BInv, [Next]_vars
  PROVE  BInv'
<1>1. CASE Get
  BY <1>1, StartCreateLow DEF Get, BInv, Phase
<1> QED BY <1>1, FundRelayerLow, ExecuteCallsLow, LoopsLow, WithdrawAllLow, FundEoaLow, OthersLow
     DEF Next, Continue

\* No relayer ends with more than the amount it is funded with, if none starts with
\* more and the node answers in time: a creation that was cut short, by an exception,
\* a failure or a kill, is begun again without paying anyone twice.
THEOREM NoOverFundingHolds ==
  ASSUME \A w \in Worlds : \A d \in w.dust : d <= Amount * Eth
  PROVE  Spec => []NoOverFunding
<1> DEFINE Inv == TInv /\ (Prompt => BInv)
<1>1. Init => Inv
  <2> SUFFICES ASSUME Init PROVE Inv
    OBVIOUS
  <2>1. TInv
    BY InitInvariant, InitTypes DEF TInv
  <2>2. PICK w \in Worlds :
          world = [funds |-> w.funds, dust |-> w.dust, session |-> w.session,
                   raises |-> w.raises, late |-> w.late, failures |-> w.failures,
                   queued |-> w.queued, failed |-> 0]
    BY DEF Init
  <2>3. world.dust = w.dust
    BY <2>2
  <2>4. PICK dust \in [Account \ {Main} -> world.dust] :
          balance = [a \in Account |-> IF a = Main THEN world.funds ELSE dust[a]]
    BY DEF Init
  <2>5. \A r \in Relayer : balance[r] <= Full
    BY <2>3, <2>4, Accounts DEF Full
  <2>6. Clean /\ pending = {} /\ proc.step = "idle"
    BY IdleType DEF Init, Clean
  <2> QED BY <2>1, <2>5, <2>6 DEF BInv, Phase
<1>2. Inv /\ [Next]_vars => Inv'
  <2> SUFFICES ASSUME Inv, [Next]_vars PROVE Inv'
    OBVIOUS
  <2>1. TInv'
    BY NextInvariant, NextTypes DEF TInv
  <2>2. Prompt' = Prompt
    BY PromptStays DEF TInv
  <2>3. Prompt => BInv'
    BY NextLow
  <2> QED BY <2>1, <2>2, <2>3
<1>3. Inv => NoOverFunding
  BY DEF BInv, Full, NoOverFunding, Prompt
<1> QED BY <1>1, <1>2, <1>3, PTL DEF Spec

-----------------------------------------------------------------------------
(* No money is lost.  What all accounts have is a sum that is built up one  *)
(* account after the other.                                                *)

Sums(f, s) == s[0] = f[0] /\ \A n \in 1..Eoa : s[n] = s[n - 1] + f[n]

\* The accounts of f have x together.
Totals(f, x) == \E s \in [Account -> Int] : Sums(f, s) /\ s[Eoa] = x

LEMMA AccountNumbers ==
  Account = 0..Eoa /\ Eoa \in Nat /\ Eoa = N + 1 /\ N \in Nat /\ N >= 1 /\ Main = 0 /\ Eoa >= 1
BY BoundsAssumption DEF Account, Eoa, Main

LEMMA TotalExists ==
  ASSUME NEW f \in [Account -> Int]
  PROVE  \E x \in Int : Totals(f, x)
<1> DEFINE step == [p \in Int \X (1..Eoa) |-> p[1] + f[p[2]]]
           b == f[0]
<1>1. b \in Int /\ Eoa \in Nat /\ 0 \in Account
  BY AccountNumbers
<1>2. step \in [Int \X (1..Eoa) -> Int]
  <2>1. ASSUME NEW p \in Int \X (1..Eoa) PROVE p[1] + f[p[2]] \in Int
    <3>1. p[1] \in Int /\ p[2] \in Account
      BY AccountNumbers
    <3> QED BY <3>1
  <2> QED BY <2>1
<1> HIDE DEF step, b
<1>3. PICK s \in [0..Eoa -> Int] : Loop(b, Eoa, step, s)
  BY <1>1, <1>2, LoopExists
<1>4. s[0] = f[0]
  <2>1. 0 \in 0..Eoa
    BY <1>1
  <2> QED BY <1>3, <2>1 DEF Loop, b
<1>5. ASSUME NEW n \in 1..Eoa PROVE s[n] = s[n - 1] + f[n]
  <2>1. n \in 0..Eoa /\ n # 0 /\ n - 1 \in 0..Eoa
    BY <1>1
  <2>2. <<s[n - 1], n>> \in Int \X (1..Eoa)
    BY <2>1
  <2>3. step[<<s[n - 1], n>>] = s[n - 1] + f[n]
    BY <2>2 DEF step
  <2> QED BY <1>3, <2>1, <2>3 DEF Loop
<1>6. s \in [Account -> Int] /\ s[Eoa] \in Int
  BY <1>1, AccountNumbers
<1> QED BY <1>4, <1>5, <1>6 DEF Totals, Sums

\* What an account gets, they get together.
LEMMA TotalChanges ==
  ASSUME NEW f \in [Account -> Int], NEW x \in Int, Totals(f, x),
         NEW a \in Account, NEW v \in Int, NEW g, g = [f EXCEPT ![a] = v]
  PROVE  Totals(g, x + (v - f[a]))
<1>1. PICK s \in [Account -> Int] : Sums(f, s) /\ s[Eoa] = x
  BY DEF Totals
<1> DEFINE d == v - f[a]
           z == [n \in Account |-> IF n >= a THEN s[n] + d ELSE s[n]]
<1>2. d \in Int /\ a \in Int /\ a >= 0 /\ a <= Eoa /\ f[a] \in Int
  BY AccountNumbers
<1>3. /\ g \in [Account -> Int] /\ g[a] = f[a] + d
      /\ \A n \in Account : n # a => g[n] = f[n]
  BY <1>2
<1> HIDE DEF d
<1>4. z \in [Account -> Int]
  <2>1. ASSUME NEW n \in Account PROVE s[n] \in Int /\ s[n] + d \in Int
    <3>1. s[n] \in Int
      BY <1>1
    <3> QED BY <1>2, <3>1
  <2> QED BY <2>1
<1>5. /\ \A n \in Account : n >= a => z[n] = s[n] + d
      /\ \A n \in Account : ~(n >= a) => z[n] = s[n]
  OBVIOUS
<1> HIDE DEF z
<1>6. z[0] = g[0]
  <2>1. s[0] = f[0] /\ 0 \in Account /\ s[0] \in Int
    BY <1>1, AccountNumbers DEF Sums
  <2>2. CASE a = 0
    BY <1>3, <1>5, <2>1, <2>2
  <2>3. CASE a # 0
    <3>1. ~(0 >= a)
      BY <1>2, <2>3
    <3> QED BY <1>3, <1>5, <2>1, <2>3, <3>1
  <2> QED BY <2>2, <2>3
<1>7. ASSUME NEW n \in 1..Eoa PROVE z[n] = z[n - 1] + g[n]
  <2>1. n \in Account /\ n - 1 \in Account /\ n \in Int /\ s[n] = s[n - 1] + f[n]
    BY <1>1, AccountNumbers DEF Sums
  <2>2. s[n] \in Int /\ s[n - 1] \in Int /\ f[n] \in Int
    BY <2>1
  <2>3. CASE n = a
    <3>1. n >= a /\ ~(n - 1 >= a)
      BY <1>2, <2>1, <2>3
    <3> QED BY <1>2, <1>3, <1>5, <2>1, <2>2, <2>3, <3>1
  <2>4. CASE n > a
    <3>1. n >= a /\ n - 1 >= a /\ n # a
      BY <1>2, <2>1, <2>4
    <3> QED BY <1>2, <1>3, <1>5, <2>1, <2>2, <3>1
  <2>5. CASE n < a
    <3>1. ~(n >= a) /\ ~(n - 1 >= a) /\ n # a
      BY <1>2, <2>1, <2>5
    <3> QED BY <1>2, <1>3, <1>5, <2>1, <2>2, <3>1
  <2> QED BY <1>2, <2>1, <2>3, <2>4, <2>5
<1>8. z[Eoa] = x + d
  BY <1>1, <1>2, <1>5, AccountNumbers
<1>9. Totals(g, x + d)
  BY <1>4, <1>6, <1>7, <1>8 DEF Totals, Sums
<1> QED BY <1>9 DEF d

\* Accounts that are the same together, of which the relayers have at most K more each, and
\* the account of the EVM address E: the main account has not lost more than they have got.
LEMMA TotalBounds ==
  ASSUME NEW f \in [Account -> Int], NEW g \in [Account -> Int], NEW x \in Int, NEW y \in Int,
         Totals(f, x), Totals(g, y), NEW K \in Int, NEW E \in Int,
         \A r \in Relayer : f[r] <= g[r] + K, f[Eoa] <= g[Eoa] + E
  PROVE  f[Main] >= g[Main] + (x - y) - (N * K + E)
<1>1. PICK s \in [Account -> Int] : Sums(f, s) /\ s[Eoa] = x
  BY DEF Totals
<1>2. PICK z \in [Account -> Int] : Sums(g, z) /\ z[Eoa] = y
  BY DEF Totals
<1> DEFINE P == {n \in Nat : n <= N => s[n] - f[0] <= z[n] - g[0] + n * K}
<1>3. 0 \in P
  <2>1. s[0] = f[0] /\ z[0] = g[0] /\ 0 \in Account
    BY <1>1, <1>2, AccountNumbers DEF Sums
  <2> QED BY <2>1
<1>4. ASSUME NEW n \in Nat, n \in P PROVE n + 1 \in P
  <2> SUFFICES ASSUME n + 1 <= N PROVE s[n + 1] - f[0] <= z[n + 1] - g[0] + (n + 1) * K
    OBVIOUS
  <2>1. n + 1 \in 1..Eoa /\ (n + 1) - 1 = n /\ n \in Account /\ n + 1 \in Account /\ 0 \in Account
        /\ n + 1 \in Relayer
    BY AccountNumbers DEF Relayer
  <2>2. s[n + 1] = s[n] + f[n + 1] /\ z[n + 1] = z[n] + g[n + 1]
    BY <1>1, <1>2, <2>1 DEF Sums
  <2>3. s[n] - f[0] <= z[n] - g[0] + n * K
    BY <1>4, AccountNumbers
  <2>4. f[n + 1] <= g[n + 1] + K
    BY <2>1
  <2>5. (n + 1) * K = n * K + K
    OBVIOUS
  <2> DEFINE m == n * K
             a == f[n + 1]
             b == g[n + 1]
             sn == s[n]
             zn == z[n]
             f0 == f[0]
             g0 == g[0]
  <2>6. m \in Int /\ a \in Int /\ b \in Int /\ sn \in Int /\ zn \in Int /\ f0 \in Int /\ g0 \in Int
    BY <2>1
  <2>7. sn - f0 <= zn - g0 + m /\ a <= b + K
    BY <2>3, <2>4
  <2> HIDE DEF m, a, b, sn, zn, f0, g0
  <2>8. (sn + a) - f0 <= (zn + b) - g0 + (m + K)
    BY <2>6, <2>7
  <2> QED BY <2>2, <2>5, <2>8 DEF m, a, b, sn, zn, f0, g0
<1> HIDE DEF P
<1>5. \A n \in Nat : n \in P
  BY <1>3, <1>4, NatSet
<1>6. s[N] - f[0] <= z[N] - g[0] + N * K
  BY <1>5, AccountNumbers DEF P
<1>7. s[Eoa] = s[N] + f[Eoa] /\ z[Eoa] = z[N] + g[Eoa]
  <2>1. Eoa \in 1..Eoa /\ Eoa - 1 = N
    BY AccountNumbers
  <2> QED BY <1>1, <1>2, <2>1 DEF Sums
<1>8. 0 \in Account /\ N \in Account /\ Eoa \in Account
  BY AccountNumbers
<1> DEFINE m == N * K
<1>9. m \in Int /\ s[N] - f[0] <= z[N] - g[0] + m
  BY <1>6, AccountNumbers
<1> HIDE DEF m
<1>10. /\ s[N] \in Int /\ z[N] \in Int /\ f[0] \in Int /\ g[0] \in Int /\ f[Eoa] \in Int /\ g[Eoa] \in Int
  BY <1>8
<1>11. x = s[N] + f[Eoa] /\ y = z[N] + g[Eoa]
  BY <1>1, <1>2, <1>7
<1>12. f[0] >= g[0] + (x - y) - (m + E)
  BY <1>9, <1>10, <1>11
<1> QED BY <1>12, AccountNumbers DEF m

\* A transfer changes what two accounts have, and nothing together.
LEMMA TransferTotal ==
  ASSUME NEW s \in Multicall, NEW t \in Transfers, NEW x \in Int, Totals(s.balance, x)
  PROVE  Totals(Transfer(s, t).balance, x)
<1>1. /\ s.balance \in [Account -> Nat]
      /\ t.from \in Account /\ t.to \in Account /\ t.amount \in Nat
  BY DEF Multicall, Transfers, Ledgers
<1> DEFINE paid == [s.balance EXCEPT ![t.from] = @ - t.amount]
           got == [paid EXCEPT ![t.to] = @ + t.amount]
<1>2. CASE s.ok /\ s.balance[t.from] >= t.amount /\ t.from \in {Main} \cup allowed
  <2>1. s.balance \in [Account -> Int] /\ s.balance[t.from] \in Int /\ t.amount \in Int
    BY <1>1
  <2>2. Transfer(s, t) = [s EXCEPT !.balance = got]
    BY <1>1, <1>2 DEF Transfer
  <2>3. paid \in [Account -> Int]
    BY <1>1, <2>1
  <2>4. Totals(paid, x - t.amount)
    <3> DEFINE v == s.balance[t.from] - t.amount
    <3>1. v \in Int /\ paid = [s.balance EXCEPT ![t.from] = v]
      BY <2>1
    <3>2. x + (v - s.balance[t.from]) = x - t.amount
      BY <2>1
    <3> HIDE DEF v, paid
    <3>3. Totals(paid, x + (v - s.balance[t.from]))
      BY <1>1, <2>1, <3>1, TotalChanges
    <3> QED BY <3>2, <3>3
  <2> HIDE DEF paid
  <2>5. Totals(got, x)
    <3> DEFINE v == paid[t.to] + t.amount
               y == x - t.amount
    <3>1. v \in Int /\ y \in Int /\ paid[t.to] \in Int /\ got = [paid EXCEPT ![t.to] = v]
      BY <1>1, <2>1, <2>3
    <3>2. y + (v - paid[t.to]) = x
      BY <2>1, <3>1
    <3>3. Totals(paid, y)
      BY <2>4
    <3> HIDE DEF v, y, got
    <3>4. Totals(got, y + (v - paid[t.to]))
      BY <1>1, <2>3, <3>1, <3>3, TotalChanges
    <3> QED BY <3>2, <3>4
  <2> HIDE DEF got
  <2>6. Transfer(s, t).balance = got
    BY <2>2 DEF Multicall
  <2> QED BY <2>5, <2>6
<1>3. CASE ~(s.ok /\ s.balance[t.from] >= t.amount /\ t.from \in {Main} \cup allowed)
  <2>1. Transfer(s, t) = [s EXCEPT !.ok = FALSE]
    BY <1>3 DEF Transfer
  <2>2. Transfer(s, t).balance = s.balance
    BY <2>1 DEF Multicall
  <2> QED BY <2>2
<1> QED BY <1>2, <1>3

\* A multicall moves money between the accounts.
LEMMA MulticallTotal ==
  ASSUME Types, NEW calls \in Seq(Transfers), NEW x \in Int, Totals(balance, x)
  PROVE  Totals(Balances(calls), x)
<1> DEFINE m == Len(calls)
<1>1. /\ m \in Nat
      /\ \A n \in 1..m : calls[n] \in Transfers
      /\ balance \in Ledgers
  BY DEF Types
<1>2. PICK after \in [0..m -> Multicall] :
        /\ after[0] = [ok |-> TRUE, balance |-> balance]
        /\ \A n \in 1..m : after[n] = Transfer(after[n - 1], calls[n])
        /\ Balances(calls) = IF after[m].ok THEN after[m].balance ELSE balance
  BY <1>1, BalancesDef
<1>3. after[0].balance = balance
  BY <1>2
<1> DEFINE P == {n \in Nat : n <= m => Totals(after[n].balance, x)}
<1>4. 0 \in P
  BY <1>3
<1>5. ASSUME NEW n \in Nat, n \in P PROVE n + 1 \in P
  <2> SUFFICES ASSUME n + 1 <= m PROVE Totals(after[n + 1].balance, x)
    OBVIOUS
  <2>1. /\ n + 1 \in 1..m /\ (n + 1) - 1 = n /\ n \in 0..m
        /\ after[n] \in Multicall /\ calls[n + 1] \in Transfers
        /\ after[n + 1] = Transfer(after[n], calls[n + 1])
    BY <1>1, <1>2
  <2>2. Totals(after[n].balance, x)
    BY <1>5, <2>1
  <2> QED BY <2>1, <2>2, TransferTotal
<1> HIDE DEF P
<1>6. m \in P
  BY <1>1, <1>4, <1>5, NatSet
<1>7. Totals(after[m].balance, x)
  BY <1>1, <1>6 DEF P
<1> QED BY <1>2, <1>7

-----------------------------------------------------------------------------
(* A session whose main account can pay is not left lazy.  A relayer has no *)
(* more than it began with, what it is funded with once, and that again for *)
(* each funding that came late; the main account has all the rest.          *)

\* What was funded once, and k times late.
Share(k) == (1 + k) * Full

\* Each of these accounts is paid once at most, and the amount at most.
Gifts(calls, accounts) ==
  \A n \in 1..Len(calls) :
    /\ calls[n].to \in accounts
    /\ calls[n].amount <= Full
    /\ \A j \in 1..(n - 1) : calls[j].to # calls[n].to

\* A multicall the account may have sent.
Known(p) == Gifts(p, Relayer) \/ Gifts(p, {Eoa}) \/ p \in ToMain

\* A queue that leaves everyone with the share.
Fits(calls, d, k) ==
  \A n \in 1..Len(calls) : balance[calls[n].to] + calls[n].amount <= d[calls[n].to] + Share(k)

\* The accounts started with d; k late fundings of relayers and e of the EVM address were included.
Book(d, k, e) ==
  /\ d \in Ledgers /\ d[Main] = world.funds
  /\ \E x \in Int : Totals(balance, x) /\ Totals(d, x)
  /\ IsFiniteSet(pending) /\ k + e + Cardinality(pending) <= world.failed
  /\ \A r \in Relayer : balance[r] <= d[r] + Share(k)
  /\ balance[Eoa] <= d[Eoa] + Share(e)

\* What the account has queued.
Queued(d, k) ==
  /\ proc.step = "fund" =>
       /\ lazy /\ Gifts(queue, Relayer) /\ Fits(queue, d, k)
       /\ \A n \in 1..Len(queue) : queue[n].to < proc.i
  /\ proc.step = "flush" => Gifts(queue, Relayer) /\ Fits(queue, d, k)
  /\ proc.step = "flush withdrawal" => queue \in ToMain

Queueing == {"fund", "flush", "flush withdrawal"}

SInv ==
  /\ IF proc.step \in Queueing THEN ~proc.isLazy ELSE Clean
  /\ \A p \in pending : Known(p)
  /\ world.failed <= world.failures
  /\ \E d \in Ledgers, k, e \in Nat : Book(d, k, e) /\ Queued(d, k)

\* An exception leaves the memory of a session in order but when it comes from a queue that
\* could not be paid.
Able == ~KeepsQueue /\ Solvent

LEMMA ShareType ==
  ASSUME NEW k \in Nat
  PROVE  Share(k) \in Nat /\ Share(k) >= Full /\ Share(k + 1) = Share(k) + Full
<1>1. Full \in Nat
  BY FullType
<1> DEFINE u == Full
<1>2. u \in Nat
  BY <1>1
<1> HIDE DEF u
<1>3. (1 + k) * u = u + k * u /\ (1 + (k + 1)) * u = (1 + k) * u + u /\ k * u \in Nat
  BY <1>2
<1>4. (1 + k) * u \in Nat /\ (1 + k) * u >= u
  BY <1>2, <1>3
<1> QED BY <1>3, <1>4 DEF Share, u

\* Funds suffice for every relayer as often as it was funded, and for the EVM address.
LEMMA FundsSuffice ==
  ASSUME world \in World, Solvent, NEW k \in Nat, NEW e \in Nat, k + e <= world.failures
  PROVE  world.funds >= N * Share(k) + Share(e)
<1> DEFINE F == world.failures
           u == Full
<1>1. F \in Nat /\ u \in Nat /\ N \in Nat /\ N >= 1 /\ world.funds \in Nat /\ Amount \in Nat /\ Eth \in Nat
  BY FullType, AccountNumbers, BoundsAssumption DEF World
<1>2. world.funds >= ((F + 1) * N + 1) * u
  <2> DEFINE m == (F + 1) * N + 1
  <2>1. m \in Nat
    BY <1>1
  <2>2. world.funds >= m * Amount * Eth
    BY DEF Solvent
  <2> HIDE DEF m
  <2>3. (m * Amount) * Eth = m * (Amount * Eth)
    BY <1>1, <2>1
  <2>4. world.funds >= m * u
    BY <2>2, <2>3 DEF Full
  <2> QED BY <2>4 DEF m
<1> DEFINE a == N * (1 + k) + (1 + e)
           b == (F + 1) * N + 1
<1> HIDE DEF F, u
<1>3. a \in Nat /\ b \in Nat /\ a <= b
  <2>1. k + e <= F
    BY DEF F
  <2>2. N * e >= e
    <3>1. N * e = (N - 1) * e + e /\ (N - 1) * e >= 0
      BY <1>1
    <3> QED BY <1>1, <3>1
  <2>3. N * (k + e) <= N * F
    <3>1. F - (k + e) \in Nat
      BY <1>1, <2>1
    <3>2. N * F = N * (k + e) + N * (F - (k + e)) /\ N * (F - (k + e)) >= 0
      BY <1>1, <3>1
    <3> QED BY <1>1, <3>2
  <2>4. N * (1 + k) = N + N * k /\ N * (k + e) = N * k + N * e /\ (F + 1) * N = N * F + N
    BY <1>1
  <2>5. N * k \in Nat /\ N * e \in Nat /\ N * F \in Nat
    BY <1>1
  <2> QED BY <1>1, <2>2, <2>3, <2>4, <2>5
<1>4. a * u <= b * u
  <2> HIDE DEF a, b
  <2>1. b - a \in Nat /\ b * u = a * u + (b - a) * u /\ (b - a) * u >= 0
    BY <1>1, <1>3
  <2> QED BY <1>1, <1>3, <2>1
<1>5. a * u = N * ((1 + k) * u) + (1 + e) * u
  <2> DEFINE v == 1 + k
             w == 1 + e
  <2>1. v \in Nat /\ w \in Nat
    OBVIOUS
  <2> HIDE DEF v, w
  <2>2. (N * v + w) * u = N * (v * u) + w * u
    BY <1>1, <2>1
  <2> QED BY <2>2 DEF v, w
<1>6. b * u \in Int /\ a * u \in Int
  BY <1>1, <1>3
<1>7. world.funds >= a * u
  <2> DEFINE x == a * u
             y == b * u
  <2>1. x \in Int /\ y \in Int /\ x <= y /\ world.funds >= y
    BY <1>2, <1>4, <1>6
  <2> HIDE DEF x, y
  <2>2. world.funds >= x
    BY <1>1, <2>1
  <2> QED BY <2>2 DEF x
<1> QED BY <1>5, <1>7 DEF Share, u

\* The main account can pay what any relayer lacks.
LEMMA CanPay ==
  ASSUME Types, Solvent, world.failed <= world.failures, NEW d \in Ledgers, NEW k \in Nat, NEW e \in Nat,
         Book(d, k, e), NEW i \in Relayer
  PROVE  balance[Main] >= Full - balance[i]
<1>1. PICK x \in Int : Totals(balance, x) /\ Totals(d, x)
  BY DEF Book
<1>2. /\ balance \in [Account -> Int] /\ d \in [Account -> Int] /\ world \in World
      /\ i \in Account /\ Main \in Account /\ Eoa \in Account /\ i # Main /\ i # Eoa /\ Eoa # Main
      /\ balance[i] \in Nat /\ balance[Main] \in Nat /\ balance[Eoa] \in Nat /\ d[Main] = world.funds
      /\ world.funds \in Nat /\ d[i] \in Nat
      /\ Full \in Nat
  BY SMTT(60), Accounts, AccountNumbers, FullType DEF Types, Ledgers, Book, World
<1> DEFINE f == [balance EXCEPT ![i] = Full]
           y == x + (Full - balance[i])
           K == Share(k)
           E == Share(e)
<1>3. K \in Nat /\ E \in Nat /\ K >= Full
  BY ShareType
<1>4. Full \in Int /\ f = [balance EXCEPT ![i] = Full]
  BY <1>2
<1>5. Totals(f, y)
  <2> HIDE DEF f
  <2> QED BY <1>1, <1>2, <1>4, TotalChanges
<1>6. /\ f \in [Account -> Int] /\ f[Main] = balance[Main] /\ f[Eoa] = balance[Eoa] /\ f[i] = Full
      /\ \A r \in Relayer : r # i => f[r] = balance[r]
  BY <1>2, Accounts
<1> HIDE DEF f, K, E
<1>7. \A r \in Relayer : balance[r] <= d[r] + K
  BY DEF Book, K
<1>8. f[i] <= d[i] + K
  BY <1>2, <1>3, <1>6
<1>9. \A r \in Relayer : f[r] <= d[r] + K
  BY <1>6, <1>7, <1>8
<1>10. f[Eoa] <= d[Eoa] + E
  BY <1>6 DEF Book, E
<1>11. y \in Int
  BY <1>2
<1> HIDE DEF y
<1>12. f[Main] >= d[Main] + (y - x) - (N * K + E)
  <2>1. /\ f \in [Account -> Int] /\ d \in [Account -> Int] /\ y \in Int /\ x \in Int
        /\ K \in Int /\ E \in Int /\ Totals(f, y) /\ Totals(d, x)
    BY <1>1, <1>2, <1>3, <1>5, <1>6, <1>11
  <2> QED BY <2>1, <1>9, <1>10, TotalBounds
<1>13. world.funds >= N * K + E
  <2>1. k + e <= world.failures
    <3>1. Cardinality(pending) \in Nat /\ k + e + Cardinality(pending) <= world.failed
      BY FS_CardinalityType DEF Book
    <3>2. world.failed \in Nat /\ world.failures \in Nat
      BY <1>2 DEF World
    <3> QED BY <3>1, <3>2
  <2> QED BY <1>2, <2>1, FundsSuffice DEF K, E
<1> DEFINE m == N * K + E
<1>14. m \in Int /\ world.funds >= m /\ balance[Main] >= world.funds + (y - x) - m
  <2>1. N \in Nat
    BY AccountNumbers
  <2>2. m \in Int
    BY <1>3, <2>1
  <2> QED BY <1>2, <1>6, <1>12, <1>13, <2>2
<1>15. y - x = Full - balance[i]
  BY <1>2 DEF y
<1> HIDE DEF m
<1> QED BY <1>2, <1>11, <1>14, <1>15

-----------------------------------------------------------------------------
(* Paying it                                                               *)

LEMMA AbleStays ==
  ASSUME Types, [Next]_vars, Able'
  PROVE  Able
<1>1. /\ world'.session = world.session /\ world'.raises = world.raises
      /\ world'.funds = world.funds /\ world'.failures = world.failures
  BY NextWorld, WorldStays
<1> QED BY <1>1 DEF Able, KeepsQueue, Solvent

LEMMA GiftPays ==
  ASSUME Types, NEW calls \in Seq(Transfers), NEW accounts \in SUBSET Account, Gifts(calls, accounts),
         NEW a \in Account
  PROVE  /\ Balances(calls)[a] <= balance[a] + Full
         /\ a \notin accounts => Balances(calls)[a] <= balance[a]
<1>1. balance[a] \in Nat /\ Full \in Nat
  BY BalanceNat, FullType
<1>2. \A n \in 1..Len(calls) : calls[n].amount \in Nat
  <2>1. \A n \in 1..Len(calls) : calls[n] \in Transfers
    OBVIOUS
  <2> QED BY <2>1 DEF Transfers
<1>3. Balances(calls)[a] <= balance[a] + Full
  <2> DEFINE most == balance[a] + Full
  <2>1. most \in Int /\ balance[a] <= most
    BY <1>1
  <2>2. \A n \in 1..Len(calls) : calls[n].to = a =>
          /\ balance[a] + calls[n].amount <= most
          /\ \A j \in 1..(n - 1) : calls[j].to # a
    BY SMTT(30), <1>1, <1>2 DEF Gifts
  <2> HIDE DEF most
  <2>3. Balances(calls)[a] <= most
    BY <2>1, <2>2, PaidOnce
  <2> QED BY <2>3 DEF most
<1>4. ASSUME a \notin accounts PROVE Balances(calls)[a] <= balance[a]
  <2>1. \A n \in 1..Len(calls) : calls[n].to # a
    BY <1>4 DEF Gifts
  <2> QED BY <1>1, <2>1, PaidOnce
<1> QED BY <1>3, <1>4

LEMMA ToMainPays ==
  ASSUME Types, NEW calls \in ToMain, NEW a \in Account, a # Main
  PROVE  Balances(calls)[a] <= balance[a]
<1>1. calls \in Seq(Transfers) /\ \A n \in 1..Len(calls) : calls[n].to # a
  BY DEF ToMain
<1>2. balance[a] \in Int /\ balance[a] <= balance[a]
  BY BalanceNat
<1> QED BY <1>1, <1>2, PaidOnce

\* A multicall moves what there is.
LEMMA BookKept ==
  ASSUME Types, NEW calls \in Seq(Transfers), balance' \in {balance, Balances(calls)},
         NEW d \in Ledgers, NEW k, NEW e, Book(d, k, e), world'.funds = world.funds,
         NEW k2, NEW e2, IsFiniteSet(pending'), k2 + e2 + Cardinality(pending') <= world'.failed,
         \A r \in Relayer : balance'[r] <= d[r] + Share(k2), balance'[Eoa] <= d[Eoa] + Share(e2)
  PROVE  Book(d, k2, e2)'
<1>1. PICK x \in Int : Totals(balance, x) /\ Totals(d, x)
  BY DEF Book
<1>2. Totals(balance', x)
  <2>1. Totals(Balances(calls), x)
    BY <1>1, MulticallTotal
  <2> QED BY <1>1, <2>1
<1>3. d[Main] = world'.funds
  BY DEF Book
<1> QED BY <1>1, <1>2, <1>3 DEF Book

\* A step that moves nothing leaves the book.
LEMMA SameBook ==
  ASSUME Types, UNCHANGED <<balance, pending>>, Fails \/ Works,
         NEW d \in Ledgers, NEW k \in Nat, NEW e \in Nat, Book(d, k, e)
  PROVE  Book(d, k, e)'
<1>1. world'.failed >= world.failed /\ world'.funds = world.funds
  BY WorldStays
<1>2. world.failed \in Int /\ world'.failed \in Int
  BY WorldStep DEF Types, World
<1>3. <<>> \in Seq(Transfers)
  OBVIOUS
<1>4. IsFiniteSet(pending') /\ k + e + Cardinality(pending') <= world.failed
  BY DEF Book
<1>5. Cardinality(pending') \in Nat
  BY <1>4, FS_CardinalityType
<1>6. k + e + Cardinality(pending') <= world'.failed
  BY <1>1, <1>2, <1>4, <1>5
<1>7. (\A r \in Relayer : balance'[r] <= d[r] + Share(k)) /\ balance'[Eoa] <= d[Eoa] + Share(e)
  BY DEF Book
<1>8. balance' \in {balance, Balances(<<>>)}
  OBVIOUS
<1> QED BY <1>1, <1>3, <1>4, <1>6, <1>7, <1>8, BookKept

\* A transaction that pays within the shares; when it is late it is one more to come.
LEMMA ExecutesBook ==
  ASSUME Types, NEW calls \in Seq(Transfers), Executes(calls), world.failed <= world.failures,
         NEW d \in Ledgers, NEW k \in Nat, NEW e \in Nat, Book(d, k, e),
         \A r \in Relayer : Balances(calls)[r] <= d[r] + Share(k), Balances(calls)[Eoa] <= d[Eoa] + Share(e)
  PROVE  /\ Book(d, k, e)' /\ world'.failed <= world'.failures
         /\ pending' \in {pending, pending \cup {calls}}
<1>1. /\ Fails \/ Works
      /\ balance' \in {balance, Balances(calls)}
      /\ \/ pending' = pending
         \/ pending' = pending \cup {calls} /\ Fails
  BY DEF Executes
<1>2. world'.failed <= world'.failures /\ world'.failed >= world.failed /\ world'.funds = world.funds
  BY <1>1, WorldStays
<1>3. world.failed \in Int /\ world'.failed \in Int
  BY <1>1, WorldStep DEF Types, World
<1>4. IsFiniteSet(pending) /\ k + e + Cardinality(pending) <= world.failed /\ Cardinality(pending) \in Nat
  BY FS_CardinalityType DEF Book
<1>5. IsFiniteSet(pending') /\ k + e + Cardinality(pending') <= world'.failed
  <2>1. CASE pending' = pending
    BY <1>2, <1>3, <1>4, <2>1
  <2>2. CASE pending' = pending \cup {calls} /\ Fails
    <3>1. world'.failed = world.failed + 1
      BY <2>2 DEF Fails, Types, World
    <3>2. IsFiniteSet(pending') /\ Cardinality(pending') \in {Cardinality(pending), Cardinality(pending) + 1}
      BY <1>4, <2>2, FS_AddElement
    <3> QED BY SMTT(30), <1>3, <1>4, <3>1, <3>2
  <2> QED BY <1>1, <2>1, <2>2
<1>6. (\A r \in Relayer : balance'[r] <= d[r] + Share(k)) /\ balance'[Eoa] <= d[Eoa] + Share(e)
  BY <1>1 DEF Book
<1>7. Book(d, k, e)'
  BY <1>1, <1>2, <1>5, <1>6, BookKept
<1> QED BY <1>1, <1>2, <1>7

LEMMA Within ==
  ASSUME NEW x \in Int, NEW y \in Int, NEW z \in Int, NEW m \in Int, NEW n \in Int,
         y <= x + (n - m), x <= z + m
  PROVE  y <= z + n
OBVIOUS

\* A late transaction that is included, as one more share at most for whom it pays.
LEMMA IncludedBook ==
  ASSUME Types, NEW calls \in pending, balance' = Balances(calls), pending' = pending \ {calls},
         world' = world,
         NEW d \in Ledgers, NEW k \in Nat, NEW e \in Nat, Book(d, k, e),
         NEW k2 \in Nat, NEW e2 \in Nat, k2 + e2 <= k + e + 1,
         \A r \in Relayer : balance'[r] <= balance[r] + (Share(k2) - Share(k)),
         balance'[Eoa] <= balance[Eoa] + (Share(e2) - Share(e))
  PROVE  /\ Book(d, k2, e2)'
         /\ \A q \in Seq(Transfers) : Gifts(q, Relayer) /\ Fits(q, d, k) => Fits(q, d, k2)'
<1> DEFINE K == Share(k)
           K2 == Share(k2)
           E == Share(e)
           E2 == Share(e2)
<1>1. K \in Int /\ K2 \in Int /\ E \in Int /\ E2 \in Int
  BY ShareType
<1>2. /\ calls \in Seq(Transfers) /\ balance \in [Account -> Nat] /\ balance' \in [Account -> Nat]
      /\ d \in [Account -> Nat]
  BY BalancesType DEF Types, Ledgers
<1>3. /\ \A r \in Relayer : balance'[r] <= balance[r] + (K2 - K)
      /\ balance'[Eoa] <= balance[Eoa] + (E2 - E)
      /\ \A r \in Relayer : balance[r] <= d[r] + K
      /\ balance[Eoa] <= d[Eoa] + E
  BY DEF Book
<1>4. IsFiniteSet(pending') /\ k2 + e2 + Cardinality(pending') <= world'.failed
  <2>1. IsFiniteSet(pending) /\ k + e + Cardinality(pending) <= world.failed /\ Cardinality(pending) \in Nat
    BY FS_CardinalityType DEF Book
  <2>2. IsFiniteSet(pending') /\ Cardinality(pending') = Cardinality(pending) - 1
    BY <2>1, FS_RemoveElement
  <2>3. world.failed \in Int /\ world'.failed = world.failed
    BY DEF Types, World
  <2> QED BY <2>1, <2>2, <2>3
<1> HIDE DEF K, K2, E, E2
<1>5. /\ \A r \in Relayer : balance'[r] <= d[r] + K2
      /\ balance'[Eoa] <= d[Eoa] + E2
  <2>1. ASSUME NEW r \in Relayer PROVE balance'[r] <= d[r] + K2
    <3>1. balance[r] \in Int /\ balance'[r] \in Int /\ d[r] \in Int
      BY <1>2, Accounts
    <3>2. balance'[r] <= balance[r] + (K2 - K) /\ balance[r] <= d[r] + K
      BY <1>3
    <3> QED BY <1>1, <3>1, <3>2, Within
  <2>2. balance[Eoa] \in Int /\ balance'[Eoa] \in Int /\ d[Eoa] \in Int
    BY <1>2, Accounts
  <2>3. balance'[Eoa] <= d[Eoa] + E2
    BY <1>1, <1>3, <2>2, Within
  <2> QED BY <2>1, <2>3
<1>6. Book(d, k2, e2)'
  <2>1. world'.funds = world.funds /\ balance' \in {balance, Balances(calls)}
    OBVIOUS
  <2>2. (\A r \in Relayer : balance'[r] <= d[r] + Share(k2)) /\ balance'[Eoa] <= d[Eoa] + Share(e2)
    BY <1>5 DEF K2, E2
  <2> QED BY <1>2, <1>4, <2>1, <2>2, BookKept
<1>7. ASSUME NEW q \in Seq(Transfers), Gifts(q, Relayer), Fits(q, d, k)
      PROVE  Fits(q, d, k2)'
  <2>1. ASSUME NEW n \in 1..Len(q)
        PROVE  balance'[q[n].to] + q[n].amount <= d[q[n].to] + K2
    <3>1. q[n].to \in Relayer /\ q[n].amount \in Nat /\ balance[q[n].to] + q[n].amount <= d[q[n].to] + K
      <4>1. q[n] \in Transfers
        OBVIOUS
      <4> QED BY <1>7, <4>1 DEF Gifts, Fits, Transfers, K
    <3> DEFINE a == q[n].to
               w == q[n].amount
    <3>2. a \in Relayer /\ w \in Nat /\ balance[a] + w <= d[a] + K
      BY <3>1
    <3> HIDE DEF a, w
    <3>3. balance'[a] + w <= d[a] + K2
      <4>1. balance[a] \in Int /\ balance'[a] \in Int /\ d[a] \in Int /\ balance'[a] <= balance[a] + (K2 - K)
        BY <1>2, <1>3, <3>2, Accounts
      <4> DEFINE x == balance[a]
                 y == balance'[a]
                 z == d[a]
      <4>2. x \in Int /\ y \in Int /\ z \in Int /\ w \in Int /\ y <= x + (K2 - K) /\ x + w <= z + K
        BY <3>2, <4>1
      <4> HIDE DEF x, y, z
      <4>3. y + w <= z + K2
        BY SMTT(30), <1>1, <4>2
      <4> QED BY <4>3 DEF x, y, z
    <3> QED BY <3>3 DEF a, w
  <2> QED BY <2>1 DEF Fits, K2
<1> QED BY <1>6, <1>7

LEMMA IncludesSettled ==
  ASSUME TInv, SInv, Includes
  PROVE  SInv'
<1>1. PICK calls \in pending : balance' = Balances(calls) /\ pending' = pending \ {calls}
  BY DEF Includes
<1>2. /\ Types /\ calls \in Seq(Transfers) /\ queue \in Seq(Transfers)
      /\ \A a \in Account : balance[a] \in Nat
      /\ UNCHANGED <<lazy, queue, proc, world>> /\ world' = world
  BY BalanceNat DEF TInv, Types, Includes, memory
<1>3. PICK d \in Ledgers, k \in Nat, e \in Nat : Book(d, k, e) /\ Queued(d, k)
  BY DEF SInv
<1>4. Known(calls) /\ \A p \in pending' : Known(p)
  BY <1>1 DEF SInv, Known
<1>5. Share(k) \in Nat /\ Share(k + 1) = Share(k) + Full /\ Share(e) \in Nat /\ Share(e + 1) = Share(e) + Full
  BY ShareType
<1>6. \E k2, e2 \in Nat :
        /\ Book(d, k2, e2)'
        /\ \A q \in Seq(Transfers) : Gifts(q, Relayer) /\ Fits(q, d, k) => Fits(q, d, k2)'
  <2>1. Full \in Nat /\ \A r \in Relayer : r \in Account /\ r # Main /\ r # Eoa
    BY FullType, Accounts
  <2>2. Eoa \in Account /\ Eoa # Main /\ Eoa \notin Relayer
    BY AccountNumbers DEF Relayer
  <2>3. CASE Gifts(calls, Relayer)
    <3>1. \A r \in Relayer : Balances(calls)[r] <= balance[r] + Full
      BY <1>2, <2>1, <2>3, GiftPays
    <3>2. Balances(calls)[Eoa] <= balance[Eoa]
      BY <1>2, <2>1, <2>2, <2>3, GiftPays
    <3>3. Share(k + 1) - Share(k) = Full /\ Share(e) - Share(e) = 0
      BY <1>5, <2>1
    <3>4. /\ \A r \in Relayer : balance'[r] <= balance[r] + (Share(k + 1) - Share(k))
          /\ balance'[Eoa] <= balance[Eoa] + (Share(e) - Share(e))
      BY <1>1, <1>2, <2>2, <3>1, <3>2, <3>3
    <3>5. k + 1 \in Nat /\ k + 1 + e <= k + e + 1
      OBVIOUS
    <3> QED BY <1>1, <1>2, <1>3, <3>4, <3>5, IncludedBook
  <2>4. CASE Gifts(calls, {Eoa})
    <3>1. \A r \in Relayer : Balances(calls)[r] <= balance[r]
      BY <1>2, <2>1, <2>2, <2>4, GiftPays
    <3>2. Balances(calls)[Eoa] <= balance[Eoa] + Full
      BY <1>2, <2>2, <2>4, GiftPays
    <3>3. Share(e + 1) - Share(e) = Full /\ Share(k) - Share(k) = 0
      BY <1>5, <2>1
    <3>4. /\ \A r \in Relayer : balance'[r] <= balance[r] + (Share(k) - Share(k))
          /\ balance'[Eoa] <= balance[Eoa] + (Share(e + 1) - Share(e))
      BY <1>1, <1>2, <2>1, <3>1, <3>2, <3>3
    <3>5. e + 1 \in Nat /\ k + (e + 1) <= k + e + 1
      OBVIOUS
    <3> QED BY <1>1, <1>2, <1>3, <3>4, <3>5, IncludedBook
  <2>5. CASE calls \in ToMain
    <3>1. (\A r \in Relayer : Balances(calls)[r] <= balance[r]) /\ Balances(calls)[Eoa] <= balance[Eoa]
      BY <1>2, <2>1, <2>2, <2>5, ToMainPays
    <3>2. Share(e) - Share(e) = 0 /\ Share(k) - Share(k) = 0
      BY <1>5
    <3>3. /\ \A r \in Relayer : balance'[r] <= balance[r] + (Share(k) - Share(k))
          /\ balance'[Eoa] <= balance[Eoa] + (Share(e) - Share(e))
      BY <1>1, <1>2, <2>1, <2>2, <3>1, <3>2
    <3>4. k + e <= k + e + 1
      OBVIOUS
    <3> QED BY <1>1, <1>2, <1>3, <3>3, <3>4, IncludedBook
  <2> QED BY <1>4, <2>3, <2>4, <2>5 DEF Known
<1>7. PICK k2 \in Nat, e2 \in Nat :
        /\ Book(d, k2, e2)'
        /\ \A q \in Seq(Transfers) : Gifts(q, Relayer) /\ Fits(q, d, k) => Fits(q, d, k2)'
  BY <1>6
<1>8. Queued(d, k2)'
  <2>1. Gifts(queue, Relayer) /\ Fits(queue, d, k) => Fits(queue, d, k2)'
    <3>1. \A q : Fits(q, d, k2)' <=>
            \A n \in 1..Len(q) : balance'[q[n].to] + q[n].amount <= d[q[n].to] + Share(k2)
      BY DEF Fits
    <3>2. Fits(queue, d, k2)' <=>
            \A n \in 1..Len(queue') : balance'[queue'[n].to] + queue'[n].amount <= d[queue'[n].to] + Share(k2)
      BY DEF Fits
    <3> QED BY <1>2, <1>7, <3>1, <3>2
  <2>2. Gifts(queue, Relayer)' <=> Gifts(queue, Relayer)
    BY <1>2 DEF Gifts
  <2> QED BY <1>2, <1>3, <2>1, <2>2 DEF Queued
<1>9. /\ IF proc'.step \in Queueing THEN ~proc'.isLazy ELSE Clean'
      /\ world'.failed <= world'.failures
  BY <1>2 DEF SInv, Clean
<1> QED BY <1>4, <1>7, <1>8, <1>9 DEF SInv, Known, Gifts, ToMain, Full, Transfers

\* The memory is in order, and nobody was given more than the shares.
LEMMA TidyStep ==
  ASSUME Clean', proc'.step \notin Queueing, \A p \in pending' : Known(p),
         world'.failed <= world'.failures,
         NEW d \in Ledgers, NEW k \in Nat, NEW e \in Nat, Book(d, k, e)'
  PROVE  SInv'
<1>1. Queued(d, k)'
  BY DEF Queued, Queueing
<1> QED BY <1>1 DEF SInv, Known, Gifts, ToMain, Full, Transfers

\* Nothing moves, and the memory is in order.
LEMMA StillTidy ==
  ASSUME TInv, SInv, Clean', proc'.step \notin Queueing, UNCHANGED <<balance, pending>>, Fails \/ Works
  PROVE  SInv'
<1>1. /\ Types /\ world.failed <= world.failures /\ \A p \in pending : Known(p)
  BY DEF TInv, SInv, Known
<1>2. PICK d \in Ledgers, k \in Nat, e \in Nat : Book(d, k, e)
  BY DEF SInv
<1>3. Book(d, k, e)'
  BY <1>1, <1>2, SameBook
<1>4. world'.failed <= world'.failures
  BY <1>1, WorldStays
<1> QED BY <1>1, <1>3, <1>4, TidyStep

\* A transaction is sent, and the memory is in order.
LEMMA SentTidy ==
  ASSUME TInv, SInv, Clean', proc'.step \notin Queueing,
         NEW calls \in Seq(Transfers), Known(calls), Executes(calls),
         NEW d \in Ledgers, NEW k \in Nat, NEW e \in Nat, Book(d, k, e),
         \A r \in Relayer : Balances(calls)[r] <= d[r] + Share(k), Balances(calls)[Eoa] <= d[Eoa] + Share(e)
  PROVE  SInv'
<1>1. Types /\ world.failed <= world.failures /\ \A p \in pending : Known(p)
  BY DEF TInv, SInv, Known
<1>2. /\ Book(d, k, e)' /\ world'.failed <= world'.failures
      /\ pending' \in {pending, pending \cup {calls}}
  BY <1>1, ExecutesBook
<1>3. \A p \in pending' : Known(p)
  BY <1>1, <1>2
<1> QED BY <1>2, <1>3, TidyStep

LEMMA StartCreateSettled ==
  ASSUME TInv, SInv, Clean, NEW next, StartCreate(next)
  PROVE  SInv'
<1>1. /\ proc' = [Idle EXCEPT !.step = "fund", !.isLazy = lazy, !.then = next]
      /\ lazy' = TRUE /\ queue' = <<>>
      /\ UNCHANGED <<balance, pending, world>> /\ Works
  BY DEF StartCreate, network, Clean, Works
<1>2. proc'.step = "fund" /\ ~proc'.isLazy
  BY <1>1 DEF Idle, Clean
<1>3. /\ Types /\ world'.failed <= world'.failures /\ \A p \in pending' : Known(p)
  BY <1>1 DEF TInv, SInv, Known
<1>4. PICK d \in Ledgers, k \in Nat, e \in Nat : Book(d, k, e)
  BY DEF SInv
<1>5. Book(d, k, e)'
  BY <1>1, <1>3, <1>4, SameBook
<1>6. Queued(d, k)'
  <2>1. Len(queue') = 0
    BY <1>1
  <2>2. /\ \A q : Len(q) = 0 => Gifts(q, Relayer)
        /\ \A q : Len(q) = 0 => Fits(q, d, k)'
    BY DEF Gifts, Fits
  <2>3. Gifts(queue, Relayer)' /\ Fits(queue, d, k)' /\ \A n \in 1..Len(queue') : queue'[n].to < proc'.i
    BY <2>1 DEF Gifts, Fits
  <2> QED BY <1>1, <1>2, <2>3 DEF Queued
<1> QED BY <1>2, <1>3, <1>5, <1>6 DEF SInv, Known, Gifts, ToMain, Full, Transfers, Queueing

LEMMA WithdrawAllSettled ==
  ASSUME TInv, SInv, WithdrawAll
  PROVE  SInv'
<1>1. /\ Clean
      /\ proc' = [Idle EXCEPT !.step = "flush withdrawal", !.isLazy = lazy]
      /\ queue' = queue \o Withdrawals
      /\ UNCHANGED <<balance, pending, world>> /\ Works
  BY DEF SInv, Queueing, WithdrawAll, network, Works
<1>2. proc'.step = "flush withdrawal" /\ ~proc'.isLazy
  BY <1>1 DEF Idle, Clean
<1>3. Withdrawals \in ToMain
  BY WithdrawalsType DEF TInv, Types
<1>4. queue' \in ToMain
  BY <1>1, <1>3 DEF Clean, ToMain
<1>5. /\ Types /\ world'.failed <= world'.failures /\ \A p \in pending' : Known(p)
  BY <1>1 DEF TInv, SInv, Known
<1>6. PICK d \in Ledgers, k \in Nat, e \in Nat : Book(d, k, e)
  BY DEF SInv
<1>7. Book(d, k, e)'
  BY <1>1, <1>5, <1>6, SameBook
<1>8. Queued(d, k)'
  BY <1>2, <1>4 DEF Queued, ToMain, Transfers
<1> QED BY <1>2, <1>5, <1>7, <1>8 DEF SInv, Known, Gifts, ToMain, Full, Transfers, Queueing

LEMMA ExecuteCallsSettled ==
  ASSUME TInv, SInv, ~KeepsQueue, ExecuteCalls
  PROVE  SInv'
<1>1. /\ Types /\ ProcType /\ queue \in Seq(Transfers) /\ ~proc.isLazy
      /\ proc.step \in {"flush", "flush withdrawal"}
  BY DEF TInv, IInv, Types, ExecuteCalls, SInv, Queueing
<1>2. CASE world.raises /\ Fails /\ Raise /\ UNCHANGED <<balance, pending>>
  <2>1. Exit
    BY <1>2 DEF Raise, KeepsQueue
  <2>2. Clean' /\ proc'.step \notin Queueing
    BY <2>1, IdleType DEF Exit, Clean, Queueing
  <2> QED BY <1>2, <2>2, StillTidy
<1>3. CASE /\ Executes(queue)
           /\ queue' = <<>>
           /\ lazy' = proc.isLazy
           /\ proc' = Goto("deploy") \/ proc' = Idle
  <2>1. proc'.step \notin Queueing
    <3>1. "deploy" \in Step
      BY DEF Step
    <3>2. Goto("deploy").step = "deploy"
      BY <1>1, <3>1, GotoType
    <3> QED BY <1>3, <3>2, IdleType DEF Queueing
  <2>2. Clean'
    BY <1>1, <1>3 DEF Clean
  <2>3. PICK d \in Ledgers, k \in Nat, e \in Nat : Book(d, k, e) /\ Queued(d, k)
    BY DEF SInv
  <2>4. /\ \A r \in Relayer : r \in Account /\ r # Main /\ r # Eoa
        /\ Eoa \in Account /\ Eoa # Main /\ Eoa \notin Relayer
    BY Accounts, AccountNumbers DEF Relayer
  <2>5. /\ balance \in [Account -> Nat] /\ d \in [Account -> Nat]
        /\ \A r \in Relayer : balance[r] <= d[r] + Share(k)
        /\ balance[Eoa] <= d[Eoa] + Share(e)
    BY <1>1, <2>3 DEF Types, Ledgers, Book
  <2>6. Share(k) \in Nat /\ Share(e) \in Nat
    BY ShareType
  <2>7. Balances(queue) \in [Account -> Nat]
    BY <1>1, BalancesType DEF Types, Ledgers
  <2>8. /\ Known(queue)
        /\ \A r \in Relayer : Balances(queue)[r] <= d[r] + Share(k)
        /\ Balances(queue)[Eoa] <= d[Eoa] + Share(e)
    <3>1. CASE proc.step = "flush"
      <4>1. Gifts(queue, Relayer) /\ Fits(queue, d, k)
        BY <2>3, <3>1 DEF Queued
      <4>2. Balances(queue)[Eoa] <= balance[Eoa]
        BY <1>1, <2>4, <4>1, GiftPays
      <4>3. ASSUME NEW r \in Relayer PROVE Balances(queue)[r] <= d[r] + Share(k)
        <5> DEFINE most == d[r] + Share(k)
        <5>1. most \in Int /\ balance[r] <= most /\ r \in Account
          BY <2>4, <2>5, <2>6
        <5>2. \A n \in 1..Len(queue) : queue[n].to = r =>
                /\ balance[r] + queue[n].amount <= most
                /\ \A j \in 1..(n - 1) : queue[j].to # r
          BY <4>1 DEF Gifts, Fits
        <5> HIDE DEF most
        <5>3. Balances(queue)[r] <= most
          BY <1>1, <5>1, <5>2, PaidOnce
        <5> QED BY <5>3 DEF most
      <4>4. Balances(queue)[Eoa] <= d[Eoa] + Share(e)
        BY <2>4, <2>5, <2>6, <2>7, <4>2
      <4> QED BY <4>1, <4>3, <4>4 DEF Known
    <3>2. CASE proc.step = "flush withdrawal"
      <4>1. queue \in ToMain
        BY <2>3, <3>2 DEF Queued
      <4>2. \A a \in Account : a # Main => Balances(queue)[a] <= balance[a]
        BY <1>1, <4>1, ToMainPays
      <4>3. ASSUME NEW r \in Relayer PROVE Balances(queue)[r] <= d[r] + Share(k)
        BY <2>4, <2>5, <2>6, <2>7, <4>2
      <4>4. Balances(queue)[Eoa] <= d[Eoa] + Share(e)
        BY <2>4, <2>5, <2>6, <2>7, <4>2
      <4> QED BY <4>1, <4>3, <4>4 DEF Known
    <3> QED BY <1>1, <3>1, <3>2
  <2> QED BY <1>1, <1>3, <2>1, <2>2, <2>3, <2>8, SentTidy
<1> QED BY <1>2, <1>3 DEF ExecuteCalls

LEMMA GiftAdded ==
  ASSUME NEW q \in Seq(Transfers), NEW t \in Transfers, NEW i \in Relayer, t.to = i, t.amount <= Full,
         Gifts(q, Relayer), \A n \in 1..Len(q) : q[n].to < i, NEW p, p = Append(q, t)
  PROVE  Gifts(p, Relayer) /\ \A n \in 1..Len(p) : p[n].to < i + 1
<1> DEFINE m == Len(q)
<1>1. /\ Len(p) = m + 1 /\ m \in Nat /\ p[m + 1] = t
      /\ \A n \in 1..m : p[n] = q[n] /\ q[n] \in Transfers
  OBVIOUS
<1>2. i \in Int
  BY DEF Relayer
<1>3. \A n \in 1..m : q[n].to \in Relayer /\ q[n].to \in Int /\ q[n].to # i
  BY <1>1, <1>2 DEF Gifts, Relayer
<1> HIDE DEF m
<1>4. ASSUME NEW n \in 1..Len(p)
      PROVE  /\ p[n].to < i + 1 /\ p[n].to \in Relayer /\ p[n].amount <= Full
             /\ \A j \in 1..(n - 1) : p[j].to # p[n].to
  <2>1. CASE n \in 1..m
    <3>1. p[n] = q[n] /\ \A j \in 1..(n - 1) : p[j] = q[j]
      BY <1>1, <2>1
    <3>2. q[n].to < i + 1
      <4>1. q[n].to < i /\ q[n].to \in Int
        BY <1>3, <2>1 DEF m
      <4> QED BY <1>2, <4>1
    <3>3. q[n].to \in Relayer /\ q[n].amount <= Full /\ \A j \in 1..(n - 1) : q[j].to # q[n].to
      BY <2>1 DEF Gifts, m
    <3> QED BY <3>1, <3>2, <3>3
  <2>2. CASE n = m + 1
    <3>1. p[n] = t /\ \A j \in 1..(n - 1) : p[j].to # i
      BY <1>1, <1>3, <2>2
    <3>2. i < i + 1
      BY <1>2
    <3> QED BY <3>1, <3>2
  <2> QED BY <1>1, <2>1, <2>2
<1> QED BY <1>4 DEF Gifts

LEMMA FitAdded ==
  ASSUME NEW q \in Seq(Transfers), NEW t \in Transfers, NEW d, NEW k, Fits(q, d, k),
         balance[t.to] + t.amount <= d[t.to] + Share(k), NEW p, p = Append(q, t)
  PROVE  Fits(p, d, k)
<1> DEFINE m == Len(q)
<1>1. /\ Len(p) = m + 1 /\ m \in Nat /\ p[m + 1] = t
      /\ \A n \in 1..m : p[n] = q[n]
  OBVIOUS
<1>2. \A n \in 1..m : balance[q[n].to] + q[n].amount <= d[q[n].to] + Share(k)
  BY DEF Fits
<1> HIDE DEF m
<1>3. \A n \in 1..Len(p) : balance[p[n].to] + p[n].amount <= d[p[n].to] + Share(k)
  BY <1>1, <1>2
<1> QED BY <1>3 DEF Fits

LEMMA FundRelayerSettled ==
  ASSUME TInv, SInv, Able, FundRelayer
  PROVE  SInv'
<1> DEFINE i == proc.i
           t == Topped(i)
           next == NextOr("flush")
<1>1. /\ Types /\ ProcType /\ i \in Relayer /\ i \in Account /\ proc.step = "fund"
      /\ ~proc.isLazy /\ world.failed <= world.failures /\ queue \in Seq(Transfers)
      /\ \A p \in pending : Known(p)
  BY Accounts DEF TInv, IInv, Types, ProcType, FundRelayer, SInv, Queueing, Known
<1>2. PICK d \in Ledgers, k \in Nat, e \in Nat : Book(d, k, e) /\ Queued(d, k)
  BY DEF SInv
<1>3. /\ lazy /\ Gifts(queue, Relayer) /\ Fits(queue, d, k)
      /\ \A n \in 1..Len(queue) : queue[n].to < i
  BY <1>1, <1>2 DEF Queued
<1>4. balance[Main] >= Full - balance[i]
  BY <1>1, <1>2, CanPay DEF Able
<1>5. balance[Main] \in Nat /\ balance[i] \in Nat /\ Full \in Nat /\ i \in 1..N /\ N \in Nat
  BY <1>1, BalanceNat, FullType, Accounts, AccountNumbers DEF Relayer
<1>6. /\ proc' = next
      /\ UNCHANGED <<lazy, pool, balance, pending, world>>
      /\ queue' = queue \/ (t \in Transfers /\ queue' = Append(queue, t))
  <2>1. \/ balance[Main] < Full - balance[i]
        \/ /\ proc' = next
           /\ UNCHANGED <<lazy, pool, balance, pending, world>>
           /\ queue' = queue \/ (t \in Transfers /\ queue' = Append(queue, t))
    BY <1>3, FundRelayerOutcome
  <2> QED BY <1>4, <1>5, <2>1
<1>7. /\ next.isLazy = proc.isLazy
      /\ \/ next.step = "flush"
         \/ next.step = "fund" /\ next.i = i + 1
  BY <1>1 DEF NextOr, Goto, ProcType
<1> HIDE DEF next
<1>8. /\ Gifts(queue', Relayer) /\ Fits(queue', d, k)
      /\ \A n \in 1..Len(queue') : queue'[n].to < i + 1
  <2>1. CASE queue' = queue
    <3>1. \A n \in 1..Len(queue) : queue[n].to \in Int
      BY <1>3 DEF Gifts, Relayer
    <3>2. \A n \in 1..Len(queue) : queue[n].to < i + 1
      BY <1>3, <1>5, <3>1
    <3> QED BY <1>3, <2>1, <3>2
  <2>2. CASE t \in Transfers /\ queue' = Append(queue, t)
    <3>1. t.to = i /\ t.amount = Full - balance[i]
      BY DEF Topped
    <3> HIDE DEF t, i
    <3>2. t.amount <= Full
      BY <1>5, <3>1
    <3>3. balance[t.to] + t.amount <= d[t.to] + Share(k)
      <4> DEFINE x == balance[i]
                 y == d[i]
                 z == Share(k)
      <4>1. x \in Nat /\ y \in Nat /\ z \in Nat /\ z >= Full
        BY <1>1, <1>5, ShareType DEF Ledgers
      <4> HIDE DEF x, y, z
      <4>2. x + (Full - x) <= y + z
        BY <1>5, <4>1
      <4> QED BY <3>1, <4>2 DEF x, y, z
    <3>4. Gifts(queue', Relayer) /\ \A n \in 1..Len(queue') : queue'[n].to < i + 1
      BY <1>1, <1>3, <2>2, <3>1, <3>2, GiftAdded
    <3>5. Fits(queue', d, k)
      BY <1>1, <1>3, <2>2, <3>3, FitAdded
    <3> QED BY <3>4, <3>5
  <2> QED BY <1>6, <2>1, <2>2
<1>9. Queued(d, k)'
  <2>1. Fits(queue, d, k)'
    BY <1>6, <1>8 DEF Fits
  <2>2. Gifts(queue, Relayer)'
    BY <1>8 DEF Gifts
  <2> QED BY <1>3, <1>6, <1>7, <1>8, <2>1, <2>2 DEF Queued
<1>10. Book(d, k, e)'
  BY <1>1, <1>2, <1>6, SameBook DEF Works
<1>11. /\ proc'.step \in Queueing /\ ~proc'.isLazy
       /\ \A p \in pending' : Known(p)
       /\ world'.failed <= world'.failures
  BY <1>1, <1>6, <1>7 DEF Queueing
<1> QED BY <1>9, <1>10, <1>11 DEF SInv, Known, Gifts, ToMain, Full, Transfers

LEMMA LoopsSettled ==
  ASSUME TInv, SInv, DeployRelayer \/ ApproveMain, Fails \/ Works
  PROVE  SInv'
<1>1. /\ UNCHANGED <<balance, pending>>
      /\ proc.step \in {"deploy", "approve"}
      /\ \/ Raise
         \/ UNCHANGED <<lazy, queue>> /\ proc'.step \in {"idle", "deploy", "approve", "eoa"}
  BY LoopOutcome
<1>2. Clean
  BY <1>1 DEF SInv, Queueing
<1>3. Clean' /\ proc'.step \in {"idle", "deploy", "approve", "eoa"}
  <2>1. CASE Raise
    BY <1>2, <2>1, RaiseTidy
  <2>2. CASE UNCHANGED <<lazy, queue>> /\ proc'.step \in {"idle", "deploy", "approve", "eoa"}
    BY <1>2, <2>2 DEF Clean
  <2> QED BY <1>1, <2>1, <2>2
<1> QED BY <1>1, <1>3, StillTidy DEF Queueing

LEMMA FundEoaSettled ==
  ASSUME TInv, SInv, DeployAndFundEvmAddress
  PROVE  SInv'
<1> DEFINE next == [Idle EXCEPT !.step = "get"]
           amount == (Amount - balance[Eoa]) * Eth
           t == [from |-> Main, to |-> Eoa, amount |-> amount - balance[Eoa]]
<1>1. Types /\ Clean
  BY DEF TInv, SInv, Queueing, DeployAndFundEvmAddress
<1>2. next.step = "get"
  BY IdleType DEF Idle
<1>3. CASE proc' = next /\ UNCHANGED <<network, memory, world>>
  <2>1. Clean' /\ proc'.step \notin Queueing /\ UNCHANGED <<balance, pending>> /\ Works
    BY <1>1, <1>2, <1>3 DEF Clean, network, memory, Works, Queueing
  <2> QED BY <2>1, StillTidy
<1>4. CASE FundAddress(Eoa, amount, next)
  <2>1. amount \in Int /\ amount - balance[Eoa] <= Full /\ balance[Eoa] \in Nat /\ amount <= Full
    <3> DEFINE b == balance[Eoa]
    <3>1. b \in Nat /\ Amount \in Nat /\ Eth \in Nat
      BY <1>1, BalanceNat, Accounts, BoundsAssumption
    <3> HIDE DEF b
    <3>2. (Amount - b) * Eth = Amount * Eth - b * Eth /\ b * Eth \in Nat /\ Amount * Eth \in Nat
      BY <3>1
    <3>3. /\ (Amount - b) * Eth \in Int
          /\ (Amount - b) * Eth - b <= Amount * Eth /\ (Amount - b) * Eth <= Amount * Eth
      BY <3>1, <3>2
    <3> QED BY <3>1, <3>3 DEF Full, b
  <2> HIDE DEF next, amount
  <2>2. \/ Raise /\ UNCHANGED <<balance, pending, world>>
        \/ /\ proc' = next
           /\ UNCHANGED <<lazy, pool>>
           /\ \/ UNCHANGED <<queue, balance, pending, world>>
              \/ lazy
              \/ t \in Transfers /\ ~lazy /\ queue' = queue /\ Executes(<<t>>)
    <3>1. FundResult(Eoa, amount, next, t)
      BY <1>1, <1>4, <2>1, Accounts, FundOutcome
    <3> HIDE DEF t
    <3> QED BY <3>1 DEF FundResult
  <2>3. CASE Raise /\ UNCHANGED <<balance, pending, world>>
    <3>1. Clean' /\ proc'.step \notin Queueing /\ Works
      BY <1>1, <2>3, RaiseTidy DEF Queueing, Works
    <3> QED BY <2>3, <3>1, StillTidy
  <2>4. CASE proc' = next /\ UNCHANGED <<lazy, pool, queue, balance, pending, world>>
    <3>1. Clean' /\ proc'.step \notin Queueing /\ Works
      BY <1>1, <1>2, <2>4 DEF Clean, Works, Queueing
    <3> QED BY <2>4, <3>1, StillTidy
  <2>5. CASE /\ proc' = next /\ ~lazy /\ UNCHANGED <<lazy, pool, queue>>
             /\ t \in Transfers /\ Executes(<<t>>)
    <3>1. Clean' /\ proc'.step \notin Queueing
      BY <1>1, <1>2, <2>5 DEF Clean, Queueing
    <3> DEFINE calls == <<t>>
    <3>2. t.to = Eoa /\ t.amount = amount - balance[Eoa]
      OBVIOUS
    <3> HIDE DEF t
    <3>3. calls \in Seq(Transfers) /\ Len(calls) = 1 /\ calls[1] = t
      BY <2>5
    <3>4. Executes(calls)
      BY <2>5
    <3> HIDE DEF calls
    <3>5. Gifts(calls, {Eoa})
      BY <2>1, <3>2, <3>3 DEF Gifts
    <3>6. PICK d \in Ledgers, k \in Nat, e \in Nat : Book(d, k, e)
      BY DEF SInv
    <3>7. /\ \A r \in Relayer : r \in Account /\ r # Main /\ r # Eoa
          /\ Eoa \in Account /\ Eoa # Main /\ Eoa \notin Relayer
      BY Accounts, AccountNumbers DEF Relayer
    <3>8. /\ balance \in [Account -> Nat] /\ d \in [Account -> Nat] /\ Balances(calls) \in [Account -> Nat]
          /\ \A r \in Relayer : balance[r] <= d[r] + Share(k)
          /\ balance[Eoa] <= d[Eoa] + Share(e)
          /\ Share(k) \in Nat /\ Share(e) \in Nat /\ Share(e) >= Full /\ Full \in Nat
      BY <1>1, <3>3, <3>6, BalancesType, ShareType, FullType DEF Types, Ledgers, Book
    <3>9. ASSUME NEW r \in Relayer PROVE Balances(calls)[r] <= d[r] + Share(k)
      <4>1. r \in Account /\ r \notin {Eoa} /\ {Eoa} \in SUBSET Account
        BY <3>7
      <4>2. Balances(calls)[r] <= balance[r]
        BY <1>1, <3>3, <3>5, <4>1, GiftPays
      <4> QED BY <3>8, <4>1, <4>2
    <3>10. Balances(calls)[Eoa] <= d[Eoa] + Share(e)
      <4> DEFINE most == d[Eoa] + Share(e)
                 b == balance[Eoa]
                 y == d[Eoa]
                 z == Share(e)
      <4>1. most \in Int /\ balance[Eoa] <= most
        BY <3>7, <3>8
      <4>2. balance[Eoa] + t.amount <= most
        <5>1. b \in Nat /\ y \in Nat /\ z \in Nat /\ z >= Full /\ Full \in Nat
          BY <3>7, <3>8
        <5> HIDE DEF b, y, z
        <5>2. b + (amount - b) <= y + z
          BY <2>1, <5>1
        <5> QED BY <3>2, <5>2 DEF b, y, z
      <4>3. \A n \in 1..Len(calls) : calls[n].to = Eoa =>
              /\ balance[Eoa] + calls[n].amount <= most
              /\ \A j \in 1..(n - 1) : calls[j].to # Eoa
        BY <3>3, <4>2
      <4> HIDE DEF most
      <4>4. Balances(calls)[Eoa] <= most
        BY <1>1, <3>3, <3>7, <4>1, <4>3, PaidOnce
      <4> QED BY <4>4 DEF most
    <3> QED BY <3>1, <3>3, <3>4, <3>5, <3>6, <3>9, <3>10, SentTidy DEF Known
  <2> QED BY <1>1, <2>2, <2>3, <2>4, <2>5 DEF Clean
<1> QED BY <1>3, <1>4 DEF DeployAndFundEvmAddress

LEMMA OthersSettled ==
  ASSUME TInv, SInv, ~KeepsQueue,
         GetRelayer \/ DeployEoa \/ Return \/ End \/ Kill \/ RequestRaises \/ UNCHANGED vars
  PROVE  SInv'
<1>1. ProcType
  BY DEF TInv, IInv
<1>2. CASE GetRelayer
  <2>1. Clean
    BY <1>2 DEF GetRelayer, SInv, Queueing
  <2>2. CASE /\ proc' = [Idle EXCEPT !.step = "done"] \/ proc' = Goto("eoa")
             /\ UNCHANGED <<network, memory, world>>
    <3>1. "eoa" \in Step
      BY DEF Step
    <3>2. proc'.step \in {"done", "eoa"}
      BY <1>1, <2>2, <3>1, GotoType DEF Idle
    <3>3. Clean' /\ proc'.step \notin Queueing /\ UNCHANGED <<balance, pending>> /\ Works
      BY <2>1, <2>2, <3>2 DEF Clean, network, memory, Works, Queueing
    <3> QED BY <3>3, StillTidy
  <2> QED BY <1>2, <2>1, <2>2, StartCreateSettled DEF GetRelayer
<1>3. CASE DeployEoa \/ Return
  <2>1. /\ Clean
        /\ proc' = [Idle EXCEPT !.step = "done"] \/ proc' = Idle
        /\ UNCHANGED <<balance, pending, lazy, queue>> /\ (Fails \/ Works)
    BY <1>3 DEF DeployEoa, Return, SInv, Queueing, network, memory, Works
  <2>2. proc'.step \in {"done", "idle"}
    BY <2>1 DEF Idle
  <2>3. Clean' /\ proc'.step \notin Queueing
    BY <2>1, <2>2 DEF Clean, Queueing
  <2> QED BY <2>1, <2>3, StillTidy
<1>4. CASE End \/ Kill \/ RequestRaises
  <2>1. Exit /\ UNCHANGED <<balance, pending>> /\ (Fails \/ Works)
    BY <1>4 DEF End, Kill, RequestRaises, Raise, KeepsQueue, network, Works
  <2>2. Clean' /\ proc'.step \notin Queueing
    BY <2>1, IdleType DEF Exit, Clean, Queueing
  <2> QED BY <2>1, <2>2, StillTidy
<1>5. CASE UNCHANGED vars
  <2>1. UNCHANGED <<balance, pending, lazy, queue, proc, world>>
    BY <1>5 DEF vars, network, memory
  <2>2. PICK d \in Ledgers, k \in Nat, e \in Nat : Book(d, k, e) /\ Queued(d, k)
    BY DEF SInv
  <2>3. Book(d, k, e)' /\ Queued(d, k)'
    <3>1. Types /\ Works
      BY <2>1 DEF TInv, Works
    <3>2. Book(d, k, e)'
      BY <2>1, <2>2, <3>1, SameBook
    <3>3. (Fits(queue, d, k)' <=> Fits(queue, d, k)) /\ (Gifts(queue, Relayer)' <=> Gifts(queue, Relayer))
      BY <2>1 DEF Fits, Gifts
    <3> QED BY <2>1, <2>2, <3>2, <3>3 DEF Queued
  <2>4. /\ IF proc'.step \in Queueing THEN ~proc'.isLazy ELSE Clean'
        /\ \A p \in pending' : Known(p)
        /\ world'.failed <= world'.failures
    BY <2>1 DEF SInv, Known, Clean
  <2> QED BY <2>3, <2>4 DEF SInv, Known, Gifts, ToMain, Full, Transfers
<1> QED BY <1>2, <1>3, <1>4, <1>5

LEMMA NextSettled ==
  ASSUME TInv, SInv, Able, [Next]_vars
  PROVE  SInv'
<1>1. CASE Get
  <2>1. Clean
    BY <1>1 DEF Get, SInv, Queueing
  <2> QED BY <1>1, <2>1, StartCreateSettled DEF Get
<1>2. CASE DeployRelayer \/ ApproveMain
  BY <1>2, LoopsSettled, NextWorld
<1>3. CASE FundRelayer \/ ExecuteCalls
  BY <1>3, FundRelayerSettled, ExecuteCallsSettled DEF Able
<1>4. CASE WithdrawAll \/ DeployAndFundEvmAddress \/ Includes
  BY <1>4, WithdrawAllSettled, FundEoaSettled, IncludesSettled
<1>5. CASE GetRelayer \/ DeployEoa \/ Return \/ End \/ Kill \/ RequestRaises \/ UNCHANGED vars
  BY <1>5, OthersSettled DEF Able
<1> QED BY <1>1, <1>2, <1>3, <1>4, <1>5 DEF Next, Continue

\* A session whose main account has the funds for every relayer, and for those that a failure
\* or a late transaction makes it pay again, is not left lazy: no funding raises, for any
\* number of relayers, whatever other accounts have and however the multicalls that are late
\* and the withdrawals are ordered.
THEOREM NotLeftLazyHolds == Spec => []NotLeftLazy
<1> DEFINE Inv == TInv /\ (Able => SInv)
<1>1. Init => Inv
  <2> SUFFICES ASSUME Init PROVE Inv
    OBVIOUS
  <2>1. TInv
    BY InitInvariant, InitTypes DEF TInv
  <2>2. PICK w \in Worlds :
          world = [funds |-> w.funds, dust |-> w.dust, session |-> w.session,
                   raises |-> w.raises, late |-> w.late, failures |-> w.failures,
                   queued |-> w.queued, failed |-> 0]
    BY DEF Init
  <2>3. world.failed = 0 /\ world.failures \in Nat
    BY <2>1, <2>2 DEF TInv, Types, World
  <2>4. /\ balance \in Ledgers /\ balance[Main] = world.funds
        /\ pending = {} /\ Clean /\ proc.step \notin Queueing
    BY <2>1, Accounts, IdleType DEF TInv, Types, Init, Clean, Queueing
  <2>5. Book(balance, 0, 0)
    <3>1. balance \in [Account -> Int] /\ \A a \in Account : balance[a] \in Nat
      BY <2>4 DEF Ledgers
    <3>2. \E x \in Int : Totals(balance, x) /\ Totals(balance, x)
      BY <3>1, TotalExists
    <3>3. IsFiniteSet(pending) /\ 0 + 0 + Cardinality(pending) <= world.failed
      BY <2>3, <2>4, FS_EmptySet
    <3>4. Share(0) \in Nat
      BY ShareType
    <3>5. (\A r \in Relayer : balance[r] <= balance[r] + Share(0)) /\ balance[Eoa] <= balance[Eoa] + Share(0)
      BY <3>1, <3>4, Accounts
    <3> QED BY <2>4, <3>2, <3>3, <3>5 DEF Book
  <2>6. Queued(balance, 0)
    BY <2>4 DEF Queued, Queueing
  <2>7. \E d \in Ledgers, k, e \in Nat : Book(d, k, e) /\ Queued(d, k)
    BY <2>4, <2>5, <2>6
  <2>8. SInv
    BY <2>3, <2>4, <2>7 DEF SInv
  <2> QED BY <2>1, <2>8
<1>2. Inv /\ [Next]_vars => Inv'
  <2> SUFFICES ASSUME Inv, [Next]_vars PROVE Inv'
    OBVIOUS
  <2>1. TInv'
    BY NextInvariant, NextTypes DEF TInv
  <2>2. Able' => Able
    BY AbleStays DEF TInv
  <2>3. Able => SInv'
    BY NextSettled
  <2> QED BY <2>1, <2>2, <2>3
<1>3. Inv => NotLeftLazy
  <2> SUFFICES ASSUME SInv, proc.step = "idle" PROVE ~lazy /\ queue = <<>>
    BY DEF NotLeftLazy, Able
  <2> QED BY DEF SInv, Queueing, Clean
<1> QED BY <1>1, <1>2, <1>3, PTL DEF Spec
=============================================================================
