----------------------------- MODULE Deployment -----------------------------
(***************************************************************************)
(* The deployment scripts (kakarot_scripts/deployment/*.py) over the files  *)
(* they keep and the chain they write to.                                  *)
(*                                                                         *)
(* A script is one process that runs a list of steps.  The deployer account *)
(* is lazy for most of a run: an invoke only appends to a queue, and        *)
(* execute_calls sends the whole queue as one transaction.  Other steps     *)
(* (EVM deployments, sent by relayers) take effect at once.  The process    *)
(* may be killed between two steps and the operator runs a script again:    *)
(* what survives is the chain and the json files.                          *)
(*                                                                         *)
(* Starknet addresses are numbers that are never reused (the salt is        *)
(* random).  A recorded EVM contract carries the Kakarot instance that its  *)
(* Starknet address was computed from.                                     *)
(* Contracts that the scripts treat alike are represented by one name:     *)
(* account_contract stands for Cairo1Helpers too, Counter for the other    *)
(* fixtures, token for every DualVM token.                                 *)
(***************************************************************************)
EXTENDS Naturals, Sequences, FiniteSets

CONSTANTS
  PreEip155,    \* the keys of PRE_EIP155_TX, in order
  Worlds        \* the circumstances to consider, and the bounds of each

ASSUME WorldsAssumption ==
  Worlds \subseteq [network : {"dev", "staging", "prod"},
                    reverts : BOOLEAN,  \* a transaction may be reverted for reasons of its own
                    resets : BOOLEAN,   \* the local chain may be restarted, the files staying
                    builds : Nat \ {0}, \* bound: class versions of a contract
                    runs : Nat,         \* bound: runs of a script
                    crashes : Nat]      \* bound: runs that are killed, and chain restarts

\* PRE_EIP155_TX has each key once, and they are no names of other contracts.
ASSUME PreEip155Assumption ==
  /\ PreEip155 \in Seq({PreEip155[i] : i \in DOMAIN PreEip155})
  /\ \A i, j \in DOMAIN PreEip155 : PreEip155[i] = PreEip155[j] => i = j
  /\ \A i \in DOMAIN PreEip155 :
       PreEip155[i] \notin {"WETH9", "Coinbase", "token", "deployer", "precompiles"}

VARIABLES
  world,   \* one of Worlds, which stays, with the runs and crashes so far
  build,   \* class_hashes.json: the version of every compiled class
  chain,   \* what is declared, deployed and stored on Starknet
  files,   \* declarations.json, deployments.json, kakarot_deployments.json
  proc,    \* the running process
  last,    \* how the last process ended
  fresh    \* the next unused Starknet address

vars == <<world, build, chain, files, proc, last, fresh>>

\* NETWORK["type"]
Network == world.network
MayRevert == world.reverts

Contracts == <<"kakarot", "account_contract", "EVM", "Counter", "StarknetToken">>
Classes == {"kakarot", "account_contract", "EVM", "Counter", "StarknetToken"}
Fixtures == <<"EVM", "Counter">>
Precompiles == "precompiles"     \* ALL_PRECOMPILES, funded one after the other
EvmDeployer == "deployer"        \* the account of EVM_ADDRESS
Deployer == 1                    \* EVM_ADDRESS, as a coinbase
Unset == 0                       \* the zero coinbase

Empty == [x \in {} |-> x]
Names(s) == {s[i] : i \in DOMAIN s}

\* The function f, with v at x.
With(f, x, v) == [y \in DOMAIN f \cup {x} |-> IF y = x THEN v ELSE f[y]]

EmptyChain == [declared |-> {}, code |-> Empty, core |-> Empty, evmCoinbase |-> {}]
NoProcess == [script |-> "none", todo |-> <<>>, lazy |-> FALSE, queue |-> <<>>,
              pool |-> FALSE, evm |-> Empty, should |-> {}, token |-> Unset]

\* The storage of a Kakarot instance after its constructor.
NewCore(account) ==
  [account |-> account, coinbase |-> Unset, fee |-> FALSE, eoas |-> {}, funded |-> {},
   authorized |-> {}, callers |-> {}, sent |-> {}, created |-> {}, contracts |-> {}]

Init ==
  /\ \E w \in Worlds :
       world = [network |-> w.network, reverts |-> w.reverts, resets |-> w.resets,
                builds |-> w.builds, runs |-> w.runs, crashes |-> w.crashes,
                ran |-> 0, crashed |-> 0]
  /\ build = [c \in Classes |-> 1]
  /\ chain = EmptyChain
  /\ files = [declared |-> Empty, starknet |-> Empty, evm |-> Empty]
  /\ proc = NoProcess
  /\ last = "none"
  /\ fresh = 2

-----------------------------------------------------------------------------
(* Calls, and the transactions that carry them                             *)

\* A call of the deployer account: the operation, the contract it is sent to,
\* its argument, and the declared classes it was built from.
Call(op, to, arg) == [op |-> op, to |-> to, arg |-> arg, class |-> files.declared]

Accepts(ch, c) ==
  CASE c.op = "deploy" -> c.to \notin DOMAIN ch.code /\ <<c.arg, c.class[c.arg]>> \in ch.declared
    [] c.op = "upgrade" -> c.to \in DOMAIN ch.core /\ <<"kakarot", c.class["kakarot"]>> \in ch.declared
    [] c.op = "set_evm_coinbase" -> c.to \in DOMAIN ch.code
    [] c.op = "authorize" -> c.to \in DOMAIN ch.core /\ c.arg \in ch.core[c.to].eoas
    [] OTHER -> c.to \in DOMAIN ch.core

Effect(ch, c) ==
  CASE c.op = "deploy" ->
         [ch EXCEPT !.code = With(@, c.to, [name |-> c.arg, class |-> c.class[c.arg]]),
                    !.core = IF c.arg = "kakarot"
                             THEN With(@, c.to, NewCore(c.class["account_contract"])) ELSE @]
    [] c.op = "upgrade" -> [ch EXCEPT !.code[c.to].class = c.class["kakarot"]]
    [] c.op = "set_account_class" -> [ch EXCEPT !.core[c.to].account = c.class["account_contract"]]
    [] c.op = "set_base_fee" -> [ch EXCEPT !.core[c.to].fee = TRUE]
    [] c.op = "set_coinbase" -> [ch EXCEPT !.core[c.to].coinbase = c.arg]
    [] c.op = "set_evm_coinbase" -> [ch EXCEPT !.evmCoinbase = @ \cup {c.to}]
    [] c.op = "fund" -> [ch EXCEPT !.core[c.to].funded = @ \cup {c.arg}]
    [] c.op = "deploy_eoa" -> [ch EXCEPT !.core[c.to].eoas = @ \cup {c.arg}]
    [] c.op = "authorize" -> [ch EXCEPT !.core[c.to].authorized = @ \cup {c.arg}]
    [] c.op = "authorize_caller" -> [ch EXCEPT !.core[c.to].callers = @ \cup {c.arg}]

\* One call of a transaction; a call that is refused reverts them all.
After(s, c) ==
  IF s.ok /\ Accepts(s.chain, c) THEN [ok |-> TRUE, chain |-> Effect(s.chain, c)]
  ELSE [ok |-> FALSE, chain |-> chain]

\* The chain after a transaction with these calls.
Executed(calls) ==
  LET after[n \in 0..Len(calls)] ==
        IF n = 0 THEN [ok |-> TRUE, chain |-> chain] ELSE After(after[n - 1], calls[n])
  IN  after[Len(calls)].chain

\* The chains a transaction may lead to.  A reverted transaction is only logged.
Outcomes(calls) == {Executed(calls)} \cup (IF MayRevert THEN {chain} ELSE {})

\* The process after an invoke, and the chain after it.
Invoke(p, calls) ==
  IF p.lazy
  THEN proc' = [p EXCEPT !.queue = @ \o calls] /\ chain' = chain
  ELSE proc' = p /\ \E ch \in Outcomes(calls) : chain' = ch

-----------------------------------------------------------------------------
(* Reading the chain                                                       *)

\* get_class_hash_at answers for the address.
Exists(a) == a \in DOMAIN chain.code
Recorded(name) == name \in DOMAIN files.starknet
Kakarot == files.starknet["kakarot"]
KakarotAnswers == Recorded("kakarot") /\ Kakarot \in DOMAIN chain.core
Core == chain.core[Kakarot]

\* Mutant of Skips: the class deployed is not compared.
SkipsAnyClass(name) == Recorded(name) /\ Exists(files.starknet[name])

\* deploy returns the recorded address: it holds the declared class.
Skips(name) ==
  /\ Recorded(name)
  /\ Exists(files.starknet[name])
  /\ chain.code[files.starknet[name]].class = files.declared[name]

-----------------------------------------------------------------------------
(* The process                                                             *)

\* A step: what is done, and for whom or what.
Step(kind, of) == [kind |-> kind, of |-> of]
Do(kind) == Step(kind, "all")

At(kind) == proc.todo # <<>> /\ Head(proc.todo).kind = kind
Subject == Head(proc.todo).of
Done(p) == [p EXCEPT !.todo = Tail(@)]

\* Mutant of Ends: the queue outlives the process.
EndsKeepingQueue(how) == proc' = [NoProcess EXCEPT !.queue = proc.queue] /\ last' = how

\* The process ends: its queue, its cached pool and its variables are lost.
Ends(how) == proc' = NoProcess /\ last' = how

Raise == Ends("raised") /\ UNCHANGED <<build, chain, files, fresh, world>>

\* execute_calls: one transaction per account; then the queue is replaced.
Execute ==
  /\ At("execute")
  /\ \E ch \in Outcomes(proc.queue) : chain' = ch
  /\ proc' = [Done(proc) EXCEPT !.queue = <<>>]
  /\ UNCHANGED <<build, files, last, fresh, world>>

RegisterLazyAccount ==
  /\ At("register")
  /\ proc' = [Done(proc) EXCEPT !.lazy = TRUE]
  /\ UNCHANGED <<build, chain, files, last, fresh, world>>

RemoveLazyAccount ==
  /\ At("remove")
  /\ proc' = [Done(proc) EXCEPT !.lazy = FALSE]
  /\ UNCHANGED <<build, chain, files, last, fresh, world>>

\* The checks at the head of a standalone main: log and return.
ExitUnless(kind, ok) ==
  /\ At(kind)
  /\ IF ok THEN proc' = Done(proc) /\ last' = last ELSE Ends("done")
  /\ UNCHANGED <<build, chain, files, fresh, world>>

CheckDeclared ==
  ExitUnless("check_declared", /\ "kakarot" \in DOMAIN files.declared
                               /\ <<"kakarot", files.declared["kakarot"]>> \in chain.declared)
CheckDeployed == ExitUnless("check_deployed", Recorded("kakarot") /\ Exists(Kakarot))

-----------------------------------------------------------------------------
(* declarations.py                                                         *)

\* declare: skipped when the class is there; its status is only logged.
Declare ==
  /\ At("declare")
  /\ LET class == <<Subject, build[Subject]>>
     IN \/ chain' = [chain EXCEPT !.declared = @ \cup {class}]
        \/ MayRevert /\ UNCHANGED chain
  /\ proc' = Done(proc)
  /\ UNCHANGED <<build, files, last, fresh, world>>

DumpDeclarations ==
  /\ At("dump_declarations")
  /\ files' = [files EXCEPT !.declared = build]
  /\ proc' = Done(proc)
  /\ UNCHANGED <<build, chain, last, fresh, world>>

-----------------------------------------------------------------------------
(* starknet_deployments.py and kakarot_deployment.py                       *)

\* deploy_starknet_contracts.  Everything it sends is queued, so that its
\* effect is the queue and the dumped file.
DeployStarknetContracts ==
  /\ At("starknet")
  /\ IF Network = "prod"
     THEN proc' = Done(proc) /\ UNCHANGED <<files, fresh>>
     ELSE LET addr(i) == IF Skips(Fixtures[i]) THEN files.starknet[Fixtures[i]] ELSE fresh + i
              deploy(i) == IF Skips(Fixtures[i]) THEN <<>>
                           ELSE <<Call("deploy", addr(i), Fixtures[i])>>
              coinbase == IF addr(1) \in chain.evmCoinbase THEN <<>>
                          ELSE <<Call("set_evm_coinbase", addr(1), Deployer)>>
          IN /\ proc' = [Done(proc) EXCEPT !.queue = @ \o deploy(1) \o deploy(2) \o coinbase]
             /\ files' = [files EXCEPT !.starknet = With(With(@, Fixtures[1], addr(1)), Fixtures[2], addr(2))]
             /\ fresh' = fresh + Len(Fixtures) + 1
  /\ UNCHANGED <<build, chain, last, world>>

\* Mutant of Configure: the coinbase is left to the deployment of the EVM contracts.
ConfigureFeeOnly(k) == <<Call("set_base_fee", k, 0)>>

\* The calls that follow a deployment of Kakarot.  They stand behind it in
\* the queue, so that one transaction carries them all.
Configure(k) == <<Call("set_base_fee", k, 0), Call("set_coinbase", k, Deployer)>>

\* The calls that make a deployed instance the declared one.  The chain id is not
\* initialized here: every instance has it from its constructor.
Upgrade ==
  IF chain.code[Kakarot].class = files.declared["kakarot"] THEN <<>>
  ELSE <<Call("upgrade", Kakarot, 0), Call("set_account_class", Kakarot, 0)>>

\* deploy_or_upgrade_kakarot.  An instance that is recorded is upgraded, but on
\* a development network; asking for the class of one that does not exist raises.
DeployOrUpgradeKakarot ==
  /\ At("kakarot")
  /\ IF Recorded("kakarot") /\ Network # "dev"
     THEN IF Exists(Kakarot)
          THEN /\ proc' = [Done(proc) EXCEPT !.queue = @ \o Upgrade]
               /\ UNCHANGED <<files, last, fresh>>
          ELSE Ends("raised") /\ UNCHANGED <<files, fresh>>
     ELSE LET k == IF Skips("kakarot") THEN Kakarot ELSE fresh
              deploys == IF Skips("kakarot") THEN <<>> ELSE <<Call("deploy", k, "kakarot")>>
          IN /\ proc' = [Done(proc) EXCEPT !.queue = @ \o deploys \o Configure(k)]
             /\ files' = [files EXCEPT !.starknet = With(@, "kakarot", k)]
             /\ fresh' = fresh + 1
             /\ UNCHANGED last
  /\ UNCHANGED <<build, chain, world>>

-----------------------------------------------------------------------------
(* EVM accounts (utils/kakarot.py)                                         *)

\* RelayerPool.get, when the process has no pool yet: creating one runs
\* execute_calls, which also sends whatever the script has queued so far.
CreatePool ==
  /\ ~proc.pool
  /\ \/ At("deploy_evm")
     \/ At("eoa") /\ KakarotAnswers /\ Subject \notin Core.eoas
     \/ At("send") /\ Subject \in proc.should
  /\ \E ch \in Outcomes(proc.queue) : chain' = ch
  /\ proc' = [proc EXCEPT !.queue = <<>>, !.pool = TRUE]
  /\ UNCHANGED <<build, files, last, fresh, world>>

\* deploy_and_fund_evm_address, its first half: read, then fund what is missing.
FundStep ==
  /\ At("fund")
  /\ LET who == Subject
     IN IF KakarotAnswers
        THEN /\ Invoke(Done(proc), IF who \in Core.funded THEN <<>>
                                   ELSE <<Call("fund", Kakarot, who)>>)
             /\ UNCHANGED <<build, files, last, fresh, world>>
        ELSE Raise

\* Its second half: a relayer deploys the account at once, if there is none.
DeployEoa ==
  /\ At("eoa")
  /\ LET who == Subject
     IN CASE ~KakarotAnswers -> Raise
          [] KakarotAnswers /\ who \in Core.eoas ->
               proc' = Done(proc) /\ UNCHANGED <<build, chain, files, last, fresh, world>>
          [] OTHER ->
               /\ proc.pool
               /\ \E ch \in Outcomes(<<Call("deploy_eoa", Kakarot, who)>>) : chain' = ch
               /\ proc' = Done(proc)
               /\ UNCHANGED <<build, files, last, fresh, world>>

DeployAndFund(who) == << Step("fund", who), Step("eoa", who) >>

\* kakarot.deploy: an EVM transaction of the deployer.  It raises unless the
\* transaction succeeded, and only then does the caller note the address, which
\* follows from the deployer's nonce: two Kakarot instances give the same one.
DeployEvm ==
  /\ At("deploy_evm")
  /\ proc.pool
  /\ \/ /\ KakarotAnswers
        /\ EvmDeployer \in Core.eoas \cap Core.funded
        /\ LET new == Deployer + 1 + Cardinality(Core.contracts)
           IN /\ chain' = [chain EXCEPT !.core[Kakarot].contracts = @ \cup {new}]
              /\ proc' = [Done(proc) EXCEPT
                   !.evm = With(@, Subject, [address |-> new, kakarot |-> Kakarot])]
        /\ UNCHANGED <<build, files, last, fresh, world>>
     \/ /\ \/ MayRevert
           \/ ~KakarotAnswers
           \/ KakarotAnswers /\ EvmDeployer \notin Core.eoas \cap Core.funded
        /\ Raise

\* The steps of deploy for a contract: get_eoa, then the transaction.
Deploys(name) == << Step("eoa", EvmDeployer), Step("deploy_evm", name) >>

-----------------------------------------------------------------------------
(* evm_deployments.py                                                      *)

\* Every function that deploys EVM contracts starts from the file.
LoadEvm ==
  /\ At("load_evm")
  /\ proc' = [Done(proc) EXCEPT !.evm = files.evm]
  /\ UNCHANGED <<build, chain, files, last, fresh, world>>

\* Mutant of DumpEvm: the file is not written.
DumpNothing ==
  /\ At("dump_evm")
  /\ proc' = Done(proc)
  /\ UNCHANGED <<build, chain, files, last, fresh, world>>

DumpEvm ==
  /\ At("dump_evm")
  /\ files' = [files EXCEPT !.evm = proc.evm]
  /\ proc' = Done(proc)
  /\ UNCHANGED <<build, chain, last, fresh, world>>

\* The Starknet address recorded is the one Kakarot gives today.
SameKakarot(name) == name \in DOMAIN proc.evm /\ proc.evm[name].kakarot = Kakarot

Weth ==
  /\ At("weth")
  /\ IF KakarotAnswers
     THEN /\ proc' = [proc EXCEPT !.todo = (IF SameKakarot("WETH9") THEN <<>> ELSE Deploys("WETH9"))
                                              \o Tail(@)]
          /\ UNCHANGED <<build, chain, files, last, fresh, world>>
     ELSE Raise

CoinbaseIsRecorded == "Coinbase" \in DOMAIN proc.evm /\ proc.evm["Coinbase"].address = Core.coinbase

Coinbase ==
  /\ At("coinbase")
  /\ IF KakarotAnswers
     THEN /\ proc' = [proc EXCEPT !.todo = (IF CoinbaseIsRecorded THEN <<>>
                                            ELSE Deploys("Coinbase") \o << Do("set_coinbase") >>)
                                           \o Tail(@)]
          /\ UNCHANGED <<build, chain, files, last, fresh, world>>
     ELSE Raise

SetCoinbase ==
  /\ At("set_coinbase")
  /\ Invoke(Done(proc), <<Call("set_coinbase", Kakarot, proc.evm["Coinbase"].address)>>)
  /\ UNCHANGED <<build, files, last, fresh, world>>

-----------------------------------------------------------------------------
(* dualvm_token_deployments.py                                             *)

\* The token recorded has a class, and it answers for the present Kakarot.
TokenInPlace ==
  /\ "token" \in DOMAIN proc.evm
  /\ proc.evm["token"].kakarot = Kakarot
  /\ proc.evm["token"].address \in Core.contracts

\* One round of the loop of deploy_dualvm_tokens.  The Starknet token exists,
\* but on a development network, where a new one is deployed.
Token ==
  /\ At("token")
  /\ LET deploy == Deploys("token") \o << Do("authorize_caller") >>
     IN CASE ~KakarotAnswers -> Raise
          [] KakarotAnswers /\ TokenInPlace ->
               proc' = Done(proc) /\ UNCHANGED <<build, chain, files, last, fresh, world>>
          [] KakarotAnswers /\ ~TokenInPlace /\ Network = "dev" ->
               /\ Invoke([proc EXCEPT !.todo = deploy \o << Do("check_token") >> \o Tail(@),
                                      !.token = fresh],
                         <<Call("deploy", fresh, "StarknetToken")>>)
               /\ fresh' = fresh + 1
               /\ UNCHANGED <<build, files, last, world>>
          [] OTHER ->
               IF "token" \in DOMAIN proc.evm THEN Raise
               ELSE /\ proc' = [proc EXCEPT !.todo = deploy \o Tail(@)]
                    /\ UNCHANGED <<build, chain, files, last, fresh, world>>

\* Mutant of AuthorizeCaller: the call is not made.
AuthorizeNobody ==
  /\ At("authorize_caller")
  /\ proc' = Done(proc)
  /\ UNCHANGED <<build, chain, files, last, fresh, world>>

AuthorizeCaller ==
  /\ At("authorize_caller")
  /\ Invoke(Done(proc), <<Call("authorize_caller", Kakarot, proc.evm["token"].address)>>)
  /\ UNCHANGED <<build, files, last, fresh, world>>

\* The assertions on the new contract, which reads the Starknet token.
CheckToken ==
  /\ At("check_token")
  /\ IF Exists(proc.token)
     THEN proc' = Done(proc) /\ UNCHANGED <<build, chain, files, last, fresh, world>>
     ELSE Raise

-----------------------------------------------------------------------------
(* pre_eip155_deployments.py                                               *)

\* Mutant of Sender: the comparison of the nonces is inverted.
SenderSkipsUnsent ==
  /\ At("sender")
  /\ KakarotAnswers
  /\ LET n == Subject
     IN proc' = IF n \in Core.sent
                THEN [proc EXCEPT !.todo = DeployAndFund(n) \o Tail(@), !.should = @ \cup {n}]
                ELSE [Done(proc) EXCEPT !.should = @ \ {n}]
  /\ UNCHANGED <<build, chain, files, last, fresh, world>>

\* deploy_pre_eip155_sender: skipped when its transaction was sent before.
Sender ==
  /\ At("sender")
  /\ LET n == Subject
     IN CASE ~KakarotAnswers -> Raise
          [] KakarotAnswers /\ n \in Core.sent ->
               /\ proc' = [Done(proc) EXCEPT !.should = @ \ {n}]
               /\ UNCHANGED <<build, chain, files, last, fresh, world>>
          [] OTHER ->
               /\ proc' = [proc EXCEPT !.todo = DeployAndFund(n) \o Tail(@), !.should = @ \cup {n}]
               /\ UNCHANGED <<build, chain, files, last, fresh, world>>

WhitelistStep ==
  /\ At("whitelist")
  /\ LET n == Subject
     IN Invoke(Done(proc), IF n \in proc.should THEN <<Call("authorize", Kakarot, n)>> ELSE <<>>)
  /\ UNCHANGED <<build, files, last, fresh, world>>

\* The transaction as the chain accepts it.
Sendable(n) == n \in (Core.eoas \cap Core.funded \cap Core.authorized) \ Core.sent

\* deploy_pre_eip155_contracts, for one name.  The address is noted whether
\* the transaction was skipped, succeeded or failed in the EVM.
Send ==
  /\ At("send")
  /\ LET n == Subject
         noted == [Done(proc) EXCEPT !.evm = With(@, n, [address |-> Unset, kakarot |-> Kakarot])]
     IN \/ /\ KakarotAnswers /\ n \notin proc.should
           /\ proc' = noted /\ UNCHANGED <<build, chain, files, last, fresh, world>>
        \/ /\ KakarotAnswers /\ n \in proc.should /\ proc.pool /\ Sendable(n)
           /\ \E created \in {{n}} \cup (IF MayRevert THEN {{}} ELSE {}) :
                chain' = [chain EXCEPT !.core[Kakarot].sent = @ \cup {n},
                                       !.core[Kakarot].created = @ \cup created]
           /\ proc' = noted /\ UNCHANGED <<build, files, last, fresh, world>>
        \/ /\ \/ ~KakarotAnswers
              \/ n \in proc.should /\ proc.pool /\ (MayRevert \/ ~Sendable(n))
           /\ Raise

-----------------------------------------------------------------------------
(* The scripts                                                             *)

\* The end of main.py: every precompile must have received its funds.
Teardown ==
  /\ At("teardown")
  /\ IF KakarotAnswers /\ Precompiles \in Core.funded
     THEN proc' = Done(proc) /\ UNCHANGED <<build, chain, files, last, fresh, world>>
     ELSE Raise

Each(kind) == [i \in DOMAIN PreEip155 |-> Step(kind, PreEip155[i])]

DeclareContracts ==
  [i \in DOMAIN Contracts |-> Step("declare", Contracts[i])] \o << Do("dump_declarations") >>

DeployEvmContracts ==
  << Do("load_evm"), Do("weth"), Do("coinbase"), Step("fund", Precompiles), Do("dump_evm") >>

DeployDualVmTokens == << Do("remove"), Do("load_evm"), Do("token"), Do("dump_evm"), Do("register") >>

SendTransactions == << Do("load_evm") >> \o Each("send") \o << Do("dump_evm") >>

\* Mutant of Main: the transactions are sent before the whitelist is executed.
MainSendsFirst ==
  << Do("register"), Do("starknet"), Do("kakarot"), Do("execute") >>
    \o Each("sender") \o DeployAndFund(EvmDeployer) \o << Do("execute") >>
    \o DeployEvmContracts \o DeployDualVmTokens
    \o Each("whitelist") \o SendTransactions \o << Do("execute"), Do("remove"), Do("teardown") >>

Main ==
  << Do("register"), Do("starknet"), Do("kakarot"), Do("execute") >>
    \o Each("sender") \o DeployAndFund(EvmDeployer) \o << Do("execute") >>
    \o DeployEvmContracts \o DeployDualVmTokens
    \o Each("whitelist") \o << Do("execute"), Do("remove") >>
    \o SendTransactions \o << Do("teardown") >>

StarknetMain ==
  << Do("check_declared"), Do("register"), Do("starknet"), Do("execute"), Do("remove") >>

KakarotMain ==
  << Do("check_declared"), Do("register"), Do("kakarot"), Do("execute"), Do("remove") >>

EvmMain ==
  << Do("check_deployed") >> \o DeployAndFund(EvmDeployer) \o << Do("register") >>
    \o DeployEvmContracts \o << Do("execute"), Do("remove") >>

DualVmMain == << Do("check_deployed") >> \o DeployAndFund(EvmDeployer) \o DeployDualVmTokens

PreEip155Main ==
  << Do("check_deployed"), Do("register") >> \o Each("sender") \o << Do("execute") >>
    \o Each("whitelist") \o << Do("execute"), Do("remove") >> \o SendTransactions

\* make deploy declares first.
Program(script) ==
  CASE script = "deploy" -> DeclareContracts \o Main
    [] script = "starknet" -> StarknetMain
    [] script = "kakarot" -> KakarotMain
    [] script = "evm" -> EvmMain
    [] script = "dualvm" -> DualVmMain
    [] script = "pre_eip155" -> PreEip155Main

-----------------------------------------------------------------------------
(* Operator and environment                                                *)

Idle == proc.script = "none"

Scripts == {"deploy", "starknet", "kakarot", "evm", "dualvm", "pre_eip155"}

Start(script) ==
  /\ Idle
  /\ world.ran < world.runs
  /\ proc' = [NoProcess EXCEPT !.script = script, !.todo = Program(script)]
  /\ world' = [world EXCEPT !.ran = @ + 1]
  /\ UNCHANGED <<build, chain, files, last, fresh>>

Finish ==
  /\ ~Idle
  /\ proc.todo = <<>>
  /\ Ends("done")
  /\ UNCHANGED <<build, chain, files, fresh, world>>

\* The process is killed between two steps, or a request of it fails.
Crash ==
  /\ ~Idle
  /\ world.crashed < world.crashes
  /\ world' = [world EXCEPT !.crashed = @ + 1]
  /\ Ends("killed")
  /\ UNCHANGED <<build, chain, files, fresh>>

\* A build that changes the classes named; the sources that a build touches.
Changes == {{"kakarot"}, {"account_contract"}, {"EVM"}, Classes}

Build ==
  /\ Idle
  /\ \E changed \in Changes :
       /\ \A c \in changed : build[c] < world.builds
       /\ build' = [c \in Classes |-> IF c \in changed THEN build[c] + 1 ELSE build[c]]
  /\ UNCHANGED <<chain, files, proc, last, fresh, world>>

\* make run-katana starts from an empty chain; deployments/ is kept.
ResetChain ==
  /\ world.resets /\ Network = "dev"
  /\ Idle
  /\ world.crashed < world.crashes
  /\ world' = [world EXCEPT !.crashed = @ + 1]
  /\ chain' = EmptyChain
  /\ UNCHANGED <<build, files, proc, last, fresh>>

Run ==
  \/ Execute \/ RegisterLazyAccount \/ RemoveLazyAccount \/ CheckDeclared \/ CheckDeployed
  \/ Declare \/ DumpDeclarations \/ DeployStarknetContracts \/ DeployOrUpgradeKakarot
  \/ CreatePool \/ FundStep \/ DeployEoa \/ DeployEvm
  \/ LoadEvm \/ DumpEvm \/ Weth \/ Coinbase \/ SetCoinbase
  \/ Token \/ AuthorizeCaller \/ CheckToken
  \/ Sender \/ WhitelistStep \/ Send \/ Teardown \/ Finish

Next ==
  \/ Run
  \/ \E script \in Scripts : Start(script)
  \/ Crash \/ Build \/ ResetChain

Spec == Init /\ [][Next]_vars

\* A process that runs goes on.  Nobody has to run a script again, so that
\* starting one is not fair.
FairSpec == Spec /\ WF_vars(Run)

-----------------------------------------------------------------------------
(* Properties                                                              *)

\* Queues hold calls, files hold addresses that were given out.
TypeOK ==
  /\ build \in [Classes -> 1..world.builds]
  /\ DOMAIN chain.core \subseteq DOMAIN chain.code
  /\ \A n \in DOMAIN files.starknet : files.starknet[n] \in 2..fresh
  /\ DOMAIN files.evm \subseteq {"WETH9", "Coinbase", "token"} \cup Names(PreEip155)
  /\ last \in {"none", "done", "raised", "killed"}
  /\ Idle => proc = NoProcess
  /\ world.ran \in 0..world.runs /\ world.crashed \in 0..world.crashes

\* Fees never go to the zero address: no Kakarot instance is ever left with a
\* zero coinbase between its deployment and the call that sets it, whatever
\* step the process is killed at (kakarot_deployment.py, the comment before
\* set_coinbase).
CoinbaseNeverZero == \A k \in DOMAIN chain.core : chain.core[k].coinbase # Unset

\* Whenever no script runs, fees go to the deployer or to the Coinbase contract
\* that kakarot_deployments.json names, never to one whose address was lost.
CoinbaseIsKnown ==
  Idle /\ KakarotAnswers =>
    \/ Core.coinbase = Deployer
    \/ "Coinbase" \in DOMAIN files.evm /\ files.evm["Coinbase"].address = Core.coinbase

\* A contract that kakarot_deployments.json names exists in the Kakarot instance
\* it was recorded for, unless transactions revert or the chain starts again: the
\* file is written after the contract was sent for, wherever a run is killed.
RecordedEvmIsDeployed ==
  ~MayRevert /\ ~world.resets =>
  \A n \in DOMAIN files.evm :
    LET at == files.evm[n]
    IN /\ at.kakarot \in DOMAIN chain.core
       /\ IF n \in Names(PreEip155) THEN n \in chain.core[at.kakarot].created
          ELSE at.address \in chain.core[at.kakarot].contracts

\* A DualVM token that the file names may call Cairo: no crash leaves one that
\* later runs skip although its authorization was never sent.
RecordedTokenIsAuthorized ==
  ~MayRevert /\ "token" \in DOMAIN files.evm /\ files.evm["token"].kakarot \in DOMAIN chain.core =>
    files.evm["token"].address \in chain.core[files.evm["token"].kakarot].callers

\* The classes that declarations.json names are declared.
ClassesDeclared ==
  \A c \in DOMAIN files.declared : <<c, files.declared[c]>> \in chain.declared

\* The steps of a script stand in an order the chain accepts, after any history
\* of builds, killed runs and restarts: a run is killed or done, but none raises
\* unless a class is missing on the chain.  (It may be: the scripts that are run alone
\* ask for the class of Kakarot only, check_declared.)
RunsNeverRaise ==
  [][~MayRevert /\ Network = "dev" /\ ~Idle /\ Idle' /\ last' = "raised" => ~ClassesDeclared]_vars

\* What a full deployment leaves behind.
Complete ==
  /\ KakarotAnswers
  /\ \A n \in {"kakarot"} \cup (IF Network = "prod" THEN {} ELSE Names(Fixtures)) :
       Recorded(n) /\ Exists(files.starknet[n]) /\ chain.code[files.starknet[n]].class = files.declared[n]
  /\ \A n \in {"WETH9", "Coinbase", "token"} \cup Names(PreEip155) :
       n \in DOMAIN files.evm /\ files.evm[n].kakarot = Kakarot
  /\ Core.coinbase = files.evm["Coinbase"].address
  /\ Precompiles \in Core.funded

\* An instance that the file names and that was never deployed.  The file is written
\* before execute_calls sends the queue: a run killed between the two, or whose
\* transaction is reverted, leaves this.  A development network deploys another one;
\* elsewhere deploy_or_upgrade_kakarot asks for its class, and raises in every later run.
InstanceLost == Network # "dev" /\ Recorded("kakarot") /\ ~Exists(Kakarot)

\* A deployment that starts from a file that names no lost instance, and is not killed
\* itself, ends with all of it in place, whatever other remains interrupted runs left.
DeploymentConverges ==
  [](~MayRevert /\ ~InstanceLost /\ proc.script = "deploy" =>
       <>(Idle /\ (last = "killed" \/ Complete)))

=============================================================================
