-------------------------- MODULE DeploymentProofs --------------------------
(***************************************************************************)
(* Theorems about Deployment, for any circumstances, builds and faults.     *)
(***************************************************************************)
EXTENDS Deployment, TLAPS, FiniteSetTheorems, WellFoundedInduction

-----------------------------------------------------------------------------
(***************************************************************************)
(* Types                                                                   *)
(***************************************************************************)
Kinds ==
  {"register", "remove", "execute", "starknet", "kakarot", "sender", "fund", "eoa", "load_evm",
   "weth", "coinbase", "set_coinbase", "dump_evm", "token", "deploy_evm", "authorize_caller",
   "check_token", "whitelist", "send", "teardown", "check_declared", "check_deployed",
   "declare", "dump_declarations"}

\* The contracts that a script deploys in the EVM.
EvmContracts == {"WETH9", "Coinbase", "token"}
Recordable == EvmContracts \cup Names(PreEip155)
Subjects == {"all", EvmDeployer, Precompiles} \cup Classes \cup Recordable

Steps ==
  {x \in [kind : Kinds, of : Subjects] :
    /\ x.kind = "deploy_evm" => x.of \in EvmContracts
    /\ x.kind = "declare" => x.of \in Classes
    /\ x.kind \in {"sender", "whitelist", "send"} => x.of \in Names(PreEip155)}

\* The functions from a part of S to T.
Partial(S, T) == UNION {[D -> T] : D \in SUBSET S}

Versions == [Classes -> Nat]
Records == Partial(Recordable, [address : Nat, kakarot : Nat])

CoreState ==
  [account : Nat, coinbase : Nat, fee : BOOLEAN, eoas : SUBSET Subjects, funded : SUBSET Subjects,
   authorized : SUBSET Subjects, callers : SUBSET Nat, sent : SUBSET Subjects,
   created : SUBSET Subjects, contracts : {S \in SUBSET Nat : IsFiniteSet(S)}]

Instances == [name : Classes, class : Nat]

Chains ==
  {ch \in [declared : SUBSET (Classes \X Nat), code : Partial(Nat, Instances),
           core : Partial(Nat, CoreState), evmCoinbase : SUBSET Nat] :
    DOMAIN ch.core \subseteq DOMAIN ch.code}

Calls ==
  {c \in [op : {"deploy", "upgrade", "set_account_class", "set_base_fee", "set_coinbase",
                "set_evm_coinbase", "fund", "deploy_eoa", "authorize", "authorize_caller"},
          to : Nat, arg : Nat \cup Subjects, class : Versions] :
    /\ c.op = "deploy" => c.arg \in Classes
    /\ c.op \in {"set_coinbase", "authorize_caller"} => c.arg \in Nat
    /\ c.op \in {"fund", "deploy_eoa", "authorize"} => c.arg \in Subjects}

Processes ==
  [script : Scripts \cup {"none"}, todo : Seq(Steps), lazy : BOOLEAN, queue : Seq(Calls),
   pool : BOOLEAN, evm : Records, should : SUBSET Subjects, token : Nat]

\* declarations.json was written.
Opened == files.declared \in Versions

TInv ==
  /\ world \in [network : {"dev", "staging", "prod"}, reverts : BOOLEAN, resets : BOOLEAN,
                builds : Nat \ {0}, runs : Nat, crashes : Nat, ran : Nat, crashed : Nat]
  /\ build \in [Classes -> 1..world.builds]
  /\ chain \in Chains
  /\ files \in [declared : {Empty} \cup Versions, starknet : Partial(Classes, Nat), evm : Records]
  /\ DOMAIN files.starknet # {} => Opened
  /\ \A n \in DOMAIN files.starknet : files.starknet[n] \in 2..fresh
  /\ proc \in Processes
  /\ Idle => proc = NoProcess
  /\ last \in {"none", "done", "raised", "killed"}
  /\ fresh \in Nat \ {0, 1}
  /\ world.ran <= world.runs /\ world.crashed <= world.crashes

LEMMA PartialDef ==
  ASSUME NEW S, NEW T, NEW f
  PROVE  f \in Partial(S, T) <=> DOMAIN f \subseteq S /\ f \in [DOMAIN f -> T]
BY DEF Partial

LEMMA WithType ==
  ASSUME NEW S, NEW T, NEW f \in Partial(S, T), NEW x \in S, NEW v \in T
  PROVE  With(f, x, v) \in Partial(S, T)
<1>1. DOMAIN f \subseteq S /\ f \in [DOMAIN f -> T]
  BY PartialDef
<1>2. DOMAIN With(f, x, v) = DOMAIN f \cup {x}
  BY DEF With
<1>3. With(f, x, v) \in [DOMAIN f \cup {x} -> T]
  BY <1>1 DEF With
<1> QED BY <1>1, <1>2, <1>3, PartialDef

LEMMA EmptyType ==
  ASSUME NEW S, NEW T
  PROVE  Empty \in Partial(S, T) /\ DOMAIN Empty = {}
<1>1. DOMAIN Empty = {} /\ Empty \in [{} -> T]
  BY DEF Empty
<1> QED BY <1>1, PartialDef

\* What a part of a partial function's domain is given keeps its type.
LEMMA ExceptType ==
  ASSUME NEW S, NEW T, NEW f \in Partial(S, T), NEW x \in DOMAIN f, NEW v \in T
  PROVE  /\ [f EXCEPT ![x] = v] \in Partial(S, T)
         /\ DOMAIN [f EXCEPT ![x] = v] = DOMAIN f
         /\ f[x] \in T
<1>1. DOMAIN f \subseteq S /\ f \in [DOMAIN f -> T]
  BY PartialDef
<1>2. DOMAIN [f EXCEPT ![x] = v] = DOMAIN f /\ [f EXCEPT ![x] = v] \in [DOMAIN f -> T]
  BY <1>1
<1> QED BY <1>1, <1>2, PartialDef

-----------------------------------------------------------------------------
(***************************************************************************)
(* Calls                                                                   *)
(***************************************************************************)
\* The call deploys Kakarot.
Instantiates(c) == c.op = "deploy" /\ c.arg = "kakarot"

\* What the call does to the instance at k.
Served(old, new, k, c) ==
  /\ new.sent = old.sent /\ new.created = old.created /\ new.contracts = old.contracts
  /\ new.coinbase = IF c.op = "set_coinbase" /\ k = c.to THEN c.arg ELSE old.coinbase
  /\ new.eoas = old.eoas \cup (IF c.op = "deploy_eoa" /\ k = c.to THEN {c.arg} ELSE {})
  /\ new.funded = old.funded \cup (IF c.op = "fund" /\ k = c.to THEN {c.arg} ELSE {})
  /\ new.authorized = old.authorized \cup (IF c.op = "authorize" /\ k = c.to THEN {c.arg} ELSE {})
  /\ new.callers = old.callers \cup (IF c.op = "authorize_caller" /\ k = c.to THEN {c.arg} ELSE {})

LEMMA NewCoreType ==
  ASSUME NEW account \in Nat
  PROVE  NewCore(account) \in CoreState
BY FS_EmptySet DEF NewCore, CoreState, Unset

\* A call to an instance changes that instance.
LEMMA ServedBy ==
  ASSUME NEW ch \in Chains, NEW c \in Calls, ch.core[c.to] \in CoreState,
         c.op \notin {"deploy", "upgrade", "set_evm_coinbase"}
  PROVE  \E v \in CoreState :
           /\ Effect(ch, c) = [ch EXCEPT !.core = [ch.core EXCEPT ![c.to] = v]]
           /\ Served(ch.core[c.to], v, c.to, c)
<1>0. "account_contract" \in Classes /\ c.class \in Versions
  BY DEF Classes, Calls
<1>1. CASE c.op = "set_account_class"
  <2> DEFINE v == [ch.core[c.to] EXCEPT !.account = c.class["account_contract"]]
  <2>1. v \in CoreState /\ Served(ch.core[c.to], v, c.to, c)
    BY <1>1, <1>0 DEF CoreState, Calls, Versions, Served
  <2>2. Effect(ch, c) = [ch EXCEPT !.core = [ch.core EXCEPT ![c.to] = v]]
    BY <1>1 DEF Effect
  <2> QED BY <2>1, <2>2
<1>2. CASE c.op = "set_base_fee"
  <2> DEFINE v == [ch.core[c.to] EXCEPT !.fee = TRUE]
  <2>1. v \in CoreState /\ Served(ch.core[c.to], v, c.to, c)
    BY <1>2, <1>0 DEF CoreState, Calls, Versions, Served
  <2>2. Effect(ch, c) = [ch EXCEPT !.core = [ch.core EXCEPT ![c.to] = v]]
    BY <1>2 DEF Effect
  <2> QED BY <2>1, <2>2
<1>3. CASE c.op = "set_coinbase"
  <2> DEFINE v == [ch.core[c.to] EXCEPT !.coinbase = c.arg]
  <2>1. v \in CoreState /\ Served(ch.core[c.to], v, c.to, c)
    BY <1>3, <1>0 DEF CoreState, Calls, Versions, Served
  <2>2. Effect(ch, c) = [ch EXCEPT !.core = [ch.core EXCEPT ![c.to] = v]]
    BY <1>3 DEF Effect
  <2> QED BY <2>1, <2>2
<1>4. CASE c.op = "fund"
  <2> DEFINE v == [ch.core[c.to] EXCEPT !.funded = ch.core[c.to].funded \cup {c.arg}]
  <2>1. v \in CoreState /\ Served(ch.core[c.to], v, c.to, c)
    BY <1>4, <1>0 DEF CoreState, Calls, Versions, Served
  <2>2. Effect(ch, c) = [ch EXCEPT !.core = [ch.core EXCEPT ![c.to] = v]]
    BY <1>4 DEF Effect
  <2> QED BY <2>1, <2>2
<1>5. CASE c.op = "deploy_eoa"
  <2> DEFINE v == [ch.core[c.to] EXCEPT !.eoas = ch.core[c.to].eoas \cup {c.arg}]
  <2>1. v \in CoreState /\ Served(ch.core[c.to], v, c.to, c)
    BY <1>5, <1>0 DEF CoreState, Calls, Versions, Served
  <2>2. Effect(ch, c) = [ch EXCEPT !.core = [ch.core EXCEPT ![c.to] = v]]
    BY <1>5 DEF Effect
  <2> QED BY <2>1, <2>2
<1>6. CASE c.op = "authorize"
  <2> DEFINE v == [ch.core[c.to] EXCEPT !.authorized = ch.core[c.to].authorized \cup {c.arg}]
  <2>1. v \in CoreState /\ Served(ch.core[c.to], v, c.to, c)
    BY <1>6, <1>0 DEF CoreState, Calls, Versions, Served
  <2>2. Effect(ch, c) = [ch EXCEPT !.core = [ch.core EXCEPT ![c.to] = v]]
    BY <1>6 DEF Effect
  <2> QED BY <2>1, <2>2
<1>7. CASE c.op = "authorize_caller"
  <2> DEFINE v == [ch.core[c.to] EXCEPT !.callers = ch.core[c.to].callers \cup {c.arg}]
  <2>1. v \in CoreState /\ Served(ch.core[c.to], v, c.to, c)
    BY <1>7, <1>0 DEF CoreState, Calls, Versions, Served
  <2>2. Effect(ch, c) = [ch EXCEPT !.core = [ch.core EXCEPT ![c.to] = v]]
    BY <1>7 DEF Effect
  <2> QED BY <2>1, <2>2
<1> QED BY <1>1, <1>2, <1>3, <1>4, <1>5, <1>6, <1>7 DEF Calls

\* A call that is accepted leads to a chain.
LEMMA EffectType ==
  ASSUME NEW ch \in Chains, NEW c \in Calls, Accepts(ch, c)
  PROVE  Effect(ch, c) \in Chains
<1>1. /\ ch.code \in Partial(Nat, Instances) /\ ch.core \in Partial(Nat, CoreState)
      /\ DOMAIN ch.core \subseteq DOMAIN ch.code
      /\ c.to \in Nat /\ c.class \in Versions
  BY DEF Chains, Calls
<1>2. CASE c.op = "deploy"
  <2> DEFINE core == IF c.arg = "kakarot"
                     THEN With(ch.core, c.to, NewCore(c.class["account_contract"])) ELSE ch.core
             instance == [name |-> c.arg, class |-> c.class[c.arg]]
             code == With(ch.code, c.to, instance)
             new == NewCore(c.class["account_contract"])
  <2>1. c.arg \in Classes /\ "account_contract" \in Classes
    BY <1>2 DEF Calls, Classes
  <2>2. new \in CoreState
    BY <1>1, <2>1, NewCoreType DEF Versions
  <2>3. instance \in Instances
    BY <1>1, <2>1 DEF Versions, Instances
  <2>6. Effect(ch, c) = [ch EXCEPT !.code = code, !.core = core]
    BY <1>2 DEF Effect
  <2> HIDE DEF instance, new
  <2>8. c.to \in Nat
    BY <1>1
  <2>9. ch.code \in Partial(Nat, Instances)
    BY <1>1
  <2>4. code \in Partial(Nat, Instances) /\ DOMAIN code = DOMAIN ch.code \cup {c.to}
    <3>1. With(ch.code, c.to, instance) \in Partial(Nat, Instances)
      BY <2>3, <2>8, <2>9, WithType
    <3> QED BY <3>1 DEF With
  <2>7. With(ch.core, c.to, new) \in Partial(Nat, CoreState)
        /\ DOMAIN With(ch.core, c.to, new) = DOMAIN ch.core \cup {c.to}
    <3>1. ch.core \in Partial(Nat, CoreState)
      BY <1>1
    <3>2. With(ch.core, c.to, new) \in Partial(Nat, CoreState)
      BY <2>2, <2>8, <3>1, WithType
    <3> QED BY <3>2 DEF With
  <2>5. core \in Partial(Nat, CoreState) /\ DOMAIN core \subseteq DOMAIN ch.core \cup {c.to}
    BY <1>1, <2>7 DEF new
  <2> HIDE DEF core, code
  <2> QED BY <1>1, <2>4, <2>5, <2>6 DEF Chains
<1>3. CASE c.op = "set_evm_coinbase"
  BY <1>1, <1>3 DEF Effect, Chains
<1>4. CASE c.op = "upgrade"
  <2>1. c.to \in DOMAIN ch.code /\ "kakarot" \in Classes
    BY <1>1, <1>4 DEF Accepts, Classes
  <2> DEFINE v == [ch.code[c.to] EXCEPT !.class = c.class["kakarot"]]
             code == [ch.code EXCEPT ![c.to] = v]
  <2>2. ch.code[c.to] \in Instances
    BY <1>1, <2>1, PartialDef
  <2>3. v \in Instances
    BY <1>1, <2>1, <2>2 DEF Versions, Instances
  <2>4. code \in Partial(Nat, Instances) /\ DOMAIN code = DOMAIN ch.code
    BY <1>1, <2>1, <2>3, ExceptType
  <2>5. Effect(ch, c) = [ch EXCEPT !.code = code]
    BY <1>4 DEF Effect
  <2> HIDE DEF code
  <2> QED BY <1>1, <2>4, <2>5 DEF Chains
<1>5. CASE c.op \notin {"deploy", "upgrade", "set_evm_coinbase"}
  <2>1. c.to \in DOMAIN ch.core
    BY <1>5 DEF Accepts, Calls
  <2>2. ch.core[c.to] \in CoreState /\ "account_contract" \in Classes
    BY <1>1, <2>1, PartialDef DEF Classes
  <2>3. PICK v \in CoreState : Effect(ch, c) = [ch EXCEPT !.core = [ch.core EXCEPT ![c.to] = v]]
    BY <1>1, <1>5, <2>2, ServedBy
  <2> DEFINE core == [ch.core EXCEPT ![c.to] = v]
  <2>4. core \in Partial(Nat, CoreState) /\ DOMAIN core = DOMAIN ch.core
    BY <1>1, <2>1, ExceptType
  <2> HIDE DEF core
  <2>5. Effect(ch, c) = [ch EXCEPT !.core = core]
    BY <2>3 DEF core
  <2> QED BY <1>1, <2>4, <2>5 DEF Chains
<1> QED BY <1>2, <1>3, <1>4, <1>5

\* What a call changes.
LEMMA EffectFields ==
  ASSUME NEW ch \in Chains, NEW c \in Calls, Accepts(ch, c)
  PROVE  LET e == Effect(ch, c)
         IN /\ e.declared = ch.declared
            /\ DOMAIN e.code = DOMAIN ch.code \cup (IF c.op = "deploy" THEN {c.to} ELSE {})
            /\ DOMAIN e.core = DOMAIN ch.core \cup (IF Instantiates(c) THEN {c.to} ELSE {})
            /\ Instantiates(c) => c.to \notin DOMAIN ch.core
            /\ \A k \in DOMAIN ch.core : Served(ch.core[k], e.core[k], k, c)
<1>1. /\ ch.code \in Partial(Nat, Instances) /\ ch.core \in Partial(Nat, CoreState)
      /\ DOMAIN ch.core \subseteq DOMAIN ch.code
      /\ c.to \in Nat /\ c.class \in Versions
      /\ ch = [declared |-> ch.declared, code |-> ch.code, core |-> ch.core,
               evmCoinbase |-> ch.evmCoinbase]
  BY DEF Chains, Calls
<1>2. ch.code \in [DOMAIN ch.code -> Instances] /\ ch.core \in [DOMAIN ch.core -> CoreState]
  <2>1. ch.code \in Partial(Nat, Instances)
    BY <1>1
  <2>2. ch.core \in Partial(Nat, CoreState)
    BY <1>1
  <2> QED BY <2>1, <2>2, PartialDef
<1>3. CASE c.op = "deploy"
  <2>1. c.to \notin DOMAIN ch.code
    BY <1>3 DEF Accepts
  <2>2. /\ Effect(ch, c).declared = ch.declared
        /\ Effect(ch, c).code = With(ch.code, c.to, [name |-> c.arg, class |-> c.class[c.arg]])
        /\ Effect(ch, c).core = IF c.arg = "kakarot"
                                THEN With(ch.core, c.to, NewCore(c.class["account_contract"]))
                                ELSE ch.core
    BY <1>1, <1>3 DEF Effect
  <2> QED BY <1>1, <1>2, <1>3, <2>1, <2>2 DEF With, Instantiates, Served
<1>4. CASE c.op = "set_evm_coinbase"
  BY <1>1, <1>4 DEF Effect, Instantiates, Served
<1>5. CASE c.op = "upgrade"
  BY <1>1, <1>2, <1>5 DEF Effect, Instantiates, Served
<1>6. CASE c.op \notin {"deploy", "upgrade", "set_evm_coinbase"}
  <2>1. c.to \in DOMAIN ch.core
    BY <1>6 DEF Accepts, Calls
  <2>2. ch.core[c.to] \in CoreState
    BY <1>2, <2>1
  <2>3. PICK v \in CoreState : /\ Effect(ch, c) = [ch EXCEPT !.core = [ch.core EXCEPT ![c.to] = v]]
                              /\ Served(ch.core[c.to], v, c.to, c)
    BY <1>6, <2>2, ServedBy
  <2>4. /\ Effect(ch, c).declared = ch.declared /\ Effect(ch, c).code = ch.code
        /\ Effect(ch, c).core = [ch.core EXCEPT ![c.to] = v]
    BY <1>1, <2>3
  <2>5. \A k \in DOMAIN ch.core : Served(ch.core[k], Effect(ch, c).core[k], k, c)
    <3> SUFFICES ASSUME NEW k \in DOMAIN ch.core
                 PROVE  Served(ch.core[k], Effect(ch, c).core[k], k, c)
      OBVIOUS
    <3>1. CASE k = c.to
      BY <1>2, <2>3, <2>4, <3>1
    <3>2. CASE k # c.to
      <4>1. Effect(ch, c).core[k] = ch.core[k]
        BY <1>2, <2>4, <3>2
      <4> QED BY <1>6, <3>2, <4>1 DEF Served
    <3> QED BY <3>1, <3>2
  <2> QED BY <1>2, <1>6, <2>4, <2>5 DEF Instantiates
<1> QED BY <1>3, <1>4, <1>5, <1>6

-----------------------------------------------------------------------------
(***************************************************************************)
(* Transactions.  A loop defines a function from one index to the next,     *)
(* which exists and keeps its type.                                         *)
(***************************************************************************)
\* Induction for a set of numbers, from the least element it does not hold.
LEMMA NatSet ==
  ASSUME NEW S, 0 \in S, \A n \in Nat : n \in S => n + 1 \in S
  PROVE  \A n \in Nat : n \in S
<1> SUFFICES ASSUME Nat \ S # {} PROVE FALSE
  OBVIOUS
<1>1. PICK x \in Nat \ S : \A y \in Nat \ S : <<y, x>> \notin OpToRel(<, Nat)
  BY NatLessThanWellFounded, WFMin
<1>2. \A y \in Nat : y < x => <<y, x>> \in OpToRel(<, Nat)
  BY DEF OpToRel
<1>3. \A y \in Nat : y < x => y \in S
  BY <1>1, <1>2
<1>4. CASE x = 0
  BY <1>4
<1>5. CASE x # 0
  <2>1. x - 1 \in Nat /\ x - 1 < x /\ (x - 1) + 1 = x
    BY <1>5
  <2> QED BY <1>3, <2>1
<1> QED BY <1>4, <1>5

\* f holds what a loop of m rounds has, from b on, after each of them.
Loop(b, m, step, f) == \A n \in 0..m : f[n] = IF n = 0 THEN b ELSE step[<<f[n - 1], n>>]

LEMMA LoopExists ==
  ASSUME NEW S, NEW b \in S, NEW m \in Nat, NEW step \in [S \X (1..m) -> S]
  PROVE  \E f \in [0..m -> S] : Loop(b, m, step, f)
<1> DEFINE K == {k \in Nat : k <= m => \E f \in [0..k -> S] : Loop(b, k, step, f)}
<1>1. 0 \in K
  <2> DEFINE f == [n \in 0..0 |-> b]
  <2>1. f \in [0..0 -> S] /\ Loop(b, 0, step, f)
    BY DEF Loop
  <2> QED BY <2>1
<1>2. ASSUME NEW k \in Nat, k \in K PROVE k + 1 \in K
  <2> SUFFICES ASSUME k + 1 <= m PROVE \E f \in [0..(k + 1) -> S] : Loop(b, k + 1, step, f)
    OBVIOUS
  <2>1. PICK g \in [0..k -> S] : Loop(b, k, step, g)
    BY <1>2
  <2> DEFINE next == step[<<g[k], k + 1>>]
             f == [n \in 0..(k + 1) |-> IF n = k + 1 THEN next ELSE g[n]]
  <2>2. next \in S
    <3>1. <<g[k], k + 1>> \in S \X (1..m)
      OBVIOUS
    <3> QED BY <3>1
  <2>3. f \in [0..(k + 1) -> S]
    BY <2>2
  <2>4. ASSUME NEW n \in 0..(k + 1)
        PROVE  f[n] = IF n = 0 THEN b ELSE step[<<f[n - 1], n>>]
    <3>1. CASE n = k + 1
      <4>1. f[n] = next /\ f[n - 1] = g[k] /\ n # 0
        BY <3>1
      <4> QED BY <3>1, <4>1
    <3>2. CASE n # k + 1
      <4>1. n \in 0..k /\ f[n] = g[n] /\ (n # 0 => f[n - 1] = g[n - 1])
        BY <3>2
      <4> QED BY <2>1, <4>1 DEF Loop
    <3> QED BY <3>1, <3>2
  <2> HIDE DEF f, next
  <2> QED BY <2>3, <2>4 DEF Loop
<1> HIDE DEF K
<1>3. \A k \in Nat : k \in K
  BY <1>1, <1>2, NatSet
<1> QED BY <1>3 DEF K

Results == [ok : BOOLEAN, chain : Chains]

LEMMA AfterType ==
  ASSUME chain \in Chains, NEW s \in Results, NEW c \in Calls
  PROVE  After(s, c) \in Results
<1>1. CASE s.ok /\ Accepts(s.chain, c)
  <2>1. Effect(s.chain, c) \in Chains
    BY <1>1, EffectType DEF Results
  <2> QED BY <1>1, <2>1 DEF After, Results
<1>2. CASE ~(s.ok /\ Accepts(s.chain, c))
  BY <1>2 DEF After, Results
<1> QED BY <1>1, <1>2

\* after holds what Executed computes, call by call.
Folds(calls, after) ==
  after = [n \in 0..Len(calls) |->
             IF n = 0 THEN [ok |-> TRUE, chain |-> chain] ELSE After(after[n - 1], calls[n])]

LEMMA ExecutedDef ==
  ASSUME chain \in Chains, NEW calls \in Seq(Calls)
  PROVE  \E after \in [0..Len(calls) -> Results] :
           /\ after[0] = [ok |-> TRUE, chain |-> chain]
           /\ \A n \in 1..Len(calls) : after[n] = After(after[n - 1], calls[n])
           /\ Executed(calls) = after[Len(calls)].chain
<1> DEFINE b == [ok |-> TRUE, chain |-> chain]
           m == Len(calls)
           step == [p \in Results \X (1..m) |-> After(p[1], calls[p[2]])]
<1>1. b \in Results /\ m \in Nat
  BY DEF Results
<1>2. step \in [Results \X (1..m) -> Results]
  <2>1. ASSUME NEW p \in Results \X (1..m)
        PROVE  After(p[1], calls[p[2]]) \in Results
    <3>1. p[1] \in Results /\ calls[p[2]] \in Calls
      OBVIOUS
    <3> QED BY <3>1, AfterType
  <2> QED BY <2>1
<1> HIDE DEF step, b
<1>3. PICK f \in [0..m -> Results] : Loop(b, m, step, f)
  <2> HIDE DEF m
  <2> QED BY <1>1, <1>2, LoopExists
<1>4. ASSUME NEW n \in 0..m
      PROVE  f[n] = IF n = 0 THEN b ELSE After(f[n - 1], calls[n])
  <2>1. CASE n = 0
    BY <1>3, <2>1 DEF Loop
  <2>2. CASE n # 0
    <3>1. <<f[n - 1], n>> \in Results \X (1..m)
      BY <2>2
    <3>2. step[<<f[n - 1], n>>] = After(f[n - 1], calls[n])
      BY <3>1 DEF step
    <3> QED BY <1>3, <2>2, <3>2 DEF Loop
  <2> QED BY <2>1, <2>2
<1>5. Folds(calls, f)
  BY <1>4 DEF Folds, b
<1> DEFINE g == CHOOSE after : Folds(calls, after)
<1>6. Folds(calls, g)
  BY <1>5
<1>7. Executed(calls) = g[Len(calls)].chain
  BY DEF Executed, Folds
<1> HIDE DEF g
<1>8. ASSUME NEW n \in 0..m
      PROVE  g[n] = IF n = 0 THEN b ELSE After(g[n - 1], calls[n])
  BY <1>6 DEF Folds, b
<1> DEFINE K == {n \in Nat : n <= m => g[n] \in Results}
<1>9. \A n \in Nat : n \in K
  <2>1. 0 \in K
    BY <1>1, <1>8
  <2>2. ASSUME NEW n \in Nat, n \in K PROVE n + 1 \in K
    <3> SUFFICES ASSUME n + 1 <= m PROVE g[n + 1] \in Results
      OBVIOUS
    <3>1. g[n] \in Results /\ calls[n + 1] \in Calls /\ n + 1 \in 0..m /\ (n + 1) - 1 = n
      BY <2>2
    <3>2. g[n + 1] = After(g[n], calls[n + 1])
      BY <1>8, <3>1
    <3> QED BY <3>1, <3>2, AfterType
  <2> HIDE DEF K
  <2> QED BY <2>1, <2>2, NatSet
<1>10. g \in [0..m -> Results]
  <2>1. \A n \in 0..m : g[n] \in Results
    BY <1>1, <1>9
  <2>2. g = [n \in 0..m |-> g[n]]
    BY <1>6 DEF Folds
  <2> QED BY <2>1, <2>2
<1>11. g[0] = [ok |-> TRUE, chain |-> chain]
  <2>1. 0 \in 0..m
    BY <1>1
  <2>2. g[0] = IF 0 = 0 THEN b ELSE After(g[0 - 1], calls[0])
    BY <1>8, <2>1
  <2> QED BY <2>2 DEF b
<1>12. \A n \in 1..Len(calls) : g[n] = After(g[n - 1], calls[n])
  BY <1>1, <1>8
<1> QED BY <1>7, <1>10, <1>11, <1>12

\* What no transaction takes away.
Grown(old, new) ==
  /\ new.declared = old.declared
  /\ DOMAIN old.code \subseteq DOMAIN new.code
  /\ DOMAIN old.core \subseteq DOMAIN new.core
  /\ \A k \in DOMAIN old.core :
       /\ new.core[k].sent = old.core[k].sent
       /\ new.core[k].created = old.core[k].created
       /\ new.core[k].contracts = old.core[k].contracts
       /\ old.core[k].eoas \subseteq new.core[k].eoas
       /\ old.core[k].funded \subseteq new.core[k].funded
       /\ old.core[k].authorized \subseteq new.core[k].authorized
       /\ old.core[k].callers \subseteq new.core[k].callers

LEMMA GrownTrans ==
  ASSUME NEW a, NEW b, NEW c, Grown(a, b), Grown(b, c)
  PROVE  Grown(a, c)
BY DEF Grown

LEMMA GrownSame ==
  ASSUME NEW a
  PROVE  Grown(a, a)
BY DEF Grown

LEMMA ServedGrows ==
  ASSUME NEW old, NEW new, NEW k, NEW c, Served(old, new, k, c)
  PROVE  /\ new.sent = old.sent /\ new.created = old.created /\ new.contracts = old.contracts
         /\ old.eoas \subseteq new.eoas /\ old.funded \subseteq new.funded
         /\ old.authorized \subseteq new.authorized /\ old.callers \subseteq new.callers
BY DEF Served

LEMMA EffectGrows ==
  ASSUME NEW ch \in Chains, NEW c \in Calls, Accepts(ch, c)
  PROVE  Grown(ch, Effect(ch, c))
<1> DEFINE e == Effect(ch, c)
<1>1. /\ e.declared = ch.declared
      /\ DOMAIN ch.code \subseteq DOMAIN e.code
      /\ DOMAIN ch.core \subseteq DOMAIN e.core
      /\ \A k \in DOMAIN ch.core : Served(ch.core[k], e.core[k], k, c)
  BY EffectFields
<1> HIDE DEF e
<1>2. Grown(ch, e)
  BY <1>1, ServedGrows DEF Grown
<1> QED BY <1>2 DEF e

LEMMA ExecutedGrows ==
  ASSUME chain \in Chains, NEW calls \in Seq(Calls)
  PROVE  Executed(calls) \in Chains /\ Grown(chain, Executed(calls))
<1>1. PICK after \in [0..Len(calls) -> Results] :
           /\ after[0] = [ok |-> TRUE, chain |-> chain]
           /\ \A n \in 1..Len(calls) : after[n] = After(after[n - 1], calls[n])
           /\ Executed(calls) = after[Len(calls)].chain
  BY ExecutedDef
<1> DEFINE m == Len(calls)
           K == {n \in Nat : n <= m => Grown(chain, after[n].chain)}
<1>2. m \in Nat
  OBVIOUS
<1>3. \A n \in Nat : n \in K
  <2>1. 0 \in K
    BY <1>1, GrownSame
  <2>2. ASSUME NEW n \in Nat, n \in K PROVE n + 1 \in K
    <3> SUFFICES ASSUME n + 1 <= m PROVE Grown(chain, after[n + 1].chain)
      OBVIOUS
    <3>1. /\ after[n] \in Results /\ calls[n + 1] \in Calls /\ Grown(chain, after[n].chain)
          /\ after[n + 1] = After(after[n], calls[n + 1])
      BY <1>1, <2>2
    <3>2. CASE after[n].ok /\ Accepts(after[n].chain, calls[n + 1])
      <4>1. after[n + 1].chain = Effect(after[n].chain, calls[n + 1])
        BY <3>1, <3>2 DEF After
      <4>2. after[n].chain \in Chains
        BY <3>1 DEF Results
      <4>3. Grown(after[n].chain, after[n + 1].chain)
        BY <3>1, <3>2, <4>1, <4>2, EffectGrows
      <4> QED BY <3>1, <4>3, GrownTrans, Zenon
    <3>3. CASE ~(after[n].ok /\ Accepts(after[n].chain, calls[n + 1]))
      BY <3>1, <3>3, GrownSame DEF After
    <3> QED BY <3>2, <3>3
  <2> HIDE DEF K
  <2> QED BY <2>1, <2>2, NatSet
<1> QED BY <1>1, <1>2, <1>3 DEF Results

-----------------------------------------------------------------------------
(***************************************************************************)
(* Steps                                                                   *)
(***************************************************************************)
\* Kinds that need no particular subject.
Plain == Kinds \ {"deploy_evm", "declare", "sender", "whitelist", "send"}

LEMMA StepType ==
  ASSUME NEW kind, NEW of \in Subjects,
         \/ kind \in Plain
         \/ kind = "deploy_evm" /\ of \in EvmContracts
         \/ kind = "declare" /\ of \in Classes
         \/ kind \in {"sender", "whitelist", "send"} /\ of \in Names(PreEip155)
  PROVE  Step(kind, of) \in Steps
BY DEF Step, Steps, Plain, Kinds

LEMMA StepFields ==
  ASSUME NEW kind, NEW of
  PROVE  /\ Step(kind, of).kind = kind /\ Step(kind, of).of = of
         /\ Do(kind).kind = kind
BY DEF Step, Do

LEMMA DoType ==
  ASSUME NEW kind \in Plain
  PROVE  Do(kind) \in Steps
<1>1. "all" \in Subjects
  BY DEF Subjects
<1> QED BY <1>1, StepType DEF Do

LEMMA SubjectsHold ==
  /\ EvmDeployer \in Subjects /\ Precompiles \in Subjects
  /\ Recordable \subseteq Subjects /\ EvmContracts \subseteq Subjects
  /\ Names(PreEip155) \subseteq Subjects /\ Classes \subseteq Subjects
  /\ EvmContracts \subseteq Recordable /\ Names(PreEip155) \subseteq Recordable
BY DEF Subjects, Recordable

\* The names of PRE_EIP155_TX, and the steps of a loop over them.
LEMMA EachType ==
  ASSUME NEW kind \in {"sender", "whitelist", "send"}
  PROVE  /\ Each(kind) \in Seq(Steps)
         /\ Len(Each(kind)) = Len(PreEip155) /\ Len(PreEip155) \in Nat
         /\ \A i \in 1..Len(PreEip155) : Each(kind)[i] = Step(kind, PreEip155[i])
         /\ DOMAIN PreEip155 = 1..Len(PreEip155)
<1>1. PreEip155 \in Seq(Names(PreEip155))
  BY PreEip155Assumption DEF Names
<1>2. \A i \in DOMAIN PreEip155 : Step(kind, PreEip155[i]) \in Steps
  BY <1>1, StepType, SubjectsHold
<1>3. Each(kind) \in [1..Len(PreEip155) -> Steps] /\ Len(PreEip155) \in Nat
      /\ DOMAIN PreEip155 = 1..Len(PreEip155)
  BY <1>1, <1>2 DEF Each
<1>4. Each(kind) \in Seq(Steps)
  BY <1>3
<1> QED BY <1>3, <1>4 DEF Each

\* In the list s, what is to be done by steps of these kinds was opened before, or is
\* opened by an earlier step.
Gate(s, kinds, open, openers) ==
  \A i \in DOMAIN s : s[i].kind \in kinds =>
    open \/ \E j \in 1..(i - 1) : s[j].kind \in openers

LEMMA GateOpen ==
  ASSUME NEW s, NEW kinds, NEW open, open, NEW openers
  PROVE  Gate(s, kinds, open, openers)
BY DEF Gate

LEMMA GateTail ==
  ASSUME NEW s \in Seq(Steps), s # <<>>, NEW kinds, NEW openers, NEW open, NEW opened,
         Gate(s, kinds, open, openers), open => opened, s[1].kind \in openers => opened
  PROVE  Gate(Tail(s), kinds, opened, openers)
<1> SUFFICES ASSUME NEW i \in DOMAIN Tail(s), Tail(s)[i].kind \in kinds, ~opened
             PROVE  \E j \in 1..(i - 1) : Tail(s)[j].kind \in openers
  BY DEF Gate
<1>1. /\ i \in Nat /\ i > 0 /\ i + 1 \in DOMAIN s /\ Tail(s)[i] = s[i + 1]
  OBVIOUS
<1>2. PICK j \in 1..i : s[j].kind \in openers
  BY <1>1 DEF Gate
<1>3. j # 1
  BY <1>2
<1>4. j - 1 \in 1..(i - 1) /\ Tail(s)[j - 1] = s[j]
  BY <1>1, <1>3
<1> QED BY <1>2, <1>4

LEMMA GateConcat ==
  ASSUME NEW s \in Seq(Steps), NEW t \in Seq(Steps), NEW kinds, NEW openers, NEW open,
         Gate(s, kinds, open, openers),
         Gate(t, kinds, open, openers) \/ \E j \in DOMAIN s : s[j].kind \in openers
  PROVE  Gate(s \o t, kinds, open, openers)
<1> SUFFICES ASSUME NEW i \in DOMAIN (s \o t), (s \o t)[i].kind \in kinds, ~open
             PROVE  \E j \in 1..(i - 1) : (s \o t)[j].kind \in openers
  BY DEF Gate
<1>1. CASE i <= Len(s)
  <2>1. i \in DOMAIN s /\ (s \o t)[i] = s[i]
    BY <1>1
  <2>2. PICK j \in 1..(i - 1) : s[j].kind \in openers
    BY <2>1 DEF Gate
  <2>3. (s \o t)[j] = s[j]
    BY <2>1, <2>2
  <2> QED BY <2>2, <2>3
<1>2. CASE i > Len(s)
  <2>1. i - Len(s) \in DOMAIN t /\ (s \o t)[i] = t[i - Len(s)]
    BY <1>2
  <2>2. CASE \E j \in DOMAIN s : s[j].kind \in openers
    <3>1. PICK j \in DOMAIN s : s[j].kind \in openers
      BY <2>2
    <3>2. j \in 1..(i - 1) /\ (s \o t)[j] = s[j]
      BY <1>2, <3>1
    <3> QED BY <3>1, <3>2
  <2>3. CASE Gate(t, kinds, open, openers)
    <3>1. PICK j \in 1..(i - Len(s) - 1) : t[j].kind \in openers
      BY <2>1, <2>3 DEF Gate
    <3>2. j + Len(s) \in 1..(i - 1) /\ (s \o t)[j + Len(s)] = t[j]
      BY <2>1, <3>1
    <3> QED BY <3>1, <3>2
  <2> QED BY <2>2, <2>3
<1> QED BY <1>1, <1>2

\* The steps before which declarations.json need not be there, and those that fail or end
\* the run unless it is; the steps that use Kakarot, and what comes before them.
Preliminary == {"declare", "dump_declarations", "check_declared", "check_deployed"}
Opening == {"dump_declarations", "check_declared", "check_deployed"}
UsingKakarot ==
  {"fund", "eoa", "weth", "coinbase", "set_coinbase", "token", "deploy_evm", "authorize_caller",
   "check_token", "sender", "whitelist", "send", "teardown"}
Recording == {"kakarot", "check_deployed"}

\* The steps that other steps insert.
Inserted == {"set_coinbase", "deploy_evm", "authorize_caller", "check_token"}

Has(s, kinds) == \E i \in DOMAIN s : s[i].kind \in kinds
Lacks(s, kinds) == \A i \in DOMAIN s : s[i].kind \notin kinds

LEMMA ConcatHas ==
  ASSUME NEW s \in Seq(Steps), NEW t \in Seq(Steps), NEW kinds
  PROVE  /\ s \o t \in Seq(Steps)
         /\ Has(s \o t, kinds) <=> Has(s, kinds) \/ Has(t, kinds)
         /\ Lacks(s \o t, kinds) <=> Lacks(s, kinds) /\ Lacks(t, kinds)
<1>1. \A i \in DOMAIN s : i \in DOMAIN (s \o t) /\ (s \o t)[i] = s[i]
  OBVIOUS
<1>2. \A i \in DOMAIN t : i + Len(s) \in DOMAIN (s \o t) /\ (s \o t)[i + Len(s)] = t[i]
  OBVIOUS
<1>3. \A i \in DOMAIN (s \o t) :
        i \in DOMAIN s \/ (i - Len(s) \in DOMAIN t /\ (s \o t)[i] = t[i - Len(s)])
  OBVIOUS
<1>4. s \o t \in Seq(Steps)
  OBVIOUS
<1> DEFINE u == s \o t
<1> HIDE DEF u
<1>5. /\ \A i \in DOMAIN s : i \in DOMAIN u /\ u[i] = s[i]
      /\ \A i \in DOMAIN t : i + Len(s) \in DOMAIN u /\ u[i + Len(s)] = t[i]
      /\ \A i \in DOMAIN u :
           \/ i \in DOMAIN s
           \/ i - Len(s) \in DOMAIN t /\ u[i] = t[i - Len(s)]
  BY <1>1, <1>2, <1>3 DEF u
<1>6. \A i \in DOMAIN u : \/ \E j \in DOMAIN s : u[i] = s[j]
                         \/ \E j \in DOMAIN t : u[i] = t[j]
  BY <1>5
<1>7. /\ \A j \in DOMAIN s : \E i \in DOMAIN u : u[i] = s[j]
      /\ \A j \in DOMAIN t : \E i \in DOMAIN u : u[i] = t[j]
  BY <1>5
<1>8. Has(u, kinds) <=> Has(s, kinds) \/ Has(t, kinds)
  BY <1>6, <1>7 DEF Has
<1>9. Lacks(u, kinds) <=> Lacks(s, kinds) /\ Lacks(t, kinds)
  BY <1>6, <1>7 DEF Lacks
<1> QED BY <1>4, <1>8, <1>9 DEF u

\* A list whose first steps open what all of it needs.
Led(s, kinds, openers) == s \in Seq(Steps) /\ Gate(s, kinds, FALSE, openers) /\ Has(s, openers)

LEMMA LedConcat ==
  ASSUME NEW kinds, NEW openers, NEW s, Led(s, kinds, openers), NEW t \in Seq(Steps)
  PROVE  Led(s \o t, kinds, openers)
BY ConcatHas, GateConcat DEF Led, Has

LEMMA LacksGate ==
  ASSUME NEW kinds, NEW openers, NEW open, NEW s, Lacks(s, kinds)
  PROVE  Gate(s, kinds, open, openers)
BY DEF Lacks, Gate

\* The lists that scripts are made of.
LEMMA BlockTypes ==
  /\ DeployAndFund(EvmDeployer) \in Seq(Steps) /\ Lacks(DeployAndFund(EvmDeployer), Inserted)
  /\ DeployEvmContracts \in Seq(Steps) /\ Lacks(DeployEvmContracts, Inserted)
  /\ DeployDualVmTokens \in Seq(Steps) /\ Lacks(DeployDualVmTokens, Inserted)
  /\ SendTransactions \in Seq(Steps) /\ Lacks(SendTransactions, Inserted)
  /\ DeclareContracts \in Seq(Steps) /\ Lacks(DeclareContracts, Inserted)
<1>1. \A kind \in Plain : Do(kind) \in Steps /\ Do(kind).kind = kind
  BY DoType, StepFields
<1>2. \A kind \in Plain : \A of \in Subjects :
        Step(kind, of) \in Steps /\ Step(kind, of).kind = kind
  BY StepType, StepFields
<1>3. {"fund", "eoa", "load_evm", "weth", "coinbase", "dump_evm", "remove", "token", "register",
       "dump_declarations"} \subseteq Plain
  BY DEF Plain, Kinds
<1>4. DeployAndFund(EvmDeployer) \in Seq(Steps) /\ Lacks(DeployAndFund(EvmDeployer), Inserted)
  BY <1>2, <1>3, SubjectsHold DEF DeployAndFund, Lacks, Inserted
<1>5. DeployEvmContracts \in Seq(Steps) /\ Lacks(DeployEvmContracts, Inserted)
  BY <1>1, <1>2, <1>3, SubjectsHold DEF DeployEvmContracts, Lacks, Inserted
<1>6. DeployDualVmTokens \in Seq(Steps) /\ Lacks(DeployDualVmTokens, Inserted)
  BY <1>1, <1>3 DEF DeployDualVmTokens, Lacks, Inserted
<1>7. \A kind \in {"sender", "whitelist", "send"} :
        Each(kind) \in Seq(Steps) /\ Lacks(Each(kind), Inserted)
  BY EachType, StepFields DEF Lacks, Inserted
<1>8. SendTransactions \in Seq(Steps) /\ Lacks(SendTransactions, Inserted)
  <2>1. << Do("load_evm") >> \in Seq(Steps) /\ Lacks(<< Do("load_evm") >>, Inserted)
    BY <1>1, <1>3 DEF Lacks, Inserted
  <2>2. << Do("dump_evm") >> \in Seq(Steps) /\ Lacks(<< Do("dump_evm") >>, Inserted)
    BY <1>1, <1>3 DEF Lacks, Inserted
  <2>3. << Do("load_evm") >> \o Each("send") \in Seq(Steps)
        /\ Lacks(<< Do("load_evm") >> \o Each("send"), Inserted)
    BY <1>7, <2>1, ConcatHas
  <2> QED BY <2>2, <2>3, ConcatHas DEF SendTransactions
<1>9. DeclareContracts \in Seq(Steps) /\ Lacks(DeclareContracts, Inserted)
  <2> DEFINE d == [i \in DOMAIN Contracts |-> Step("declare", Contracts[i])]
  <2>1. DOMAIN Contracts = 1..5 /\ \A i \in 1..5 : Contracts[i] \in Classes
    BY DEF Contracts, Classes
  <2>2. \A i \in 1..5 : Step("declare", Contracts[i]) \in Steps
    BY <2>1, StepType, SubjectsHold
  <2>3. d \in Seq(Steps) /\ Lacks(d, Inserted)
    BY <2>1, <2>2, StepFields DEF Lacks, Inserted
  <2>4. << Do("dump_declarations") >> \in Seq(Steps) /\ Lacks(<< Do("dump_declarations") >>, Inserted)
    BY <1>1, <1>3 DEF Lacks, Inserted
  <2> HIDE DEF d
  <2>5. d \o << Do("dump_declarations") >> \in Seq(Steps)
        /\ Lacks(d \o << Do("dump_declarations") >>, Inserted)
    BY <2>3, <2>4, ConcatHas
  <2> QED BY <2>5 DEF DeclareContracts, d
<1> QED BY <1>4, <1>5, <1>6, <1>8, <1>9

\* The kinds of the steps of a script.
Programmed(s) == s \in Seq(Steps) /\ Lacks(s, Inserted)

LEMMA ProgrammedConcat ==
  ASSUME NEW s, Programmed(s), NEW t, Programmed(t)
  PROVE  Programmed(s \o t)
BY ConcatHas DEF Programmed

LEMMA MainProgram == Programmed(Main) /\ Led(Main, UsingKakarot, Recording)
<1>1. \A kind \in Plain : Do(kind) \in Steps /\ Do(kind).kind = kind
  BY DoType, StepFields
<1>2. {"register", "starknet", "kakarot", "execute", "remove", "teardown"} \subseteq Plain
  BY DEF Plain, Kinds
<1> DEFINE s1 == << Do("register"), Do("starknet"), Do("kakarot"), Do("execute") >>
           s2 == s1 \o Each("sender")
           s3 == s2 \o DeployAndFund(EvmDeployer)
           s4 == s3 \o << Do("execute") >>
           s5 == s4 \o DeployEvmContracts
           s6 == s5 \o DeployDualVmTokens
           s7 == s6 \o Each("whitelist")
           s8 == s7 \o << Do("execute"), Do("remove") >>
           s9 == s8 \o SendTransactions
           s10 == s9 \o << Do("teardown") >>
<1>3. Programmed(s1) /\ Led(s1, UsingKakarot, Recording)
  <2>1. s1 \in Seq(Steps) /\ Lacks(s1, Inserted)
    BY <1>1, <1>2 DEF Lacks, Inserted
  <2>2. Lacks(s1, UsingKakarot)
    BY <1>1, <1>2 DEF Lacks, UsingKakarot
  <2>3. s1[3].kind \in Recording /\ 3 \in DOMAIN s1
    BY <1>1, <1>2 DEF Recording
  <2> HIDE DEF s1
  <2> QED BY <2>1, <2>2, <2>3, LacksGate DEF Led, Programmed, Has
<1>4. Programmed(<< Do("execute") >>)
  BY <1>1, <1>2 DEF Programmed, Lacks, Inserted
<1>5. Programmed(<< Do("execute"), Do("remove") >>)
  BY <1>1, <1>2 DEF Programmed, Lacks, Inserted
<1>6. Programmed(<< Do("teardown") >>)
  BY <1>1, <1>2 DEF Programmed, Lacks, Inserted
<1>7. Programmed(Each("sender")) /\ Programmed(Each("whitelist"))
  BY SMTT(60), EachType, StepFields DEF Programmed, Lacks, Inserted
<1>8. /\ Programmed(DeployAndFund(EvmDeployer)) /\ Programmed(DeployEvmContracts)
      /\ Programmed(DeployDualVmTokens) /\ Programmed(SendTransactions)
  BY BlockTypes DEF Programmed
<1> HIDE DEF s1
<1>9. \A s, t : Programmed(s) /\ Led(s, UsingKakarot, Recording) /\ Programmed(t) =>
        Programmed(s \o t) /\ Led(s \o t, UsingKakarot, Recording)
  BY ProgrammedConcat, LedConcat DEF Programmed
<1>12. Programmed(s2) /\ Led(s2, UsingKakarot, Recording)
  BY <1>3, <1>7, <1>9
<1> HIDE DEF s2
<1>13. Programmed(s3) /\ Led(s3, UsingKakarot, Recording)
  BY <1>8, <1>9, <1>12
<1> HIDE DEF s3
<1>14. Programmed(s4) /\ Led(s4, UsingKakarot, Recording)
  BY <1>4, <1>9, <1>13
<1> HIDE DEF s4
<1>15. Programmed(s5) /\ Led(s5, UsingKakarot, Recording)
  BY <1>8, <1>9, <1>14
<1> HIDE DEF s5
<1>16. Programmed(s6) /\ Led(s6, UsingKakarot, Recording)
  BY <1>8, <1>9, <1>15
<1> HIDE DEF s6
<1>17. Programmed(s7) /\ Led(s7, UsingKakarot, Recording)
  BY <1>7, <1>9, <1>16
<1> HIDE DEF s7
<1>18. Programmed(s8) /\ Led(s8, UsingKakarot, Recording)
  BY <1>5, <1>9, <1>17
<1> HIDE DEF s8
<1>19. Programmed(s9) /\ Led(s9, UsingKakarot, Recording)
  BY <1>8, <1>9, <1>18
<1> HIDE DEF s9
<1>20. Programmed(s10) /\ Led(s10, UsingKakarot, Recording)
  BY <1>6, <1>9, <1>19
<1> QED BY <1>20 DEF s1, s2, s3, s4, s5, s6, s7, s8, s9, s10, Main

LEMMA DeclareProgram ==
  Led(DeclareContracts, Kinds \ Preliminary, Opening) /\ Lacks(DeclareContracts, UsingKakarot)
<1> DEFINE d == [i \in DOMAIN Contracts |-> Step("declare", Contracts[i])]
           e == << Do("dump_declarations") >>
<1>1. DOMAIN Contracts = 1..5 /\ \A i \in 1..5 : Contracts[i] \in Classes
  BY DEF Contracts, Classes
<1>2. \A i \in 1..5 : Step("declare", Contracts[i]) \in Steps
  BY <1>1, StepType, SubjectsHold
<1>3. d \in Seq(Steps) /\ Lacks(d, Kinds \ Preliminary) /\ Lacks(d, UsingKakarot)
  BY <1>1, <1>2, StepFields DEF Lacks, Preliminary, UsingKakarot
<1>4. "dump_declarations" \in Plain /\ Do("dump_declarations").kind = "dump_declarations"
  BY StepFields DEF Plain, Kinds
<1>5. e \in Seq(Steps) /\ Lacks(e, Kinds \ Preliminary) /\ Lacks(e, UsingKakarot) /\ Has(e, Opening)
  BY <1>4, DoType DEF Lacks, Preliminary, UsingKakarot, Has, Opening
<1> HIDE DEF d, e
<1>6. /\ d \o e \in Seq(Steps) /\ Lacks(d \o e, Kinds \ Preliminary)
      /\ Lacks(d \o e, UsingKakarot) /\ Has(d \o e, Opening)
  BY <1>3, <1>5, ConcatHas
<1>7. d \o e = DeclareContracts
  BY DEF d, e, DeclareContracts
<1> QED BY <1>6, <1>7, LacksGate DEF Led

\* A list whose first steps open all the gates.
Entered(s) ==
  /\ Programmed(s)
  /\ Led(s, Kinds \ Preliminary, Opening)
  /\ Led(s, UsingKakarot, Recording)

LEMMA EnteredConcat ==
  ASSUME NEW s, Entered(s), NEW t, Programmed(t)
  PROVE  Entered(s \o t)
BY ProgrammedConcat, LedConcat DEF Entered, Programmed

LEMMA AloneEntered ==
  /\ \A s : Programmed(s) => Entered(<< Do("check_deployed") >> \o s)
  /\ \A s : Programmed(s) => Entered(<< Do("check_deployed"), Do("register") >> \o s)
<1>1. \A kind \in {"check_deployed", "register"} : Do(kind) \in Steps /\ Do(kind).kind = kind
  BY DoType, StepFields DEF Plain, Kinds
<1>2. Entered(<< Do("check_deployed") >>)
  <2> DEFINE s == << Do("check_deployed") >>
  <2>1. /\ s \in Seq(Steps) /\ DOMAIN s = {1} /\ s[1].kind = "check_deployed"
    BY <1>1
  <2> HIDE DEF s
  <2>2. Entered(s)
    BY <2>1 DEF Entered, Programmed, Led, Lacks, Has, Gate, Inserted, Preliminary, Opening,
       UsingKakarot, Recording
  <2> QED BY <2>2 DEF s
<1>3. Entered(<< Do("check_deployed"), Do("register") >>)
  <2> DEFINE s == << Do("check_deployed"), Do("register") >>
  <2>1. /\ s \in Seq(Steps) /\ DOMAIN s = {1, 2} /\ s[1].kind = "check_deployed"
        /\ s[2].kind = "register"
    BY <1>1
  <2> HIDE DEF s
  <2>2. Programmed(s) /\ Has(s, Opening) /\ Has(s, Recording)
    BY <2>1 DEF Programmed, Lacks, Has, Inserted, Opening, Recording
  <2>3. Gate(s, Kinds \ Preliminary, FALSE, Opening)
    BY <2>1 DEF Gate, Preliminary, Opening
  <2>4. Gate(s, UsingKakarot, FALSE, Recording)
    BY <2>1 DEF Gate, UsingKakarot
  <2>5. Entered(s)
    BY <2>1, <2>2, <2>3, <2>4 DEF Entered, Led
  <2> QED BY <2>5 DEF s
<1> QED BY <1>2, <1>3, EnteredConcat

LEMMA ShortPrograms ==
  ASSUME NEW s, \/ s = StarknetMain
                \/ s = KakarotMain
  PROVE  Programmed(s) /\ Led(s, Kinds \ Preliminary, Opening) /\ Lacks(s, UsingKakarot)
<1>1. \A kind \in {"check_declared", "register", "starknet", "kakarot", "execute", "remove"} :
        Do(kind) \in Steps /\ Do(kind).kind = kind
  BY DoType, StepFields DEF Plain, Kinds
<1>2. /\ s \in Seq(Steps) /\ DOMAIN s = 1..5 /\ s[1].kind = "check_declared"
      /\ \A i \in 2..5 : s[i].kind \in {"register", "starknet", "kakarot", "execute", "remove"}
  <2>1. CASE s = StarknetMain
    BY <1>1, <2>1 DEF StarknetMain
  <2>2. CASE s = KakarotMain
    BY <1>1, <2>2 DEF KakarotMain
  <2> QED BY <2>1, <2>2
<1>3. Programmed(s) /\ Has(s, Opening) /\ Lacks(s, UsingKakarot)
  BY <1>2 DEF Programmed, Lacks, Has, Inserted, Opening, UsingKakarot
<1>4. Gate(s, Kinds \ Preliminary, FALSE, Opening)
  BY <1>2 DEF Gate, Preliminary, Opening
<1> QED BY <1>2, <1>3, <1>4 DEF Led

LEMMA LongPrograms == Entered(EvmMain) /\ Entered(DualVmMain) /\ Entered(PreEip155Main)
<1>1. \A kind \in {"register", "execute", "remove"} : Do(kind) \in Steps /\ Do(kind).kind = kind
  BY DoType, StepFields DEF Plain, Kinds
<1>2. /\ Programmed(DeployAndFund(EvmDeployer)) /\ Programmed(DeployEvmContracts)
      /\ Programmed(DeployDualVmTokens) /\ Programmed(SendTransactions)
  BY BlockTypes DEF Programmed
<1>3. Programmed(Each("sender")) /\ Programmed(Each("whitelist"))
  BY EachType, StepFields DEF Programmed, Lacks, Inserted
<1>4. Programmed(<< Do("register") >>)
  BY <1>1 DEF Programmed, Lacks, Inserted
<1>5. Programmed(<< Do("execute"), Do("remove") >>)
  BY <1>1 DEF Programmed, Lacks, Inserted
<1>6. Programmed(<< Do("execute") >>)
  BY <1>1 DEF Programmed, Lacks, Inserted
<1> DEFINE check == << Do("check_deployed") >>
           checks == << Do("check_deployed"), Do("register") >>
<1>7. \A s : Programmed(s) => Entered(check \o s) /\ Entered(checks \o s)
  BY AloneEntered
<1> HIDE DEF check, checks
<1>8. Entered(EvmMain)
  <2> DEFINE s1 == check \o DeployAndFund(EvmDeployer)
             s2 == s1 \o << Do("register") >>
             s3 == s2 \o DeployEvmContracts
             s4 == s3 \o << Do("execute"), Do("remove") >>
  <2>1. Entered(s1)
    BY <1>2, <1>7
  <2> HIDE DEF s1
  <2>2. Entered(s2)
    BY <1>4, <2>1, EnteredConcat
  <2> HIDE DEF s2
  <2>3. Entered(s3)
    BY <1>2, <2>2, EnteredConcat
  <2> HIDE DEF s3
  <2>4. Entered(s4)
    BY <1>5, <2>3, EnteredConcat
  <2> QED BY <2>4 DEF s1, s2, s3, s4, check, EvmMain
<1>9. Entered(DualVmMain)
  <2> DEFINE s1 == check \o DeployAndFund(EvmDeployer)
             s2 == s1 \o DeployDualVmTokens
  <2>1. Entered(s1)
    BY <1>2, <1>7
  <2> HIDE DEF s1
  <2>2. Entered(s2)
    BY <1>2, <2>1, EnteredConcat
  <2> QED BY <2>2 DEF s1, s2, check, DualVmMain
<1>10. Entered(PreEip155Main)
  <2> DEFINE s1 == checks \o Each("sender")
             s2 == s1 \o << Do("execute") >>
             s3 == s2 \o Each("whitelist")
             s4 == s3 \o << Do("execute"), Do("remove") >>
             s5 == s4 \o SendTransactions
  <2>1. Entered(s1)
    BY <1>3, <1>7
  <2> HIDE DEF s1
  <2>2. Entered(s2)
    BY <1>6, <2>1, EnteredConcat
  <2> HIDE DEF s2
  <2>3. Entered(s3)
    BY <1>3, <2>2, EnteredConcat
  <2> HIDE DEF s3
  <2>4. Entered(s4)
    BY <1>5, <2>3, EnteredConcat
  <2> HIDE DEF s4
  <2>5. Entered(s5)
    BY <1>2, <2>4, EnteredConcat
  <2> QED BY <2>5 DEF s1, s2, s3, s4, s5, checks, PreEip155Main
<1> QED BY <1>8, <1>9, <1>10

\* The scripts open what they need.
LEMMA Programs ==
  ASSUME NEW script \in Scripts
  PROVE  /\ Programmed(Program(script))
         /\ Gate(Program(script), Kinds \ Preliminary, FALSE, Opening)
         /\ Gate(Program(script), UsingKakarot, FALSE, Recording)
<1>1. CASE script = "deploy"
  <2>1. Programmed(DeclareContracts)
    BY BlockTypes DEF Programmed
  <2>2. Programmed(DeclareContracts \o Main)
    BY <2>1, MainProgram, ProgrammedConcat
  <2>3. Led(DeclareContracts \o Main, Kinds \ Preliminary, Opening)
    BY DeclareProgram, MainProgram, LedConcat DEF Programmed
  <2>4. Gate(DeclareContracts \o Main, UsingKakarot, FALSE, Recording)
    BY <2>1, DeclareProgram, MainProgram, LacksGate, GateConcat DEF Led, Programmed
  <2> QED BY <1>1, <2>2, <2>3, <2>4 DEF Program, Led
<1>2. CASE script \in {"starknet", "kakarot"}
  BY <1>2, ShortPrograms, LacksGate DEF Program, Led
<1>3. CASE script \in {"evm", "dualvm", "pre_eip155"}
  BY <1>3, LongPrograms DEF Program, Entered, Led
<1> QED BY <1>1, <1>2, <1>3 DEF Scripts

-----------------------------------------------------------------------------
(***************************************************************************)
(* What is to be done is possible as far as files go.                      *)
(***************************************************************************)
\* Each step of this kind is next, its contract being noted, or stands behind the step
\* that notes it.
Behind(s, kind, name, evm) ==
  \A i \in DOMAIN s : s[i].kind = kind =>
    IF i = 1 THEN name \in DOMAIN evm
    ELSE s[i - 1].kind = "deploy_evm" /\ s[i - 1].of = name

GInv ==
  /\ Gate(proc.todo, Kinds \ Preliminary, Opened, Opening)
  /\ Gate(proc.todo, UsingKakarot, Recorded("kakarot"), Recording)
  /\ Behind(proc.todo, "set_coinbase", "Coinbase", proc.evm)
  /\ Behind(proc.todo, "authorize_caller", "token", proc.evm)

LEMMA BehindTail ==
  ASSUME NEW s \in Seq(Steps), s # <<>>, NEW kind, NEW name, NEW evm, NEW noted,
         Behind(s, kind, name, evm),
         s[1].kind = "deploy_evm" => s[1].of \in DOMAIN noted
  PROVE  Behind(Tail(s), kind, name, noted)
<1> SUFFICES ASSUME NEW i \in DOMAIN Tail(s), Tail(s)[i].kind = kind
             PROVE  IF i = 1 THEN name \in DOMAIN noted
                    ELSE Tail(s)[i - 1].kind = "deploy_evm" /\ Tail(s)[i - 1].of = name
  BY DEF Behind
<1>1. /\ i \in Nat /\ i > 0 /\ i + 1 \in DOMAIN s /\ Tail(s)[i] = s[i + 1]
      /\ (i + 1) - 1 = i /\ i + 1 # 1
  OBVIOUS
<1>2. s[i].kind = "deploy_evm" /\ s[i].of = name
  BY <1>1 DEF Behind
<1>3. CASE i = 1
  BY <1>2, <1>3
<1>4. CASE i # 1
  <2>1. Tail(s)[i - 1] = s[i]
    BY <1>1, <1>4
  <2> QED BY <1>2, <1>4, <2>1
<1> QED BY <1>3, <1>4

LEMMA BehindInsert ==
  ASSUME NEW s \in Seq(Steps), s # <<>>, NEW t \in Seq(Steps), NEW kind, NEW name, NEW evm, NEW noted,
         Behind(s, kind, name, evm), s[1].kind # "deploy_evm",
         Behind(t, kind, name, noted)
  PROVE  Behind(t \o Tail(s), kind, name, noted)
<1> DEFINE u == t \o Tail(s)
<1> SUFFICES ASSUME NEW i \in DOMAIN u, u[i].kind = kind
             PROVE  IF i = 1 THEN name \in DOMAIN noted
                    ELSE u[i - 1].kind = "deploy_evm" /\ u[i - 1].of = name
  BY DEF Behind
<1>1. /\ i \in Nat /\ i > 0 /\ Len(t) \in Nat /\ Tail(s) \in Seq(Steps) /\ Len(s) \in Nat /\ Len(s) > 0
      /\ Len(Tail(s)) = Len(s) - 1
  OBVIOUS
<1>2. CASE i <= Len(t)
  <2>1. i \in DOMAIN t /\ u[i] = t[i] /\ (i # 1 => u[i - 1] = t[i - 1])
    BY <1>1, <1>2
  <2> QED BY <2>1 DEF Behind
<1>3. CASE i > Len(t)
  <2> DEFINE j == i - Len(t)
  <2>1. j \in Nat /\ j > 0 /\ j \in 1..Len(Tail(s))
    BY <1>1, <1>3
  <2>2. u[i] = s[j + 1] /\ j + 1 \in DOMAIN s /\ j + 1 # 1 /\ (j + 1) - 1 = j
    BY <1>1, <1>3, <2>1
  <2>3. s[j].kind = "deploy_evm" /\ s[j].of = name
    <3> HIDE DEF j, u
    <3> QED BY <2>2 DEF Behind
  <2>4. j # 1
    BY <2>3
  <2>5. u[i - 1] = s[j] /\ i # 1
    BY <1>1, <1>3, <2>1, <2>4
  <2> QED BY <2>3, <2>5
<1> QED BY <1>1, <1>2, <1>3

\* What the head of the list may rely on.
LEMMA HeadFacts ==
  ASSUME TInv, GInv, proc.todo # <<>>
  PROVE  /\ proc \in Processes /\ proc.todo \in Seq(Steps) /\ ~Idle
         /\ Head(proc.todo) = proc.todo[1] /\ Head(proc.todo) \in Steps /\ 1 \in DOMAIN proc.todo
         /\ Head(proc.todo).kind \in Kinds /\ Subject \in Subjects
         /\ Head(proc.todo).kind \notin Preliminary => Opened
         /\ Head(proc.todo).kind \in UsingKakarot => Recorded("kakarot")
         /\ Head(proc.todo).kind = "set_coinbase" => "Coinbase" \in DOMAIN proc.evm
         /\ Head(proc.todo).kind = "authorize_caller" => "token" \in DOMAIN proc.evm
<1>1. proc \in Processes /\ proc.todo \in Seq(Steps)
  BY DEF TInv, Processes
<1>2. NoProcess.todo = <<>>
  BY DEF NoProcess
<1>3. ~Idle
  BY <1>2 DEF TInv
<1>4. Head(proc.todo) = proc.todo[1] /\ Head(proc.todo) \in Steps /\ 1 \in DOMAIN proc.todo
  BY <1>1
<1>5. Head(proc.todo).kind \in Kinds /\ Subject \in Subjects
  BY <1>4 DEF Steps, Subject
<1>6. Head(proc.todo).kind \notin Preliminary => Opened
  BY <1>4, <1>5 DEF GInv, Gate
<1>7. Head(proc.todo).kind \in UsingKakarot => Recorded("kakarot")
  BY <1>4, <1>5 DEF GInv, Gate
<1>8. /\ Head(proc.todo).kind = "set_coinbase" => "Coinbase" \in DOMAIN proc.evm
      /\ Head(proc.todo).kind = "authorize_caller" => "token" \in DOMAIN proc.evm
  BY <1>4 DEF GInv, Behind
<1> QED BY <1>1, <1>3, <1>4, <1>5, <1>6, <1>7, <1>8

\* The head is done.
LEMMA TailGates ==
  ASSUME TInv, GInv, proc.todo # <<>>, proc'.todo = Tail(proc.todo),
         Opened => Opened', Recorded("kakarot") => Recorded("kakarot")',
         Head(proc.todo).kind \in Opening => Opened',
         Head(proc.todo).kind \in Recording => Recorded("kakarot")',
         Head(proc.todo).kind = "deploy_evm" => Subject \in DOMAIN proc'.evm
  PROVE  GInv'
<1>1. proc.todo \in Seq(Steps) /\ Head(proc.todo) = proc.todo[1]
  BY HeadFacts
<1>2. Gate(Tail(proc.todo), Kinds \ Preliminary, Opened', Opening)
  <2>1. Gate(proc.todo, Kinds \ Preliminary, Opened, Opening)
    BY DEF GInv
  <2>2. proc.todo[1].kind \in Opening => Opened'
    BY <1>1
  <2> QED BY <1>1, <2>1, <2>2, GateTail, Zenon
<1>3. Gate(Tail(proc.todo), UsingKakarot, Recorded("kakarot")', Recording)
  <2>1. Gate(proc.todo, UsingKakarot, Recorded("kakarot"), Recording)
    BY DEF GInv
  <2>2. proc.todo[1].kind \in Recording => Recorded("kakarot")'
    BY <1>1
  <2> QED BY <1>1, <2>1, <2>2, GateTail, Zenon
<1>4. /\ Behind(Tail(proc.todo), "set_coinbase", "Coinbase", proc'.evm)
      /\ Behind(Tail(proc.todo), "authorize_caller", "token", proc'.evm)
  <2>1. /\ Behind(proc.todo, "set_coinbase", "Coinbase", proc.evm)
        /\ Behind(proc.todo, "authorize_caller", "token", proc.evm)
    BY DEF GInv
  <2>2. proc.todo[1].kind = "deploy_evm" => proc.todo[1].of \in DOMAIN proc'.evm
    BY <1>1 DEF Subject
  <2> QED BY <1>1, <2>1, <2>2, BehindTail, Zenon
<1> QED BY <1>2, <1>3, <1>4 DEF GInv

\* Steps are put in the place of the head.
LEMMA InsertGates ==
  ASSUME TInv, GInv, proc.todo # <<>>, NEW t \in Seq(Steps), proc'.todo = t \o Tail(proc.todo),
         Opened', Recorded("kakarot")', Head(proc.todo).kind # "deploy_evm",
         Behind(t, "set_coinbase", "Coinbase", proc'.evm),
         Behind(t, "authorize_caller", "token", proc'.evm)
  PROVE  GInv'
<1>1. /\ Gate(proc'.todo, Kinds \ Preliminary, Opened', Opening)
      /\ Gate(proc'.todo, UsingKakarot, Recorded("kakarot")', Recording)
  BY GateOpen DEF Gate
<1> DEFINE s == proc.todo
           evm == proc.evm
           noted == proc'.evm
<1>2. s \in Seq(Steps) /\ s # <<>> /\ s[1].kind # "deploy_evm"
      /\ Behind(s, "set_coinbase", "Coinbase", evm) /\ Behind(s, "authorize_caller", "token", evm)
      /\ Behind(t, "set_coinbase", "Coinbase", noted) /\ Behind(t, "authorize_caller", "token", noted)
  BY HeadFacts DEF GInv
<1> HIDE DEF s, evm, noted
<1>3. /\ Behind(t \o Tail(s), "set_coinbase", "Coinbase", noted)
      /\ Behind(t \o Tail(s), "authorize_caller", "token", noted)
  BY <1>2, BehindInsert
<1> QED BY <1>1, <1>3 DEF GInv, s, noted

\* The process has ended.
LEMMA EndedGates ==
  ASSUME proc'.todo = <<>>
  PROVE  GInv'
BY DEF GInv, Gate, Behind

-----------------------------------------------------------------------------
(***************************************************************************)
(* Every step keeps the types                                              *)
(***************************************************************************)
LEMMA NoProcessType == NoProcess \in Processes /\ NoProcess.todo = <<>> /\ NoProcess.script = "none"
<1>1. Empty \in Records
  BY EmptyType DEF Records
<1>2. << >> \in Seq(Steps) /\ << >> \in Seq(Calls)
  OBVIOUS
<1> QED BY <1>1, <1>2 DEF NoProcess, Processes, Unset

LEMMA DoneType ==
  ASSUME NEW p \in Processes, p.todo # <<>>
  PROVE  /\ Done(p) \in Processes /\ Done(p).todo = Tail(p.todo)
         /\ Done(p).script = p.script /\ Done(p).lazy = p.lazy /\ Done(p).queue = p.queue
         /\ Done(p).pool = p.pool /\ Done(p).evm = p.evm /\ Done(p).should = p.should
         /\ Done(p).token = p.token
<1>1. p.todo \in Seq(Steps)
  BY DEF Processes
<1>2. Tail(p.todo) \in Seq(Steps)
  BY <1>1
<1> QED BY <1>2 DEF Done, Processes

\* A step that leaves the files, of a process that goes on.
LEMMA TypesKept ==
  ASSUME TInv, proc' \in Processes, proc'.script # "none", chain' \in Chains,
         UNCHANGED <<build, files, last, fresh, world>>
  PROVE  TInv'
BY DEF TInv, Idle, Opened

LEMMA EndsType ==
  ASSUME TInv, NEW how \in {"done", "raised", "killed"}, Ends(how),
         UNCHANGED <<build, chain, files, fresh, world>>
  PROVE  TInv' /\ GInv'
<1>1. proc' = NoProcess /\ last' = how
  BY DEF Ends
<1>2. GInv'
  BY <1>1, NoProcessType, EndedGates
<1>3. TInv'
  BY <1>1, NoProcessType DEF TInv, Idle, Opened
<1> QED BY <1>2, <1>3

LEMMA RaiseType ==
  ASSUME TInv, Raise
  PROVE  TInv' /\ GInv'
BY EndsType DEF Raise

LEMMA CallType ==
  ASSUME TInv, Opened, NEW op, NEW to \in Nat, NEW arg,
         \/ op \in {"upgrade", "set_account_class", "set_base_fee", "set_evm_coinbase"} /\ arg \in Nat
         \/ op \in {"set_coinbase", "authorize_caller"} /\ arg \in Nat
         \/ op \in {"fund", "deploy_eoa", "authorize"} /\ arg \in Subjects
         \/ op = "deploy" /\ arg \in Classes
  PROVE  Call(op, to, arg) \in Calls
BY SubjectsHold DEF Call, Calls, Opened

LEMMA KakarotType ==
  ASSUME TInv
  PROVE  /\ Recorded("kakarot") => Kakarot \in Nat /\ Opened
         /\ KakarotAnswers => /\ Recorded("kakarot") /\ Core \in CoreState
                              /\ Kakarot \in DOMAIN chain.core
<1>1. /\ files.starknet \in Partial(Classes, Nat) /\ chain.core \in Partial(Nat, CoreState)
      /\ DOMAIN files.starknet # {} => Opened
  BY DEF TInv, Chains
<1>2. files.starknet \in [DOMAIN files.starknet -> Nat]
  <2>1. files.starknet \in Partial(Classes, Nat)
    BY <1>1
  <2> QED BY <2>1, PartialDef
<1>3. chain.core \in [DOMAIN chain.core -> CoreState]
  <2>1. chain.core \in Partial(Nat, CoreState)
    BY <1>1
  <2> QED BY <2>1, PartialDef
<1> QED BY <1>1, <1>2, <1>3 DEF Recorded, Kakarot, KakarotAnswers, Core

LEMMA OutcomeType ==
  ASSUME TInv, NEW calls \in Seq(Calls), NEW ch \in Outcomes(calls)
  PROVE  ch \in Chains /\ Grown(chain, ch)
<1>1. chain \in Chains
  BY DEF TInv
<1>2. ch = chain \/ ch = Executed(calls)
  BY DEF Outcomes
<1> QED BY <1>1, <1>2, ExecutedGrows, GrownSame

LEMMA InvokeType ==
  ASSUME TInv, NEW p \in Processes, NEW calls \in Seq(Calls), Invoke(p, calls)
  PROVE  /\ proc' \in Processes /\ chain' \in Chains /\ Grown(chain, chain')
         /\ proc'.todo = p.todo /\ proc'.script = p.script /\ proc'.evm = p.evm
         /\ proc'.lazy = p.lazy /\ proc'.pool = p.pool /\ proc'.should = p.should
         /\ proc'.token = p.token
<1>1. p.queue \in Seq(Calls) /\ chain \in Chains
  BY DEF Processes, TInv
<1>2. CASE p.lazy
  <2>1. p.queue \o calls \in Seq(Calls)
    BY <1>1
  <2> QED BY <1>1, <1>2, <2>1, GrownSame DEF Invoke, Processes
<1>3. CASE ~p.lazy
  <2>1. proc' = p /\ chain' \in Outcomes(calls)
    BY <1>3 DEF Invoke
  <2> QED BY <2>1, OutcomeType
<1> QED BY <1>2, <1>3

\* The head is done, and nothing but the chain and the process changes.
LEMMA DoneKeeps ==
  ASSUME TInv, GInv, proc.todo # <<>>, proc' \in Processes, chain' \in Chains,
         proc'.todo = Tail(proc.todo), proc'.script = proc.script,
         UNCHANGED <<build, files, last, fresh, world>>,
         Head(proc.todo).kind \in Opening => Opened,
         Head(proc.todo).kind \in Recording => Recorded("kakarot"),
         Head(proc.todo).kind = "deploy_evm" => Subject \in DOMAIN proc'.evm
  PROVE  TInv' /\ GInv'
<1>1. proc.script # "none"
  BY HeadFacts DEF Idle
<1>2. Opened' = Opened /\ Recorded("kakarot")' = Recorded("kakarot")
  BY DEF Opened, Recorded
<1>3. GInv'
  BY <1>2, TailGates
<1> QED BY <1>1, <1>3, TypesKept

\* So it is when steps are put in its place.
LEMMA InsertKeeps ==
  ASSUME TInv, GInv, proc.todo # <<>>, proc' \in Processes, chain' \in Chains,
         NEW t \in Seq(Steps), proc'.todo = t \o Tail(proc.todo), proc'.script = proc.script,
         UNCHANGED <<build, files, last, world>>, fresh' \in Nat, fresh' >= fresh,
         Head(proc.todo).kind \in UsingKakarot \ {"deploy_evm"},
         Behind(t, "set_coinbase", "Coinbase", proc'.evm),
         Behind(t, "authorize_caller", "token", proc'.evm)
  PROVE  TInv' /\ GInv'
<1>1. proc.script # "none" /\ Opened /\ Recorded("kakarot")
  BY HeadFacts DEF Idle, UsingKakarot, Preliminary
<1>2. Opened' /\ Recorded("kakarot")'
  BY <1>1 DEF Opened, Recorded
<1>3. GInv'
  BY <1>2, InsertGates
<1>4. TInv'
  <2>1. \A n \in DOMAIN files.starknet : files'.starknet[n] \in 2..fresh'
    BY DEF TInv
  <2> QED BY <1>1, <2>1 DEF TInv, Idle, Opened
<1> QED BY <1>3, <1>4

LEMMA HeadAt ==
  ASSUME NEW kind, At(kind)
  PROVE  proc.todo # <<>> /\ Head(proc.todo).kind = kind
BY DEF At

\* The steps of the queue.
LEMMA QueueKeeps ==
  ASSUME TInv, GInv, Execute \/ RegisterLazyAccount \/ RemoveLazyAccount
  PROVE  TInv' /\ GInv'
<1>1. proc \in Processes /\ proc.queue \in Seq(Calls) /\ chain \in Chains
  BY DEF TInv, Processes
<1>2. CASE Execute
  <2>1. proc.todo # <<>> /\ Head(proc.todo).kind = "execute"
    BY <1>2, HeadAt DEF Execute
  <2>2. proc' = [Done(proc) EXCEPT !.queue = <<>>] /\ UNCHANGED <<build, files, last, fresh, world>>
        /\ chain' \in Outcomes(proc.queue)
    BY <1>2 DEF Execute
  <2>3. proc' \in Processes /\ proc'.todo = Tail(proc.todo) /\ proc'.script = proc.script
    <3>1. /\ Done(proc) \in Processes /\ Done(proc).todo = Tail(proc.todo)
          /\ Done(proc).script = proc.script
      BY <1>1, <2>1, DoneType
    <3>2. << >> \in Seq(Calls)
      OBVIOUS
    <3> QED BY <2>2, <3>1, <3>2 DEF Processes
  <2>4. chain' \in Chains
    BY <1>1, <2>2, OutcomeType
  <2> QED BY <2>1, <2>2, <2>3, <2>4, DoneKeeps DEF Opening, Recording
<1>3. CASE RegisterLazyAccount
  <2>1. proc.todo # <<>> /\ Head(proc.todo).kind = "register"
    BY <1>3, HeadAt DEF RegisterLazyAccount
  <2>2. proc' = [Done(proc) EXCEPT !.lazy = TRUE]
        /\ UNCHANGED <<build, chain, files, last, fresh, world>>
    BY <1>3 DEF RegisterLazyAccount
  <2>3. proc' \in Processes /\ proc'.todo = Tail(proc.todo) /\ proc'.script = proc.script
    <3>1. Done(proc) \in Processes /\ Done(proc).todo = Tail(proc.todo)
          /\ Done(proc).script = proc.script
      BY <1>1, <2>1, DoneType
    <3> QED BY <2>2, <3>1 DEF Processes
  <2> QED BY <1>1, <2>1, <2>2, <2>3, DoneKeeps DEF Opening, Recording
<1>4. CASE RemoveLazyAccount
  <2>1. proc.todo # <<>> /\ Head(proc.todo).kind = "remove"
    BY <1>4, HeadAt DEF RemoveLazyAccount
  <2>2. proc' = [Done(proc) EXCEPT !.lazy = FALSE]
        /\ UNCHANGED <<build, chain, files, last, fresh, world>>
    BY <1>4 DEF RemoveLazyAccount
  <2>3. proc' \in Processes /\ proc'.todo = Tail(proc.todo) /\ proc'.script = proc.script
    <3>1. Done(proc) \in Processes /\ Done(proc).todo = Tail(proc.todo)
          /\ Done(proc).script = proc.script
      BY <1>1, <2>1, DoneType
    <3> QED BY <2>2, <3>1 DEF Processes
  <2> QED BY <1>1, <2>1, <2>2, <2>3, DoneKeeps DEF Opening, Recording
<1> QED BY <1>2, <1>3, <1>4

\* A step that is only taken off the list.
LEMMA PassKeeps ==
  ASSUME TInv, GInv, proc.todo # <<>>, proc' = Done(proc), chain' \in Chains,
         UNCHANGED <<build, files, last, fresh, world>>,
         Head(proc.todo).kind \in Opening => Opened,
         Head(proc.todo).kind \in Recording => Recorded("kakarot"),
         Head(proc.todo).kind # "deploy_evm"
  PROVE  TInv' /\ GInv'
<1>1. proc \in Processes
  BY DEF TInv
<1>2. proc' \in Processes /\ proc'.todo = Tail(proc.todo) /\ proc'.script = proc.script
  BY <1>1, DoneType
<1> QED BY <1>2, DoneKeeps

LEMMA ChecksKeep ==
  ASSUME TInv, GInv, CheckDeclared \/ CheckDeployed
  PROVE  TInv' /\ GInv'
<1>1. chain \in Chains
  BY DEF TInv
<1>2. ASSUME NEW kind \in {"check_declared", "check_deployed"}, NEW ok, ExitUnless(kind, ok),
             ok => Opened, ok /\ kind = "check_deployed" => Recorded("kakarot")
      PROVE  TInv' /\ GInv'
  <2>1. proc.todo # <<>> /\ Head(proc.todo).kind = kind
        /\ UNCHANGED <<build, chain, files, fresh, world>>
    BY <1>2, HeadAt DEF ExitUnless
  <2>2. CASE ok
    <3>1. proc' = Done(proc) /\ last' = last
      BY <1>2, <2>2 DEF ExitUnless
    <3> QED BY <1>1, <1>2, <2>1, <2>2, <3>1, PassKeeps DEF Recording
  <2>3. CASE ~ok
    <3>1. Ends("done")
      BY <1>2, <2>3 DEF ExitUnless
    <3> QED BY <2>1, <3>1, EndsType
  <2> QED BY <2>2, <2>3
<1>3. "kakarot" \in DOMAIN files.declared => Opened
  <2>1. files.declared \in {Empty} \cup Versions
    BY DEF TInv
  <2> QED BY <2>1 DEF Opened, Empty
<1>4. Recorded("kakarot") => Opened
  BY DEF TInv, Recorded
<1>5. CASE CheckDeclared
  BY <1>2, <1>3, <1>5 DEF CheckDeclared
<1>6. CASE CheckDeployed
  BY <1>2, <1>4, <1>6 DEF CheckDeployed
<1> QED BY <1>5, <1>6

LEMMA DeclareKeeps ==
  ASSUME TInv, GInv, Declare
  PROVE  TInv' /\ GInv'
<1>1. proc.todo # <<>> /\ Head(proc.todo).kind = "declare"
  BY HeadAt DEF Declare
<1>2. proc' = Done(proc) /\ UNCHANGED <<build, files, last, fresh, world>>
  BY DEF Declare
<1>3. Subject \in Classes
  BY <1>1, HeadFacts DEF Steps, Subject
<1>4. <<Subject, build[Subject]>> \in Classes \X Nat
  <2>1. build[Subject] \in Nat
    BY <1>3 DEF TInv
  <2> QED BY <1>3, <2>1
<1>5. chain' \in Chains
  <2>1. chain \in Chains
    BY DEF TInv
  <2>2. CASE UNCHANGED chain
    BY <2>1, <2>2
  <2>3. CASE chain' = [chain EXCEPT !.declared = chain.declared \cup {<<Subject, build[Subject]>>}]
    BY <1>4, <2>1, <2>3 DEF Chains
  <2> QED BY <2>2, <2>3 DEF Declare
<1> QED BY <1>1, <1>2, <1>5, PassKeeps DEF Opening, Recording

LEMMA DumpDeclarationsKeeps ==
  ASSUME TInv, GInv, DumpDeclarations
  PROVE  TInv' /\ GInv'
<1>1. proc.todo # <<>> /\ Head(proc.todo).kind = "dump_declarations"
  BY HeadAt DEF DumpDeclarations
<1>2. /\ proc' = Done(proc) /\ UNCHANGED <<build, chain, last, fresh, world>>
      /\ files' = [files EXCEPT !.declared = build]
  BY DEF DumpDeclarations
<1>3. proc \in Processes /\ proc.script # "none"
  BY <1>1, HeadFacts DEF Idle
<1>4. proc' \in Processes /\ proc'.todo = Tail(proc.todo) /\ proc'.script = proc.script
  BY <1>1, <1>2, <1>3, DoneType
<1>5. build \in Versions
  <2>1. build \in [Classes -> 1..world.builds] /\ world.builds \in Nat
    BY DEF TInv
  <2> QED BY <2>1 DEF Versions
<1>6. /\ files'.declared = build /\ files'.starknet = files.starknet /\ files'.evm = files.evm
      /\ files' \in [declared : {Empty} \cup Versions, starknet : Partial(Classes, Nat), evm : Records]
  BY <1>2, <1>5 DEF TInv
<1>7. TInv'
  BY <1>2, <1>3, <1>4, <1>5, <1>6 DEF TInv, Idle, Opened
<1>8. Opened' /\ Recorded("kakarot")' = Recorded("kakarot")
  BY <1>5, <1>6 DEF Opened, Recorded
<1>9. GInv'
  BY <1>1, <1>4, <1>8, TailGates DEF Recording
<1> QED BY <1>7, <1>9

\* A step that is done, appends calls to the queue and records addresses.
LEMMA QueuedKeeps ==
  ASSUME TInv, GInv, proc.todo # <<>>, Opened, NEW calls \in Seq(Calls), NEW recorded,
         proc' = [Done(proc) EXCEPT !.queue = proc.queue \o calls],
         recorded \in Partial(Classes, Nat), DOMAIN files.starknet \subseteq DOMAIN recorded,
         \A n \in DOMAIN recorded : recorded[n] \in 2..fresh',
         files' = [files EXCEPT !.starknet = recorded], fresh' \in Nat, fresh' >= fresh,
         UNCHANGED <<build, chain, last, world>>,
         Head(proc.todo).kind \in Recording => "kakarot" \in DOMAIN recorded,
         Head(proc.todo).kind # "deploy_evm"
  PROVE  TInv' /\ GInv'
<1>1. proc \in Processes /\ proc.script # "none"
  BY HeadFacts DEF Idle
<1>2. /\ Done(proc) \in Processes /\ Done(proc).todo = Tail(proc.todo)
      /\ Done(proc).script = proc.script
  BY <1>1, DoneType
<1>3. proc.queue \o calls \in Seq(Calls)
  <2>1. proc.queue \in Seq(Calls)
    BY <1>1 DEF Processes
  <2> QED BY <2>1
<1>4. proc' \in Processes /\ proc'.todo = Tail(proc.todo) /\ proc'.script = proc.script
  BY <1>2, <1>3 DEF Processes
<1>5. /\ files'.declared = files.declared /\ files'.starknet = recorded /\ files'.evm = files.evm
      /\ files' \in [declared : {Empty} \cup Versions, starknet : Partial(Classes, Nat), evm : Records]
  BY DEF TInv
<1>6. Opened' /\ (Recorded("kakarot")' <=> "kakarot" \in DOMAIN recorded)
  BY <1>5 DEF Opened, Recorded
<1>7. Recorded("kakarot") => Recorded("kakarot")'
  BY <1>6 DEF Recorded
<1>8. GInv'
  BY <1>4, <1>6, <1>7, TailGates
<1>9. TInv'
  BY <1>1, <1>4, <1>5, <1>6 DEF TInv, Idle, Opened
<1> QED BY <1>8, <1>9

LEMMA Queued ==
  ASSUME NEW q \in Seq(Calls), NEW a \in Seq(Calls), NEW b \in Seq(Calls)
  PROVE  a \o b \in Seq(Calls) /\ q \o a \o b = q \o (a \o b)
OBVIOUS

\* An address that is recorded, or a new one.
LEMMA RecordedType ==
  ASSUME TInv
  PROVE  /\ files.starknet \in Partial(Classes, Nat) /\ fresh \in Nat
         /\ \A n \in DOMAIN files.starknet : files.starknet[n] \in 2..fresh
         /\ \A name : Skips(name) => files.starknet[name] \in 2..fresh
BY DEF TInv, Skips, Recorded

LEMMA WithRange ==
  ASSUME NEW f \in Partial(Classes, Nat), NEW x \in Classes, NEW v \in Nat, NEW m \in Nat,
         \A n \in DOMAIN f : f[n] \in 2..m, v \in 2..m
  PROVE  /\ With(f, x, v) \in Partial(Classes, Nat)
         /\ DOMAIN With(f, x, v) = DOMAIN f \cup {x}
         /\ \A n \in DOMAIN With(f, x, v) : With(f, x, v)[n] \in 2..m
<1>1. With(f, x, v) \in Partial(Classes, Nat)
  BY WithType
<1> QED BY <1>1 DEF With

LEMMA DeployStarknetContractsKeeps ==
  ASSUME TInv, GInv, DeployStarknetContracts
  PROVE  TInv' /\ GInv'
<1>1. proc.todo # <<>> /\ Head(proc.todo).kind = "starknet" /\ UNCHANGED <<build, chain, last, world>>
  BY HeadAt DEF DeployStarknetContracts
<1>2. Opened /\ chain \in Chains
  BY Zenon, <1>1, HeadFacts DEF Preliminary, TInv
<1>3. CASE Network = "prod"
  <2>1. proc' = Done(proc) /\ UNCHANGED <<files, fresh>>
    BY <1>3 DEF DeployStarknetContracts
  <2> QED BY <1>1, <1>2, <2>1, PassKeeps DEF Opening, Recording
<1>4. CASE Network # "prod"
  <2> DEFINE addr(i) == IF Skips(Fixtures[i]) THEN files.starknet[Fixtures[i]] ELSE fresh + i
             deploy(i) == IF Skips(Fixtures[i]) THEN <<>>
                          ELSE <<Call("deploy", addr(i), Fixtures[i])>>
             coinbase == IF addr(1) \in chain.evmCoinbase THEN <<>>
                         ELSE <<Call("set_evm_coinbase", addr(1), Deployer)>>
             first == With(files.starknet, Fixtures[1], addr(1))
             recorded == With(first, Fixtures[2], addr(2))
  <2>1. /\ proc' = [Done(proc) EXCEPT !.queue = proc.queue \o deploy(1) \o deploy(2) \o coinbase]
        /\ files' = [files EXCEPT !.starknet = recorded]
        /\ fresh' = fresh + 3
    <3>1. Len(Fixtures) = 2
      BY DEF Fixtures
    <3>2. (fresh + Len(Fixtures)) + 1 = fresh + 3
      BY <3>1, RecordedType
    <3>3. Done(proc).queue = proc.queue
      BY <1>1, DoneType DEF TInv
    <3> QED BY <1>4, <3>2, <3>3 DEF DeployStarknetContracts
  <2>2. ASSUME NEW i \in 1..2
        PROVE  addr(i) \in 2..fresh' /\ Fixtures[i] \in Classes
    <3>1. fresh \in Nat /\ fresh >= 2
      BY DEF TInv
    <3>2. Skips(Fixtures[i]) => files.starknet[Fixtures[i]] \in 2..fresh
      BY RecordedType
    <3>3. Fixtures[i] \in Classes
      BY DEF Fixtures, Classes
    <3> QED BY <2>1, <3>1, <3>2, <3>3
  <2>3. \A i \in 1..2 : deploy(i) \in Seq(Calls)
    <3> SUFFICES ASSUME NEW i \in 1..2 PROVE deploy(i) \in Seq(Calls)
      OBVIOUS
    <3>1. addr(i) \in Nat /\ Fixtures[i] \in Classes
      BY <2>2
    <3> HIDE DEF addr
    <3>2. Call("deploy", addr(i), Fixtures[i]) \in Calls
      BY <1>2, <3>1, CallType
    <3> QED BY <3>2
  <2>4. coinbase \in Seq(Calls)
    <3>1. addr(1) \in Nat
      BY <2>2
    <3> HIDE DEF addr
    <3>2. Call("set_evm_coinbase", addr(1), Deployer) \in Calls
      BY <1>2, <3>1, CallType DEF Deployer
    <3> QED BY <3>2
  <2> DEFINE calls == deploy(1) \o deploy(2) \o coinbase
  <2>5. /\ calls \in Seq(Calls)
        /\ proc.queue \o deploy(1) \o deploy(2) \o coinbase = proc.queue \o calls
    <3>1. proc.queue \in Seq(Calls)
      BY DEF TInv, Processes
    <3>2. deploy(1) \in Seq(Calls) /\ deploy(2) \in Seq(Calls)
      BY <2>3
    <3> DEFINE q == proc.queue
               d1 == deploy(1)
               d2 == deploy(2)
    <3>3. q \in Seq(Calls) /\ d1 \in Seq(Calls) /\ d2 \in Seq(Calls) /\ coinbase \in Seq(Calls)
      BY <2>4, <3>1, <3>2
    <3> HIDE DEF q, d1, d2, coinbase
    <3>4. d1 \o d2 \o coinbase \in Seq(Calls)
      BY <3>3
    <3>5. q \o d1 \o d2 \o coinbase = q \o (d1 \o d2 \o coinbase)
      BY <3>3, SMTT(60)
    <3> QED BY <3>4, <3>5 DEF q, d1, d2
  <2>6. fresh' \in Nat /\ fresh' >= fresh
    BY <2>1, RecordedType
  <2>7. /\ first \in Partial(Classes, Nat) /\ DOMAIN first = DOMAIN files.starknet \cup {Fixtures[1]}
        /\ \A n \in DOMAIN first : first[n] \in 2..fresh'
    <3>1. \A n \in DOMAIN files.starknet : files.starknet[n] \in 2..fresh'
      BY <2>6, RecordedType
    <3>2. addr(1) \in 2..fresh' /\ addr(1) \in Nat /\ Fixtures[1] \in Classes
      BY <2>2
    <3> HIDE DEF addr
    <3> QED BY <2>6, <3>1, <3>2, RecordedType, WithRange
  <2>8. /\ recorded \in Partial(Classes, Nat) /\ DOMAIN recorded = DOMAIN first \cup {Fixtures[2]}
        /\ \A n \in DOMAIN recorded : recorded[n] \in 2..fresh'
    <3>1. addr(2) \in 2..fresh' /\ addr(2) \in Nat /\ Fixtures[2] \in Classes
      BY SMTT(30), <2>2
    <3> HIDE DEF addr, first
    <3> QED BY <2>6, <2>7, <3>1, WithRange
  <2>9. /\ proc' = [Done(proc) EXCEPT !.queue = proc.queue \o calls]
        /\ files' = [files EXCEPT !.starknet = recorded]
        /\ DOMAIN files.starknet \subseteq DOMAIN recorded
    BY <2>1, <2>5, <2>7, <2>8
  <2> HIDE DEF recorded, calls, first
  <2> QED BY <1>1, <1>2, <2>5, <2>6, <2>8, <2>9, QueuedKeeps DEF Recording
<1> QED BY <1>3, <1>4

LEMMA DeployOrUpgradeKakarotKeeps ==
  ASSUME TInv, GInv, DeployOrUpgradeKakarot
  PROVE  TInv' /\ GInv'
<1>1. proc.todo # <<>> /\ Head(proc.todo).kind = "kakarot" /\ UNCHANGED <<build, chain, world>>
  BY HeadAt DEF DeployOrUpgradeKakarot
<1>2. Opened /\ chain \in Chains /\ Done(proc).queue = proc.queue
  BY <1>1, HeadFacts, DoneType DEF Preliminary, TInv
<1>3. CASE Recorded("kakarot") /\ Network # "dev" /\ Exists(Kakarot)
  <2>1. /\ proc' = [Done(proc) EXCEPT !.queue = proc.queue \o Upgrade]
        /\ UNCHANGED <<files, last, fresh>>
    BY <1>2, <1>3 DEF DeployOrUpgradeKakarot
  <2>2. Kakarot \in Nat
    BY <1>3, KakarotType
  <2>3. Upgrade \in Seq(Calls)
    <3>1. Call("upgrade", Kakarot, 0) \in Calls /\ Call("set_account_class", Kakarot, 0) \in Calls
      BY <1>2, <2>2, CallType
    <3> QED BY <3>1 DEF Upgrade
  <2>4. files' = [files EXCEPT !.starknet = files.starknet]
    BY <2>1 DEF TInv
  <2>5. /\ files.starknet \in Partial(Classes, Nat) /\ fresh' \in Nat /\ fresh' >= fresh
        /\ \A n \in DOMAIN files.starknet : files.starknet[n] \in 2..fresh'
    BY <2>1, RecordedType
  <2>6. "kakarot" \in DOMAIN files.starknet
    BY <1>3 DEF Recorded
  <2> QED BY <1>1, <1>2, <2>1, <2>3, <2>4, <2>5, <2>6, QueuedKeeps
<1>4. CASE Recorded("kakarot") /\ Network # "dev" /\ ~Exists(Kakarot)
  <2>1. Ends("raised") /\ UNCHANGED <<files, fresh>>
    BY <1>4 DEF DeployOrUpgradeKakarot
  <2> QED BY <1>1, <2>1, EndsType
<1>5. CASE ~(Recorded("kakarot") /\ Network # "dev")
  <2> DEFINE k == IF Skips("kakarot") THEN Kakarot ELSE fresh
             deploys == IF Skips("kakarot") THEN <<>> ELSE <<Call("deploy", k, "kakarot")>>
             calls == deploys \o Configure(k)
             recorded == With(files.starknet, "kakarot", k)
  <2>1. /\ proc' = [Done(proc) EXCEPT !.queue = proc.queue \o deploys \o Configure(k)]
        /\ files' = [files EXCEPT !.starknet = recorded]
        /\ fresh' = fresh + 1 /\ last' = last
    BY <1>2, <1>5 DEF DeployOrUpgradeKakarot
  <2>2. k \in 2..fresh' /\ k \in Nat /\ fresh' \in Nat /\ fresh' >= fresh
    <3>1. fresh \in Nat /\ fresh >= 2
      BY DEF TInv
    <3>2. Skips("kakarot") => Kakarot \in 2..fresh
      BY RecordedType DEF Kakarot
    <3> QED BY <2>1, <3>1, <3>2
  <2> HIDE DEF k
  <2>3. deploys \in Seq(Calls) /\ Configure(k) \in Seq(Calls)
    <3>1. "kakarot" \in Classes
      BY DEF Classes
    <3>2. /\ Call("deploy", k, "kakarot") \in Calls /\ Call("set_base_fee", k, 0) \in Calls
          /\ Call("set_coinbase", k, Deployer) \in Calls
      BY <1>2, <2>2, <3>1, CallType DEF Deployer
    <3> QED BY <3>2 DEF Configure
  <2>4. calls \in Seq(Calls) /\ proc.queue \o deploys \o Configure(k) = proc.queue \o calls
    <3>1. proc.queue \in Seq(Calls)
      BY DEF TInv, Processes
    <3> DEFINE c == Configure(k)
    <3>2. deploys \in Seq(Calls) /\ c \in Seq(Calls)
      BY <2>3
    <3> HIDE DEF deploys, c
    <3>3. deploys \o c \in Seq(Calls) /\ proc.queue \o deploys \o c = proc.queue \o (deploys \o c)
      BY ZenonT(60), <3>1, <3>2, Queued
    <3> QED BY <3>3 DEF c
  <2>5. /\ recorded \in Partial(Classes, Nat) /\ DOMAIN recorded = DOMAIN files.starknet \cup {"kakarot"}
        /\ \A n \in DOMAIN recorded : recorded[n] \in 2..fresh'
    <3>1. \A n \in DOMAIN files.starknet : files.starknet[n] \in 2..fresh'
      BY <2>2, RecordedType
    <3>2. "kakarot" \in Classes
      BY DEF Classes
    <3> QED BY <2>2, <3>1, <3>2, RecordedType, WithRange
  <2>6. proc' = [Done(proc) EXCEPT !.queue = proc.queue \o calls]
    BY <2>1, <2>4
  <2> HIDE DEF recorded, calls, deploys
  <2> QED BY <1>1, <1>2, <2>1, <2>2, <2>4, <2>5, <2>6, QueuedKeeps
<1> QED BY <1>3, <1>4, <1>5

\* A step that is done with an invoke.
LEMMA InvokeKeeps ==
  ASSUME TInv, GInv, proc.todo # <<>>, NEW calls \in Seq(Calls), Invoke(Done(proc), calls),
         UNCHANGED <<build, files, last, fresh, world>>,
         Head(proc.todo).kind \notin Opening \cup Recording \cup {"deploy_evm"}
  PROVE  TInv' /\ GInv'
<1>1. proc \in Processes
  BY DEF TInv
<1>2. Done(proc) \in Processes /\ Done(proc).todo = Tail(proc.todo) /\ Done(proc).script = proc.script
  BY <1>1, DoneType
<1>3. /\ proc' \in Processes /\ chain' \in Chains
      /\ proc'.todo = Done(proc).todo /\ proc'.script = Done(proc).script
  BY <1>2, InvokeType
<1> QED BY <1>2, <1>3, DoneKeeps

LEMMA CreatePoolKeeps ==
  ASSUME TInv, GInv, CreatePool
  PROVE  TInv' /\ GInv'
<1>1. proc.todo # <<>>
  BY DEF CreatePool, At
<1>2. proc \in Processes /\ proc.queue \in Seq(Calls) /\ proc.script # "none"
  BY <1>1, HeadFacts DEF Processes, Idle
<1>3. /\ proc' = [proc EXCEPT !.queue = <<>>, !.pool = TRUE]
      /\ UNCHANGED <<build, files, last, fresh, world>> /\ chain' \in Outcomes(proc.queue)
  BY DEF CreatePool
<1>4. << >> \in Seq(Calls)
  OBVIOUS
<1>5. /\ proc' \in Processes /\ proc'.script = proc.script /\ proc'.todo = proc.todo
      /\ proc'.evm = proc.evm
  BY <1>2, <1>3, <1>4 DEF Processes
<1>6. chain' \in Chains
  BY <1>2, <1>3, OutcomeType
<1>7. TInv'
  BY <1>2, <1>3, <1>5, <1>6, TypesKept
<1>8. GInv'
  BY <1>3, <1>5 DEF GInv, Opened, Recorded
<1> QED BY <1>7, <1>8

LEMMA FundKeeps ==
  ASSUME TInv, GInv, FundStep
  PROVE  TInv' /\ GInv'
<1>1. proc.todo # <<>> /\ Head(proc.todo).kind = "fund"
  BY HeadAt DEF FundStep
<1>2. Opened /\ Recorded("kakarot") /\ Kakarot \in Nat /\ Subject \in Subjects
  BY <1>1, HeadFacts, KakarotType DEF Preliminary, UsingKakarot
<1>3. CASE KakarotAnswers
  <2> DEFINE calls == IF Subject \in Core.funded THEN <<>> ELSE <<Call("fund", Kakarot, Subject)>>
  <2>1. Invoke(Done(proc), calls) /\ UNCHANGED <<build, files, last, fresh, world>>
    BY <1>3 DEF FundStep
  <2>2. calls \in Seq(Calls)
    <3>1. Call("fund", Kakarot, Subject) \in Calls
      BY <1>2, CallType
    <3> QED BY <3>1
  <2> HIDE DEF calls
  <2> QED BY <1>1, <2>1, <2>2, InvokeKeeps DEF Opening, Recording
<1>4. CASE ~KakarotAnswers
  BY <1>4, RaiseType DEF FundStep
<1> QED BY <1>3, <1>4

LEMMA DeployEoaKeeps ==
  ASSUME TInv, GInv, DeployEoa
  PROVE  TInv' /\ GInv'
<1>1. proc.todo # <<>> /\ Head(proc.todo).kind = "eoa"
  BY HeadAt DEF DeployEoa
<1>2. /\ Opened /\ Recorded("kakarot") /\ Kakarot \in Nat /\ Subject \in Subjects
      /\ chain \in Chains
  BY <1>1, HeadFacts, KakarotType DEF Preliminary, UsingKakarot, TInv
<1>3. CASE ~KakarotAnswers
  BY <1>3, RaiseType DEF DeployEoa
<1>4. CASE KakarotAnswers /\ Subject \in Core.eoas
  <2>1. proc' = Done(proc) /\ UNCHANGED <<build, chain, files, last, fresh, world>>
    BY <1>4 DEF DeployEoa
  <2> QED BY <1>1, <1>2, <2>1, PassKeeps DEF Opening, Recording
<1>5. CASE KakarotAnswers /\ Subject \notin Core.eoas
  <2> DEFINE calls == <<Call("deploy_eoa", Kakarot, Subject)>>
  <2>1. /\ proc' = Done(proc) /\ UNCHANGED <<build, files, last, fresh, world>>
        /\ chain' \in Outcomes(calls)
    BY <1>5 DEF DeployEoa
  <2>2. calls \in Seq(Calls)
    <3>1. Call("deploy_eoa", Kakarot, Subject) \in Calls
      BY <1>2, CallType
    <3> QED BY <3>1
  <2> HIDE DEF calls
  <2>3. chain' \in Chains
    BY <2>1, <2>2, OutcomeType
  <2> QED BY <1>1, <2>1, <2>3, PassKeeps DEF Opening, Recording
<1> QED BY <1>3, <1>4, <1>5

\* An instance of Kakarot takes another state.
LEMMA CoreChanged ==
  ASSUME chain \in Chains, NEW k \in DOMAIN chain.core, NEW v \in CoreState,
         chain' = [chain EXCEPT !.core = [chain.core EXCEPT ![k] = v]]
  PROVE  /\ chain' \in Chains /\ chain'.declared = chain.declared /\ chain'.code = chain.code
         /\ DOMAIN chain'.core = DOMAIN chain.core /\ chain'.core[k] = v
         /\ \A j \in DOMAIN chain.core : j # k => chain'.core[j] = chain.core[j]
<1>1. chain.core \in Partial(Nat, CoreState)
  BY DEF Chains
<1> DEFINE core == [chain.core EXCEPT ![k] = v]
<1>2. core \in Partial(Nat, CoreState) /\ DOMAIN core = DOMAIN chain.core
  BY <1>1, ExceptType
<1>3. core[k] = v /\ \A j \in DOMAIN chain.core : j # k => core[j] = chain.core[j]
  <2>1. chain.core \in [DOMAIN chain.core -> CoreState]
    BY <1>1, PartialDef
  <2> QED BY <2>1
<1>4. chain' = [chain EXCEPT !.core = core]
  OBVIOUS
<1> HIDE DEF core
<1>5. /\ chain'.core = core /\ chain'.declared = chain.declared /\ chain'.code = chain.code
      /\ chain' \in Chains
  BY <1>2, <1>4 DEF Chains
<1> QED BY <1>2, <1>3, <1>5

\* The contract that DeployEvm creates.
NewContract == Deployer + 1 + Cardinality(Core.contracts)

LEMMA Created ==
  ASSUME TInv, KakarotAnswers,
         chain' = [chain EXCEPT !.core[Kakarot].contracts = @ \cup {NewContract}]
  PROVE  /\ NewContract \in Nat \ {0}
         /\ chain' \in Chains /\ chain'.declared = chain.declared /\ chain'.code = chain.code
         /\ DOMAIN chain'.core = DOMAIN chain.core
         /\ chain'.core[Kakarot] = [Core EXCEPT !.contracts = Core.contracts \cup {NewContract}]
         /\ \A j \in DOMAIN chain.core : j # Kakarot => chain'.core[j] = chain.core[j]
<1>1. Core \in CoreState /\ Kakarot \in DOMAIN chain.core /\ chain \in Chains
  BY KakarotType DEF TInv
<1>2. IsFiniteSet(Core.contracts) /\ Core.contracts \in SUBSET Nat
  BY <1>1 DEF CoreState
<1>3. NewContract \in Nat \ {0}
  <2>1. Cardinality(Core.contracts) \in Nat
    BY <1>2, FS_CardinalityType
  <2> QED BY <2>1 DEF NewContract, Deployer
<1>4. IsFiniteSet(Core.contracts \cup {NewContract})
  BY <1>2, FS_AddElement
<1> DEFINE v == [Core EXCEPT !.contracts = Core.contracts \cup {NewContract}]
<1>5. v \in CoreState
  <2>1. Core.contracts \cup {NewContract} \in {S \in SUBSET Nat : IsFiniteSet(S)}
    BY <1>2, <1>3, <1>4
  <2> QED BY <1>1, <2>1 DEF CoreState
<1>6. chain' = [chain EXCEPT !.core = [chain.core EXCEPT ![Kakarot] = v]]
  BY DEF Core
<1> HIDE DEF v
<1>7. /\ chain' \in Chains /\ chain'.declared = chain.declared /\ chain'.code = chain.code
      /\ DOMAIN chain'.core = DOMAIN chain.core /\ chain'.core[Kakarot] = v
      /\ \A j \in DOMAIN chain.core : j # Kakarot => chain'.core[j] = chain.core[j]
  BY ZenonT(60), <1>1, <1>5, <1>6, CoreChanged
<1> QED BY <1>3, <1>7 DEF v

LEMMA EvmType ==
  ASSUME TInv
  PROVE  /\ proc.evm \in Records /\ files.evm \in Records
         /\ proc.evm \in Partial(Recordable, [address : Nat, kakarot : Nat])
         /\ \A n \in DOMAIN proc.evm : proc.evm[n] \in [address : Nat, kakarot : Nat]
<1>1. proc.evm \in Records /\ files.evm \in Records
  BY DEF TInv, Processes
<1>2. proc.evm \in Partial(Recordable, [address : Nat, kakarot : Nat])
  BY <1>1 DEF Records
<1>3. proc.evm \in [DOMAIN proc.evm -> [address : Nat, kakarot : Nat]]
  BY <1>2, PartialDef
<1> QED BY <1>1, <1>2, <1>3

LEMMA NotedType ==
  ASSUME TInv, NEW n \in Recordable, NEW a \in Nat, NEW k \in Nat
  PROVE  /\ With(proc.evm, n, [address |-> a, kakarot |-> k]) \in Records
         /\ n \in DOMAIN With(proc.evm, n, [address |-> a, kakarot |-> k])
<1> DEFINE r == [address |-> a, kakarot |-> k]
<1>1. r \in [address : Nat, kakarot : Nat]
  OBVIOUS
<1> HIDE DEF r
<1>2. proc.evm \in Partial(Recordable, [address : Nat, kakarot : Nat])
  BY EvmType
<1>3. With(proc.evm, n, r) \in Partial(Recordable, [address : Nat, kakarot : Nat])
  BY <1>1, <1>2, WithType
<1>4. n \in DOMAIN With(proc.evm, n, r)
  BY DEF With
<1> QED BY <1>3, <1>4 DEF Records, r

\* A step that is done and changes the addresses the process knows.
LEMMA EvmKeeps ==
  ASSUME TInv, GInv, proc.todo # <<>>, chain' \in Chains, NEW evm \in Records,
         proc' = [Done(proc) EXCEPT !.evm = evm], UNCHANGED <<build, files, last, fresh, world>>,
         Head(proc.todo).kind \notin Opening \cup Recording,
         Head(proc.todo).kind = "deploy_evm" => Subject \in DOMAIN evm
  PROVE  TInv' /\ GInv'
<1>1. /\ Done(proc) \in Processes /\ Done(proc).todo = Tail(proc.todo)
      /\ Done(proc).script = proc.script
  BY DoneType DEF TInv
<1>2. /\ proc' \in Processes /\ proc'.todo = Tail(proc.todo) /\ proc'.script = proc.script
      /\ proc'.evm = evm
  BY <1>1 DEF Processes
<1> QED BY <1>2, DoneKeeps

LEMMA DeployEvmKeeps ==
  ASSUME TInv, GInv, DeployEvm
  PROVE  TInv' /\ GInv'
<1>1. proc.todo # <<>> /\ Head(proc.todo).kind = "deploy_evm"
  BY HeadAt DEF DeployEvm
<1>2. CASE /\ KakarotAnswers
           /\ chain' = [chain EXCEPT !.core[Kakarot].contracts = @ \cup {NewContract}]
           /\ proc' = [Done(proc) EXCEPT
                !.evm = With(@, Subject, [address |-> NewContract, kakarot |-> Kakarot])]
           /\ UNCHANGED <<build, files, last, fresh, world>>
  <2>1. NewContract \in Nat /\ chain' \in Chains /\ Kakarot \in Nat
    BY <1>2, Created, KakarotType
  <2>2. Subject \in Recordable
    <3>1. Subject \in EvmContracts
      BY <1>1, HeadFacts DEF Steps, Subject
    <3> QED BY <3>1, SubjectsHold
  <2>3. Done(proc).evm = proc.evm
    BY <1>1, DoneType DEF TInv
  <2> DEFINE evm == With(proc.evm, Subject, [address |-> NewContract, kakarot |-> Kakarot])
  <2>4. evm \in Records /\ Subject \in DOMAIN evm
    BY <2>1, <2>2, NotedType
  <2>5. proc' = [Done(proc) EXCEPT !.evm = evm]
    BY <1>2, <2>3
  <2> HIDE DEF evm
  <2> QED BY <1>1, <1>2, <2>1, <2>4, <2>5, EvmKeeps DEF Opening, Recording
<1>3. CASE Raise
  BY <1>3, RaiseType
<1> QED BY <1>2, <1>3 DEF DeployEvm, NewContract

LEMMA FileKeeps ==
  ASSUME TInv, GInv, LoadEvm \/ DumpEvm
  PROVE  TInv' /\ GInv'
<1>1. chain \in Chains /\ files.evm \in Records /\ proc.evm \in Records
  BY EvmType DEF TInv
<1>2. CASE LoadEvm
  <2>1. /\ proc.todo # <<>> /\ Head(proc.todo).kind = "load_evm"
        /\ proc' = [Done(proc) EXCEPT !.evm = files.evm]
        /\ UNCHANGED <<build, chain, files, last, fresh, world>>
    BY <1>2, HeadAt DEF LoadEvm
  <2> QED BY <1>1, <2>1, EvmKeeps DEF Opening, Recording
<1>3. CASE DumpEvm
  <2>1. /\ proc.todo # <<>> /\ Head(proc.todo).kind = "dump_evm"
        /\ proc' = Done(proc) /\ files' = [files EXCEPT !.evm = proc.evm]
        /\ UNCHANGED <<build, chain, last, fresh, world>>
    BY <1>3, HeadAt DEF DumpEvm
  <2>2. proc \in Processes /\ proc.script # "none"
    BY <2>1, HeadFacts DEF Idle
  <2>3. proc' \in Processes /\ proc'.todo = Tail(proc.todo) /\ proc'.script = proc.script
    BY <2>1, <2>2, DoneType
  <2>4. /\ files'.declared = files.declared /\ files'.starknet = files.starknet
        /\ files' \in [declared : {Empty} \cup Versions, starknet : Partial(Classes, Nat), evm : Records]
    BY <1>1, <2>1 DEF TInv
  <2>5. TInv'
    BY <2>1, <2>2, <2>3, <2>4 DEF TInv, Idle, Opened
  <2>6. Opened' = Opened /\ Recorded("kakarot")' = Recorded("kakarot")
    BY <2>4 DEF Opened, Recorded
  <2>7. GInv'
    BY <2>1, <2>3, <2>6, TailGates DEF Opening, Recording
  <2> QED BY <2>5, <2>7
<1> QED BY <1>2, <1>3

\* The steps that steps insert.
LEMMA DeploysType ==
  ASSUME NEW name \in EvmContracts
  PROVE  /\ Deploys(name) \in Seq(Steps) /\ Deploys(name) = << Step("eoa", EvmDeployer), Step("deploy_evm", name) >>
         /\ Step("eoa", EvmDeployer).kind = "eoa" /\ Step("deploy_evm", name).kind = "deploy_evm"
         /\ Step("deploy_evm", name).of = name
<1>1. Step("eoa", EvmDeployer) \in Steps
  BY StepType, SubjectsHold DEF Plain, Kinds
<1>2. Step("deploy_evm", name) \in Steps
  BY StepType, SubjectsHold
<1> QED BY <1>1, <1>2, StepFields DEF Deploys

LEMMA InsertedType ==
  /\ Deploys("WETH9") \in Seq(Steps)
  /\ Deploys("Coinbase") \o << Do("set_coinbase") >> \in Seq(Steps)
  /\ Deploys("token") \o << Do("authorize_caller") >> \in Seq(Steps)
  /\ (Deploys("token") \o << Do("authorize_caller") >>) \o << Do("check_token") >> \in Seq(Steps)
  /\ \A evm :
       /\ Behind(Deploys("WETH9"), "set_coinbase", "Coinbase", evm)
       /\ Behind(Deploys("WETH9"), "authorize_caller", "token", evm)
       /\ Behind(Deploys("Coinbase") \o << Do("set_coinbase") >>, "set_coinbase", "Coinbase", evm)
       /\ Behind(Deploys("Coinbase") \o << Do("set_coinbase") >>, "authorize_caller", "token", evm)
       /\ Behind(Deploys("token") \o << Do("authorize_caller") >>, "set_coinbase", "Coinbase", evm)
       /\ Behind(Deploys("token") \o << Do("authorize_caller") >>, "authorize_caller", "token", evm)
       /\ Behind((Deploys("token") \o << Do("authorize_caller") >>) \o << Do("check_token") >>,
                 "set_coinbase", "Coinbase", evm)
       /\ Behind((Deploys("token") \o << Do("authorize_caller") >>) \o << Do("check_token") >>,
                 "authorize_caller", "token", evm)
<1>1. \A kind \in {"set_coinbase", "authorize_caller", "check_token"} :
        Do(kind) \in Steps /\ Do(kind).kind = kind
  BY DoType, StepFields DEF Plain, Kinds
<1> DEFINE e == Step("eoa", EvmDeployer)
           d(name) == Step("deploy_evm", name)
<1>2. \A name \in EvmContracts :
        /\ Deploys(name) = << e, d(name) >> /\ e.kind = "eoa"
        /\ d(name).kind = "deploy_evm" /\ d(name).of = name
  BY DeploysType
<1>3. e \in Steps /\ \A name \in EvmContracts : d(name) \in Steps
  BY StepType, SubjectsHold DEF Plain, Kinds
<1>4. "WETH9" \in EvmContracts /\ "Coinbase" \in EvmContracts /\ "token" \in EvmContracts
  BY DEF EvmContracts
<1> HIDE DEF e, d
<1>5. ASSUME NEW s, s = << e, d("WETH9") >>
      PROVE  /\ s \in Seq(Steps)
             /\ \A evm : /\ Behind(s, "set_coinbase", "Coinbase", evm)
                         /\ Behind(s, "authorize_caller", "token", evm)
  <2>1. DOMAIN s = {1, 2} /\ s[1] = e /\ s[2] = d("WETH9")
    BY <1>5
  <2>2. e.kind = "eoa" /\ d("WETH9").kind = "deploy_evm" /\ s \in Seq(Steps)
    BY <1>2, <1>3, <1>4, <1>5
  <2> QED BY <2>1, <2>2 DEF Behind
<1>6. ASSUME NEW s, s = << e, d("Coinbase") >> \o << Do("set_coinbase") >>
      PROVE  /\ s \in Seq(Steps)
             /\ \A evm : /\ Behind(s, "set_coinbase", "Coinbase", evm)
                         /\ Behind(s, "authorize_caller", "token", evm)
  <2>1. DOMAIN s = {1, 2, 3} /\ s[1] = e /\ s[2] = d("Coinbase") /\ s[3] = Do("set_coinbase")
    BY <1>6
  <2>2. /\ e.kind = "eoa" /\ d("Coinbase").kind = "deploy_evm" /\ d("Coinbase").of = "Coinbase"
        /\ Do("set_coinbase").kind = "set_coinbase" /\ s \in Seq(Steps)
    BY <1>1, <1>2, <1>3, <1>4, <1>6
  <2> QED BY <2>1, <2>2 DEF Behind
<1>7. ASSUME NEW s, s = << e, d("token") >> \o << Do("authorize_caller") >>
      PROVE  /\ s \in Seq(Steps)
             /\ \A evm : /\ Behind(s, "set_coinbase", "Coinbase", evm)
                         /\ Behind(s, "authorize_caller", "token", evm)
  <2>1. DOMAIN s = {1, 2, 3} /\ s[1] = e /\ s[2] = d("token") /\ s[3] = Do("authorize_caller")
    BY <1>7
  <2>2. /\ e.kind = "eoa" /\ d("token").kind = "deploy_evm" /\ d("token").of = "token"
        /\ Do("authorize_caller").kind = "authorize_caller" /\ s \in Seq(Steps)
    BY <1>1, <1>2, <1>3, <1>4, <1>7
  <2> QED BY <2>1, <2>2 DEF Behind
<1>8. ASSUME NEW s, s = (<< e, d("token") >> \o << Do("authorize_caller") >>) \o << Do("check_token") >>
      PROVE  /\ s \in Seq(Steps)
             /\ \A evm : /\ Behind(s, "set_coinbase", "Coinbase", evm)
                         /\ Behind(s, "authorize_caller", "token", evm)
  <2>1. /\ DOMAIN s = {1, 2, 3, 4} /\ s[1] = e /\ s[2] = d("token") /\ s[3] = Do("authorize_caller")
        /\ s[4] = Do("check_token")
    BY <1>8
  <2>2. /\ e.kind = "eoa" /\ d("token").kind = "deploy_evm" /\ d("token").of = "token"
        /\ Do("authorize_caller").kind = "authorize_caller" /\ Do("check_token").kind = "check_token"
        /\ s \in Seq(Steps)
    BY <1>1, <1>2, <1>3, <1>4, <1>8
  <2> QED BY <2>1, <2>2 DEF Behind
<1>9. /\ Deploys("WETH9") = << e, d("WETH9") >> /\ Deploys("Coinbase") = << e, d("Coinbase") >>
      /\ Deploys("token") = << e, d("token") >>
  BY <1>2, <1>4
<1> QED BY <1>5, <1>6, <1>7, <1>8, <1>9

\* Steps take the place of the head; what else the process keeps may change.
LEMMA InsertedKeep ==
  ASSUME TInv, GInv, proc.todo # <<>>, NEW t \in Seq(Steps), NEW should \in SUBSET Subjects,
         proc' = [proc EXCEPT !.todo = t \o Tail(proc.todo), !.should = should],
         UNCHANGED <<build, chain, files, last, fresh, world>>,
         Head(proc.todo).kind \in UsingKakarot \ {"deploy_evm"},
         Behind(t, "set_coinbase", "Coinbase", proc.evm),
         Behind(t, "authorize_caller", "token", proc.evm)
  PROVE  TInv' /\ GInv'
<1>1. proc \in Processes /\ proc.todo \in Seq(Steps) /\ chain \in Chains /\ fresh \in Nat
  BY HeadFacts DEF TInv
<1>2. t \o Tail(proc.todo) \in Seq(Steps)
  BY <1>1
<1>3. /\ proc' \in Processes /\ proc'.todo = t \o Tail(proc.todo) /\ proc'.script = proc.script
      /\ proc'.evm = proc.evm
  BY <1>1, <1>2 DEF Processes
<1>4. chain' \in Chains /\ fresh' \in Nat /\ fresh' >= fresh
  BY <1>1
<1> QED BY <1>3, <1>4, InsertKeeps

LEMMA WethKeeps ==
  ASSUME TInv, GInv, Weth \/ Coinbase
  PROVE  TInv' /\ GInv'
<1>1. proc.todo # <<>> /\ Head(proc.todo).kind \in {"weth", "coinbase"}
  BY HeadAt DEF Weth, Coinbase
<1>2. proc \in Processes /\ proc.should \in SUBSET Subjects
  BY DEF TInv, Processes
<1>3. CASE Raise
  BY <1>3, RaiseType
<1>4. CASE KakarotAnswers
  <2> DEFINE t == IF Weth
                  THEN IF SameKakarot("WETH9") THEN <<>> ELSE Deploys("WETH9")
                  ELSE IF CoinbaseIsRecorded THEN <<>>
                       ELSE Deploys("Coinbase") \o << Do("set_coinbase") >>
  <2>1. /\ t \in Seq(Steps)
        /\ Behind(t, "set_coinbase", "Coinbase", proc.evm)
        /\ Behind(t, "authorize_caller", "token", proc.evm)
    <3>1. << >> \in Seq(Steps)
          /\ \A kind, name : Behind(<< >>, kind, name, proc.evm)
      BY DEF Behind
    <3> QED BY <3>1, InsertedType
  <2>2. /\ proc' = [proc EXCEPT !.todo = t \o Tail(proc.todo)]
        /\ UNCHANGED <<build, chain, files, last, fresh, world>>
    BY <1>4 DEF Weth, Coinbase
  <2> HIDE DEF t
  <2>3. proc' = [proc EXCEPT !.todo = t \o Tail(proc.todo), !.should = proc.should]
    BY <1>2, <2>2 DEF Processes
  <2> QED BY <1>1, <1>2, <2>1, <2>2, <2>3, InsertedKeep DEF UsingKakarot
<1> QED BY <1>3, <1>4 DEF Weth, Coinbase

\* Invokes that pass on an address the process knows.
LEMMA PassOnKeeps ==
  ASSUME TInv, GInv, SetCoinbase \/ AuthorizeCaller
  PROVE  TInv' /\ GInv'
<1>1. /\ proc.todo # <<>> /\ Head(proc.todo).kind \in {"set_coinbase", "authorize_caller"}
      /\ UNCHANGED <<build, files, last, fresh, world>>
  BY HeadAt DEF SetCoinbase, AuthorizeCaller
<1>2. Opened /\ Recorded("kakarot") /\ Kakarot \in Nat
  BY <1>1, HeadFacts, KakarotType DEF Preliminary, UsingKakarot
<1>3. CASE SetCoinbase
  <2>1. Head(proc.todo).kind = "set_coinbase"
    BY <1>3, HeadAt DEF SetCoinbase
  <2>2. proc.evm["Coinbase"].address \in Nat
    BY <1>1, <2>1, HeadFacts, EvmType
  <2>3. Call("set_coinbase", Kakarot, proc.evm["Coinbase"].address) \in Calls
    BY <1>2, <2>2, CallType
  <2>4. <<Call("set_coinbase", Kakarot, proc.evm["Coinbase"].address)>> \in Seq(Calls)
    BY <2>3
  <2> QED BY <1>1, <1>3, <2>1, <2>4, InvokeKeeps DEF SetCoinbase, Opening, Recording
<1>4. CASE AuthorizeCaller
  <2>1. Head(proc.todo).kind = "authorize_caller"
    BY <1>4, HeadAt DEF AuthorizeCaller
  <2>2. proc.evm["token"].address \in Nat
    BY <1>1, <2>1, HeadFacts, EvmType
  <2>3. Call("authorize_caller", Kakarot, proc.evm["token"].address) \in Calls
    BY <1>2, <2>2, CallType
  <2>4. <<Call("authorize_caller", Kakarot, proc.evm["token"].address)>> \in Seq(Calls)
    BY <2>3
  <2> QED BY <1>1, <1>4, <2>1, <2>4, InvokeKeeps DEF AuthorizeCaller, Opening, Recording
<1> QED BY <1>3, <1>4

LEMMA TokenKeeps ==
  ASSUME TInv, GInv, Token
  PROVE  TInv' /\ GInv'
<1>1. proc.todo # <<>> /\ Head(proc.todo).kind = "token"
  BY HeadAt DEF Token
<1>2. /\ proc \in Processes /\ chain \in Chains /\ Opened /\ fresh \in Nat
      /\ proc.todo \in Seq(Steps) /\ proc.should \in SUBSET Subjects
  BY <1>1, HeadFacts DEF TInv, Preliminary, Processes
<1> DEFINE deploy == Deploys("token") \o << Do("authorize_caller") >>
           long == deploy \o << Do("check_token") >>
<1>3. CASE Raise
  BY <1>3, RaiseType
<1>4. CASE proc' = Done(proc) /\ UNCHANGED <<build, chain, files, last, fresh, world>>
  BY <1>1, <1>2, <1>4, PassKeeps DEF Opening, Recording
<1>5. CASE /\ Invoke([proc EXCEPT !.todo = long \o Tail(@), !.token = fresh],
                     <<Call("deploy", fresh, "StarknetToken")>>)
           /\ fresh' = fresh + 1
           /\ UNCHANGED <<build, files, last, world>>
  <2> DEFINE p == [proc EXCEPT !.todo = long \o Tail(proc.todo), !.token = fresh]
             calls == <<Call("deploy", fresh, "StarknetToken")>>
  <2>1. /\ long \in Seq(Steps)
        /\ Behind(long, "set_coinbase", "Coinbase", proc.evm)
        /\ Behind(long, "authorize_caller", "token", proc.evm)
    BY InsertedType
  <2> HIDE DEF long
  <2>2. /\ p \in Processes /\ p.todo = long \o Tail(proc.todo) /\ p.script = proc.script
        /\ p.evm = proc.evm
    <3> DEFINE rest == Tail(proc.todo)
    <3>1. rest \in Seq(Steps)
      BY <1>1, <1>2
    <3> HIDE DEF rest
    <3>2. long \o rest \in Seq(Steps)
      BY <2>1, <3>1
    <3> QED BY <1>2, <3>2 DEF Processes, rest
  <2>3. calls \in Seq(Calls)
    <3>1. "StarknetToken" \in Classes
      BY DEF Classes
    <3>2. Call("deploy", fresh, "StarknetToken") \in Calls
      BY <1>2, <3>1, CallType
    <3> QED BY <3>2
  <2>4. Invoke(p, calls)
    BY <1>5
  <2> HIDE DEF p, calls
  <2>5. /\ proc' \in Processes /\ chain' \in Chains /\ proc'.todo = long \o Tail(proc.todo)
        /\ proc'.script = proc.script /\ proc'.evm = proc.evm
    BY <2>2, <2>3, <2>4, InvokeType
  <2>6. fresh' \in Nat /\ fresh' >= fresh
    BY <1>2, <1>5
  <2>7. /\ Behind(long, "set_coinbase", "Coinbase", proc'.evm)
        /\ Behind(long, "authorize_caller", "token", proc'.evm)
    BY <2>1, <2>5
  <2> QED BY <1>1, <1>5, <2>1, <2>5, <2>6, <2>7, InsertKeeps DEF UsingKakarot
<1>6. CASE /\ proc' = [proc EXCEPT !.todo = deploy \o Tail(@)]
           /\ UNCHANGED <<build, chain, files, last, fresh, world>>
  <2>1. /\ deploy \in Seq(Steps)
        /\ Behind(deploy, "set_coinbase", "Coinbase", proc.evm)
        /\ Behind(deploy, "authorize_caller", "token", proc.evm)
    BY InsertedType
  <2> HIDE DEF deploy
  <2>2. proc' = [proc EXCEPT !.todo = deploy \o Tail(proc.todo), !.should = proc.should]
    BY <1>2, <1>6 DEF Processes
  <2> QED BY <1>1, <1>2, <1>6, <2>1, <2>2, InsertedKeep DEF UsingKakarot
<1> QED BY <1>3, <1>4, <1>5, <1>6 DEF Token

LEMMA AssertionsKeep ==
  ASSUME TInv, GInv, CheckToken \/ Teardown
  PROVE  TInv' /\ GInv'
<1>1. proc.todo # <<>> /\ Head(proc.todo).kind \in {"check_token", "teardown"} /\ chain \in Chains
  BY HeadAt DEF CheckToken, Teardown, TInv
<1>2. CASE Raise
  BY <1>2, RaiseType
<1>3. CASE proc' = Done(proc) /\ UNCHANGED <<build, chain, files, last, fresh, world>>
  BY <1>1, <1>3, PassKeeps DEF Opening, Recording
<1> QED BY <1>2, <1>3 DEF CheckToken, Teardown

LEMMA FundedType ==
  ASSUME NEW who \in Subjects
  PROVE  /\ DeployAndFund(who) \in Seq(Steps)
         /\ \A evm : /\ Behind(DeployAndFund(who), "set_coinbase", "Coinbase", evm)
                     /\ Behind(DeployAndFund(who), "authorize_caller", "token", evm)
<1>1. Step("fund", who) \in Steps /\ Step("eoa", who) \in Steps
  BY StepType DEF Plain, Kinds
<1>2. Step("fund", who).kind = "fund" /\ Step("eoa", who).kind = "eoa"
  BY StepFields
<1>3. /\ DeployAndFund(who) \in Seq(Steps) /\ DOMAIN DeployAndFund(who) = {1, 2}
      /\ DeployAndFund(who)[1].kind = "fund" /\ DeployAndFund(who)[2].kind = "eoa"
  BY <1>1, <1>2 DEF DeployAndFund
<1> QED BY <1>3 DEF Behind

LEMMA SenderKeeps ==
  ASSUME TInv, GInv, Sender
  PROVE  TInv' /\ GInv'
<1>1. proc.todo # <<>> /\ Head(proc.todo).kind = "sender"
  BY HeadAt DEF Sender
<1>2. proc \in Processes /\ Subject \in Subjects /\ chain \in Chains /\ proc.should \in SUBSET Subjects
  BY <1>1, HeadFacts DEF TInv, Processes
<1>3. CASE Raise
  BY <1>3, RaiseType
<1>4. CASE /\ proc' = [Done(proc) EXCEPT !.should = @ \ {Subject}]
           /\ UNCHANGED <<build, chain, files, last, fresh, world>>
  <2>1. /\ Done(proc) \in Processes /\ Done(proc).todo = Tail(proc.todo)
        /\ Done(proc).script = proc.script /\ Done(proc).should = proc.should
    BY <1>1, <1>2, DoneType
  <2>2. proc' \in Processes /\ proc'.todo = Tail(proc.todo) /\ proc'.script = proc.script
    BY <1>2, <1>4, <2>1 DEF Processes
  <2> QED BY <1>1, <1>2, <1>4, <2>2, DoneKeeps DEF Opening, Recording
<1>5. CASE /\ proc' = [proc EXCEPT !.todo = DeployAndFund(Subject) \o Tail(@),
                                   !.should = @ \cup {Subject}]
           /\ UNCHANGED <<build, chain, files, last, fresh, world>>
  <2> DEFINE t == DeployAndFund(Subject)
             should == proc.should \cup {Subject}
  <2>1. /\ t \in Seq(Steps) /\ should \in SUBSET Subjects
        /\ Behind(t, "set_coinbase", "Coinbase", proc.evm)
        /\ Behind(t, "authorize_caller", "token", proc.evm)
    BY <1>2, FundedType
  <2>2. proc' = [proc EXCEPT !.todo = t \o Tail(proc.todo), !.should = should]
    BY <1>5
  <2> HIDE DEF t, should
  <2> QED BY <1>1, <1>5, <2>1, <2>2, InsertedKeep DEF UsingKakarot
<1> QED BY <1>3, <1>4, <1>5 DEF Sender

LEMMA WhitelistKeeps ==
  ASSUME TInv, GInv, WhitelistStep
  PROVE  TInv' /\ GInv'
<1> DEFINE calls == IF Subject \in proc.should THEN <<Call("authorize", Kakarot, Subject)>> ELSE <<>>
<1>1. /\ proc.todo # <<>> /\ Head(proc.todo).kind = "whitelist" /\ Invoke(Done(proc), calls)
      /\ UNCHANGED <<build, files, last, fresh, world>>
  BY HeadAt DEF WhitelistStep
<1>2. Opened /\ Kakarot \in Nat /\ Subject \in Subjects
  BY <1>1, HeadFacts, KakarotType DEF Preliminary, UsingKakarot
<1>3. calls \in Seq(Calls)
  <2>1. Call("authorize", Kakarot, Subject) \in Calls
    BY <1>2, CallType
  <2> QED BY <2>1
<1> HIDE DEF calls
<1> QED BY <1>1, <1>3, InvokeKeeps DEF Opening, Recording

\* The chain after a transaction of PRE_EIP155_TX.
LEMMA SentType ==
  ASSUME TInv, KakarotAnswers, NEW n \in Subjects, NEW created \in SUBSET Subjects,
         chain' = [chain EXCEPT !.core[Kakarot].sent = @ \cup {n},
                                !.core[Kakarot].created = @ \cup created]
  PROVE  /\ chain' \in Chains /\ chain'.declared = chain.declared /\ chain'.code = chain.code
         /\ DOMAIN chain'.core = DOMAIN chain.core
         /\ chain'.core[Kakarot] = [Core EXCEPT !.sent = Core.sent \cup {n},
                                                !.created = Core.created \cup created]
         /\ \A j \in DOMAIN chain.core : j # Kakarot => chain'.core[j] = chain.core[j]
<1>1. Core \in CoreState /\ Kakarot \in DOMAIN chain.core /\ chain \in Chains
  BY KakarotType DEF TInv
<1> DEFINE v == [Core EXCEPT !.sent = Core.sent \cup {n}, !.created = Core.created \cup created]
<1>2. v \in CoreState
  BY <1>1 DEF CoreState
<1>3. chain' = [chain EXCEPT !.core = [chain.core EXCEPT ![Kakarot] = v]]
  BY <1>1 DEF Core, CoreState, Chains
<1> HIDE DEF v
<1>4. /\ chain' \in Chains /\ chain'.declared = chain.declared /\ chain'.code = chain.code
      /\ DOMAIN chain'.core = DOMAIN chain.core /\ chain'.core[Kakarot] = v
      /\ \A j \in DOMAIN chain.core : j # Kakarot => chain'.core[j] = chain.core[j]
  BY ZenonT(60), <1>1, <1>2, <1>3, CoreChanged
<1> QED BY <1>4 DEF v

LEMMA SendKeeps ==
  ASSUME TInv, GInv, Send
  PROVE  TInv' /\ GInv'
<1>1. proc.todo # <<>> /\ Head(proc.todo).kind = "send"
  BY HeadAt DEF Send
<1>2. CASE Raise
  BY <1>2, RaiseType
<1>3. CASE /\ proc' = [Done(proc) EXCEPT !.evm = With(@, Subject, [address |-> Unset, kakarot |-> Kakarot])]
           /\ UNCHANGED <<build, files, last, fresh, world>> /\ chain' \in Chains
  <2>1. Subject \in Recordable
    <3>1. Subject \in Names(PreEip155)
      BY <1>1, HeadFacts DEF Steps, Subject
    <3> QED BY <3>1, SubjectsHold
  <2>2. Kakarot \in Nat /\ Unset \in Nat /\ Done(proc).evm = proc.evm
    BY Zenon, <1>1, HeadFacts, KakarotType, DoneType DEF UsingKakarot, Unset, TInv
  <2> DEFINE evm == With(proc.evm, Subject, [address |-> Unset, kakarot |-> Kakarot])
  <2>3. evm \in Records /\ Subject \in DOMAIN evm
    BY <2>1, <2>2, NotedType
  <2>4. proc' = [Done(proc) EXCEPT !.evm = evm]
    BY <1>3, <2>2
  <2> HIDE DEF evm
  <2> QED BY <1>1, <1>3, <2>3, <2>4, EvmKeeps DEF Opening, Recording
<1>4. ASSUME KakarotAnswers, NEW created \in {{Subject}, {}},
             chain' = [chain EXCEPT !.core[Kakarot].sent = @ \cup {Subject},
                                    !.core[Kakarot].created = @ \cup created]
      PROVE  chain' \in Chains
  <2>1. Subject \in Subjects /\ created \in SUBSET Subjects
    BY <1>1, HeadFacts
  <2> QED BY <1>4, <2>1, SentType
<1>5. chain \in Chains
  BY DEF TInv
<1> QED BY ZenonT(30), <1>2, <1>3, <1>4, <1>5 DEF Send

\* A process starts or ends, the operator builds, or the chain is restarted.
LEMMA OperatorKeeps ==
  ASSUME TInv, GInv, Finish \/ Crash \/ Build \/ ResetChain \/ \E script \in Scripts : Start(script)
  PROVE  TInv' /\ GInv'
<1>1. /\ world \in [network : {"dev", "staging", "prod"}, reverts : BOOLEAN, resets : BOOLEAN,
                    builds : Nat \ {0}, runs : Nat, crashes : Nat, ran : Nat, crashed : Nat]
      /\ world.ran <= world.runs /\ world.crashed <= world.crashes
  BY DEF TInv
<1>2. CASE Finish
  BY <1>2, EndsType DEF Finish
<1>3. CASE Crash
  <2>1. /\ world' = [world EXCEPT !.crashed = world.crashed + 1] /\ world.crashed < world.crashes
        /\ proc' = NoProcess /\ last' = "killed" /\ UNCHANGED <<build, chain, files, fresh>>
    BY <1>3 DEF Crash, Ends
  <2>2. /\ world' \in [network : {"dev", "staging", "prod"}, reverts : BOOLEAN, resets : BOOLEAN,
                       builds : Nat \ {0}, runs : Nat, crashes : Nat, ran : Nat, crashed : Nat]
        /\ world'.ran <= world'.runs /\ world'.crashed <= world'.crashes /\ world'.builds = world.builds
    BY <1>1, <2>1
  <2>3. TInv'
    BY <2>1, <2>2, NoProcessType DEF TInv, Idle, Opened
  <2> QED BY <2>1, <2>3, NoProcessType, EndedGates
<1>4. CASE Build
  <2>1. PICK changed \in Changes :
          /\ \A c \in changed : build[c] < world.builds
          /\ build' = [c \in Classes |-> IF c \in changed THEN build[c] + 1 ELSE build[c]]
    BY <1>4 DEF Build
  <2>2. UNCHANGED <<chain, files, proc, last, fresh, world>> /\ Idle
    BY <1>4 DEF Build
  <2>3. build' \in [Classes -> 1..world.builds]
    <3>1. build \in [Classes -> 1..world.builds] /\ world.builds \in Nat
      BY DEF TInv
    <3>2. \A c \in Classes : (IF c \in changed THEN build[c] + 1 ELSE build[c]) \in 1..world.builds
      BY <2>1, <3>1
    <3> QED BY <2>1, <3>2
  <2>4. TInv'
    BY <2>2, <2>3 DEF TInv, Idle, Opened
  <2> QED BY <2>2, <2>4 DEF GInv, Opened, Recorded
<1>5. CASE ResetChain
  <2>1. /\ world' = [world EXCEPT !.crashed = world.crashed + 1] /\ world.crashed < world.crashes
        /\ chain' = EmptyChain /\ UNCHANGED <<build, files, proc, last, fresh>>
    BY <1>5 DEF ResetChain
  <2>2. /\ world' \in [network : {"dev", "staging", "prod"}, reverts : BOOLEAN, resets : BOOLEAN,
                       builds : Nat \ {0}, runs : Nat, crashes : Nat, ran : Nat, crashed : Nat]
        /\ world'.ran <= world'.runs /\ world'.crashed <= world'.crashes /\ world'.builds = world.builds
    BY <1>1, <2>1
  <2>3. EmptyChain \in Chains
    BY EmptyType DEF EmptyChain, Chains
  <2>4. TInv'
    BY <2>1, <2>2, <2>3 DEF TInv, Idle, Opened
  <2> QED BY <2>1, <2>4 DEF GInv, Opened, Recorded
<1>6. ASSUME NEW script \in Scripts, Start(script)
      PROVE  TInv' /\ GInv'
  <2>1. /\ Idle /\ world.ran < world.runs /\ world' = [world EXCEPT !.ran = world.ran + 1]
        /\ proc' = [NoProcess EXCEPT !.script = script, !.todo = Program(script)]
        /\ UNCHANGED <<build, chain, files, last, fresh>>
    BY <1>6 DEF Start
  <2>2. /\ world' \in [network : {"dev", "staging", "prod"}, reverts : BOOLEAN, resets : BOOLEAN,
                       builds : Nat \ {0}, runs : Nat, crashes : Nat, ran : Nat, crashed : Nat]
        /\ world'.ran <= world'.runs /\ world'.crashed <= world'.crashes /\ world'.builds = world.builds
    BY <1>1, <2>1
  <2>3. Program(script) \in Seq(Steps) /\ Lacks(Program(script), Inserted)
    BY Programs DEF Programmed
  <2>4. proc' \in Processes /\ proc'.todo = Program(script) /\ proc'.script = script
    BY <2>1, <2>3, NoProcessType DEF Processes
  <2>5. script # "none"
    BY DEF Scripts
  <2>6. TInv'
    BY <2>1, <2>2, <2>4, <2>5 DEF TInv, Idle, Opened
  <2>7. /\ Gate(Program(script), Kinds \ Preliminary, FALSE, Opening)
        /\ Gate(Program(script), UsingKakarot, FALSE, Recording)
    BY Programs
  <2>8. /\ Gate(proc'.todo, Kinds \ Preliminary, Opened', Opening)
        /\ Gate(proc'.todo, UsingKakarot, Recorded("kakarot")', Recording)
    BY <2>4, <2>7 DEF Gate
  <2>9. /\ Behind(proc'.todo, "set_coinbase", "Coinbase", proc'.evm)
        /\ Behind(proc'.todo, "authorize_caller", "token", proc'.evm)
    BY <2>3, <2>4 DEF Lacks, Inserted, Behind
  <2> QED BY <2>6, <2>8, <2>9 DEF GInv
<1> QED BY <1>2, <1>3, <1>4, <1>5, <1>6

LEMMA StutterKeeps ==
  ASSUME TInv, GInv, UNCHANGED vars
  PROVE  TInv' /\ GInv'
BY DEF vars, TInv, GInv, Idle, Opened, Recorded

LEMMA StepKeeps ==
  ASSUME TInv, GInv, [Next]_vars
  PROVE  TInv' /\ GInv'
BY QueueKeeps, ChecksKeep, DeclareKeeps, DumpDeclarationsKeeps, DeployStarknetContractsKeeps,
   DeployOrUpgradeKakarotKeeps, CreatePoolKeeps, FundKeeps, DeployEoaKeeps, DeployEvmKeeps,
   FileKeeps, WethKeeps, PassOnKeeps, TokenKeeps, AssertionsKeep, SenderKeeps, WhitelistKeeps,
   SendKeeps, OperatorKeeps, StutterKeeps
   DEF Next, Run

LEMMA Initially ==
  ASSUME Init
  PROVE  TInv /\ GInv
<1>1. PICK w \in Worlds :
        world = [network |-> w.network, reverts |-> w.reverts, resets |-> w.resets,
                 builds |-> w.builds, runs |-> w.runs, crashes |-> w.crashes,
                 ran |-> 0, crashed |-> 0]
  BY DEF Init
<1>2. w \in [network : {"dev", "staging", "prod"}, reverts : BOOLEAN, resets : BOOLEAN,
             builds : Nat \ {0}, runs : Nat, crashes : Nat]
  BY WorldsAssumption
<1>3. /\ world \in [network : {"dev", "staging", "prod"}, reverts : BOOLEAN, resets : BOOLEAN,
                    builds : Nat \ {0}, runs : Nat, crashes : Nat, ran : Nat, crashed : Nat]
      /\ world.ran <= world.runs /\ world.crashed <= world.crashes
  BY <1>1, <1>2
<1>4. build = [c \in Classes |-> 1] /\ build \in [Classes -> 1..world.builds]
  BY <1>3 DEF Init
<1>5. chain \in Chains
  BY EmptyType DEF Init, EmptyChain, Chains
<1>6. /\ files = [declared |-> Empty, starknet |-> Empty, evm |-> Empty]
      /\ files \in [declared : {Empty} \cup Versions, starknet : Partial(Classes, Nat), evm : Records]
      /\ DOMAIN files.starknet = {}
  BY EmptyType DEF Init, Records
<1>7. proc = NoProcess /\ proc \in Processes /\ proc.todo = <<>> /\ last = "none" /\ fresh = 2
  BY NoProcessType DEF Init
<1>8. TInv
  BY <1>3, <1>4, <1>5, <1>6, <1>7 DEF TInv
<1>9. GInv
  BY <1>7 DEF GInv, Gate, Behind
<1> QED BY <1>8, <1>9

\* Whatever script is run, killed and run again, over any builds and restarts of the chain:
\* addresses are those that were given out, an instance of Kakarot is a contract of the
\* chain, the file of EVM contracts names what the scripts deploy, and nothing of a process
\* outlives it, its queue of calls in particular.
THEOREM TypeCorrect == Spec => []TypeOK
<1>1. Init => TInv /\ GInv
  BY Initially
<1>2. (TInv /\ GInv) /\ [Next]_vars => (TInv /\ GInv)'
  BY StepKeeps
<1>3. TInv => TypeOK
  <2> SUFFICES ASSUME TInv PROVE TypeOK
    OBVIOUS
  <2>1. DOMAIN chain.core \subseteq DOMAIN chain.code
    BY DEF TInv, Chains
  <2>2. DOMAIN files.evm \subseteq Recordable
    <3>1. files.evm \in Partial(Recordable, [address : Nat, kakarot : Nat])
      BY DEF TInv, Records
    <3> QED BY <3>1, PartialDef
  <2>3. world.ran \in 0..world.runs /\ world.crashed \in 0..world.crashes
    BY DEF TInv
  <2> QED BY <2>1, <2>2, <2>3 DEF TInv, TypeOK, Recordable, EvmContracts
<1> QED BY <1>1, <1>2, <1>3, PTL DEF Spec

-----------------------------------------------------------------------------
(***************************************************************************)
(* The coinbase is never zero                                              *)
(***************************************************************************)
\* A later call sets the coinbase of what an earlier one deploys, and none sets zero.
Provides(calls) ==
  \A i \in DOMAIN calls :
    /\ calls[i].op = "set_coinbase" => calls[i].arg # Unset
    /\ Instantiates(calls[i]) =>
         \E j \in (i + 1)..Len(calls) : calls[j].op = "set_coinbase" /\ calls[j].to = calls[i].to

Provided(ch) == \A k \in DOMAIN ch.core : ch.core[k].coinbase # Unset

\* The addresses of the contracts that the scripts deploy.
Placed(evm) == \A n \in DOMAIN evm : n \in EvmContracts => evm[n].address # Unset

CInv == Provided(chain) /\ Provides(proc.queue) /\ Placed(proc.evm) /\ Placed(files.evm)

LEMMA ProvidesConcat ==
  ASSUME NEW q \in Seq(Calls), NEW c \in Seq(Calls), Provides(q), Provides(c)
  PROVE  Provides(q \o c)
<1> DEFINE u == q \o c
<1>1. /\ Len(u) = Len(q) + Len(c) /\ Len(q) \in Nat /\ Len(c) \in Nat
      /\ \A i \in 1..Len(q) : u[i] = q[i]
      /\ \A i \in 1..Len(c) : u[i + Len(q)] = c[i]
      /\ DOMAIN u = 1..Len(u) /\ DOMAIN q = 1..Len(q) /\ DOMAIN c = 1..Len(c)
  OBVIOUS
<1> HIDE DEF u
<1>2. ASSUME NEW i \in DOMAIN u
      PROVE  /\ u[i].op = "set_coinbase" => u[i].arg # Unset
             /\ Instantiates(u[i]) =>
                  \E j \in (i + 1)..Len(u) : u[j].op = "set_coinbase" /\ u[j].to = u[i].to
  <2>1. CASE i <= Len(q)
    <3>1. i \in DOMAIN q /\ u[i] = q[i]
      BY <1>1, <2>1
    <3>2. \A j \in (i + 1)..Len(q) : j \in (i + 1)..Len(u) /\ u[j] = q[j]
      BY <1>1, <2>1, <3>1
    <3>3. /\ q[i].op = "set_coinbase" => q[i].arg # Unset
          /\ Instantiates(q[i]) =>
               \E j \in (i + 1)..Len(q) : q[j].op = "set_coinbase" /\ q[j].to = q[i].to
      BY Zenon, <3>1 DEF Provides
    <3> QED BY <3>1, <3>2, <3>3
  <2>2. CASE i > Len(q)
    <3> DEFINE m == i - Len(q)
    <3>1. m \in DOMAIN c /\ u[i] = c[m]
      BY <1>1, <2>2
    <3>2. \A j \in (m + 1)..Len(c) : j + Len(q) \in (i + 1)..Len(u) /\ u[j + Len(q)] = c[j]
      BY <1>1, <2>2, <3>1
    <3> HIDE DEF m
    <3>3. /\ c[m].op = "set_coinbase" => c[m].arg # Unset
          /\ Instantiates(c[m]) =>
               \E j \in (m + 1)..Len(c) : c[j].op = "set_coinbase" /\ c[j].to = c[m].to
      BY Zenon, <3>1 DEF Provides
    <3> QED BY Zenon, <3>1, <3>2, <3>3
  <2> QED BY <1>1, <2>1, <2>2
<1>3. Provides(u)
  BY <1>2 DEF Provides
<1> QED BY <1>3 DEF u

LEMMA ProvidedExecuted ==
  ASSUME chain \in Chains, Provided(chain), NEW calls \in Seq(Calls), Provides(calls)
  PROVE  Provided(Executed(calls))
<1>1. PICK after \in [0..Len(calls) -> Results] :
           /\ after[0] = [ok |-> TRUE, chain |-> chain]
           /\ \A n \in 1..Len(calls) : after[n] = After(after[n - 1], calls[n])
           /\ Executed(calls) = after[Len(calls)].chain
  BY ExecutedDef
<1> DEFINE m == Len(calls)
           Later(n, k) == \E j \in (n + 1)..m : calls[j].op = "set_coinbase" /\ calls[j].to = k
           P(n) == \A k \in DOMAIN after[n].chain.core :
                     after[n].chain.core[k].coinbase # Unset \/ (after[n].ok /\ Later(n, k))
           K == {n \in Nat : n <= m => P(n)}
<1>2. m \in Nat /\ DOMAIN calls = 1..m
  OBVIOUS
<1>3. \A n \in Nat : n \in K
  <2>1. 0 \in K
    BY <1>1 DEF Provided
  <2>2. ASSUME NEW n \in Nat, n \in K PROVE n + 1 \in K
    <3> SUFFICES ASSUME n + 1 <= m PROVE P(n + 1)
      OBVIOUS
    <3> DEFINE c == calls[n + 1]
               ch == after[n].chain
    <3>1. after[n] \in Results /\ c \in Calls /\ after[n + 1] = After(after[n], c) /\ P(n)
      BY <1>1, <2>2
    <3>2. CASE after[n].ok /\ Accepts(ch, c)
      <4>1. after[n + 1].chain = Effect(ch, c) /\ after[n + 1].ok /\ ch \in Chains
        BY <3>1, <3>2 DEF After, Results
      <4>2. /\ DOMAIN Effect(ch, c).core = DOMAIN ch.core \cup (IF Instantiates(c) THEN {c.to} ELSE {})
            /\ \A k \in DOMAIN ch.core : Served(ch.core[k], Effect(ch, c).core[k], k, c)
        BY <3>1, <3>2, <4>1, EffectFields
      <4>3. n + 1 \in DOMAIN calls
        BY <1>2
      <4> SUFFICES ASSUME NEW k \in DOMAIN after[n + 1].chain.core
                   PROVE  after[n + 1].chain.core[k].coinbase # Unset \/ Later(n + 1, k)
        BY <4>1
      <4>4. CASE k \in DOMAIN ch.core
        <5>1. /\ c.op = "set_coinbase" => c.arg # Unset
              /\ Effect(ch, c).core[k].coinbase = IF c.op = "set_coinbase" /\ k = c.to THEN c.arg
                                                  ELSE ch.core[k].coinbase
          BY <4>2, <4>3, <4>4 DEF Served, Provides
        <5>2. CASE ch.core[k].coinbase # Unset
          BY <4>1, <5>1, <5>2
        <5>3. CASE Later(n, k)
          <6>1. PICK j \in (n + 1)..m : calls[j].op = "set_coinbase" /\ calls[j].to = k
            BY <5>3
          <6>2. CASE j = n + 1
            BY <4>1, <5>1, <6>1, <6>2
          <6>3. CASE j # n + 1
            <7>1. j \in ((n + 1) + 1)..m
              BY <6>3, <1>2
            <7> QED BY <6>1, <7>1
          <6> QED BY <6>2, <6>3
        <5> QED BY <3>1, <4>4, <5>2, <5>3
      <4>5. CASE k \notin DOMAIN ch.core
        <5>1. Instantiates(c) /\ k = c.to
          BY <4>1, <4>2, <4>5
        <5>2. \E j \in ((n + 1) + 1)..Len(calls) : calls[j].op = "set_coinbase" /\ calls[j].to = c.to
          BY <4>3, <5>1 DEF Provides
        <5> QED BY <5>1, <5>2
      <4> QED BY <4>4, <4>5
    <3>3. CASE ~(after[n].ok /\ Accepts(ch, c))
      BY <3>1, <3>3 DEF After, Provided
    <3> QED BY <3>2, <3>3
  <2> HIDE DEF K
  <2> QED BY <2>1, <2>2, NatSet
<1>4. P(m)
  BY <1>2, <1>3
<1>5. \A k \in DOMAIN after[m].chain.core : ~Later(m, k)
  BY <1>2
<1> QED BY <1>1, <1>4, <1>5 DEF Provided

LEMMA ProvidedOutcome ==
  ASSUME TInv, Provided(chain), NEW calls \in Seq(Calls), Provides(calls), NEW ch \in Outcomes(calls)
  PROVE  Provided(ch)
<1>1. ch = chain \/ ch = Executed(calls)
  BY DEF Outcomes
<1> QED BY <1>1, ProvidedExecuted DEF TInv

\* A list of calls that has no instance of Kakarot, and no coinbase.
LEMMA OneProvides ==
  ASSUME NEW c \in Calls, ~Instantiates(c), c.op = "set_coinbase" => c.arg # Unset
  PROVE  Provides(<<c>>) /\ <<c>> \in Seq(Calls)
BY DEF Provides

LEMMA NoneProvide == Provides(<< >>) /\ << >> \in Seq(Calls)
BY DEF Provides

LEMMA InvokeProvides ==
  ASSUME TInv, CInv, NEW p \in Processes, p.queue = proc.queue, p.evm = proc.evm,
         NEW calls \in Seq(Calls), Provides(calls), Invoke(p, calls), UNCHANGED files
  PROVE  CInv'
<1>1. proc'.evm = proc.evm
  BY InvokeType
<1>2. proc.queue \in Seq(Calls)
  BY DEF TInv, Processes
<1>3. CASE p.lazy
  <2>1. proc'.queue = proc.queue \o calls /\ chain' = chain
    BY <1>3 DEF Invoke, Processes
  <2>2. Provides(proc.queue \o calls)
    BY <1>2, ProvidesConcat DEF CInv
  <2> QED BY <1>1, <2>1, <2>2 DEF CInv
<1>4. CASE ~p.lazy
  <2>1. proc' = p /\ chain' \in Outcomes(calls)
    BY <1>4 DEF Invoke
  <2>2. Provided(chain')
    BY <2>1, ProvidedOutcome DEF CInv
  <2> QED BY <1>1, <2>1, <2>2 DEF CInv
<1> QED BY <1>3, <1>4

LEMMA DoneFields ==
  ASSUME TInv, proc.todo # <<>>
  PROVE  /\ Done(proc) \in Processes /\ Done(proc).todo = Tail(proc.todo)
         /\ Done(proc).script = proc.script /\ Done(proc).lazy = proc.lazy
         /\ Done(proc).queue = proc.queue /\ Done(proc).pool = proc.pool /\ Done(proc).evm = proc.evm
         /\ Done(proc).should = proc.should /\ Done(proc).token = proc.token
BY DoneType DEF TInv

\* Steps that change neither the calls and addresses nor the instances.
LEMMA QuietProvides ==
  ASSUME CInv, proc'.queue = proc.queue, proc'.evm = proc.evm, chain'.core = chain.core,
         files'.evm = files.evm
  PROVE  CInv'
BY DEF CInv, Provided

LEMMA EndsProvides ==
  ASSUME CInv, proc' = NoProcess, chain'.core = chain.core, files'.evm = files.evm
  PROVE  CInv'
<1>1. proc'.queue = <<>> /\ proc'.evm = Empty
  BY DEF NoProcess
<1>2. Placed(Empty)
  BY DEF Placed, Empty
<1> QED BY <1>1, <1>2, NoneProvide DEF CInv, Provided

LEMMA RaiseProvides ==
  ASSUME CInv, Raise
  PROVE  CInv'
BY EndsProvides DEF Raise, Ends

LEMMA CalmProvides ==
  ASSUME TInv, GInv, CInv,
         \/ RegisterLazyAccount \/ RemoveLazyAccount \/ CheckDeclared \/ CheckDeployed \/ Declare
         \/ DumpDeclarations \/ LoadEvm \/ DumpEvm \/ Weth \/ Coinbase \/ CheckToken \/ Teardown
         \/ Sender \/ Finish \/ Crash \/ Build \/ UNCHANGED vars
         \/ \E script \in Scripts : Start(script)
  PROVE  CInv'
<1>1. proc \in Processes /\ chain \in Chains
  BY DEF TInv
<1>2. CASE RegisterLazyAccount \/ RemoveLazyAccount
  BY <1>1, <1>2, HeadAt, DoneFields, QuietProvides DEF RegisterLazyAccount, RemoveLazyAccount, Processes
<1>3. CASE CheckDeclared \/ CheckDeployed
  BY <1>3, HeadAt, DoneFields, QuietProvides, EndsProvides
     DEF CheckDeclared, CheckDeployed, ExitUnless, Ends
<1>4. CASE Declare
  <2>1. chain'.core = chain.core
    BY <1>1, <1>4 DEF Declare, Chains
  <2> QED BY <1>4, <2>1, HeadAt, DoneFields, QuietProvides DEF Declare
<1>5. CASE DumpDeclarations
  <2>1. files'.evm = files.evm
    BY <1>5 DEF DumpDeclarations, TInv
  <2> QED BY <1>5, <2>1, HeadAt, DoneFields, QuietProvides DEF DumpDeclarations
<1>6. CASE LoadEvm
  <2>1. proc'.queue = proc.queue /\ proc'.evm = files.evm /\ UNCHANGED <<chain, files>>
    BY <1>1, <1>6, HeadAt, DoneFields DEF LoadEvm, Processes
  <2> QED BY <2>1 DEF CInv
<1>7. CASE DumpEvm
  <2>1. proc'.queue = proc.queue /\ proc'.evm = proc.evm /\ files'.evm = proc.evm /\ chain' = chain
    BY <1>7, HeadAt, DoneFields DEF DumpEvm, TInv
  <2> QED BY <2>1 DEF CInv
<1>8. CASE Weth \/ Coinbase
  <2>1. CASE Raise
    BY <2>1, RaiseProvides
  <2>2. CASE ~Raise
    <3>1. UNCHANGED <<chain, files>> /\ proc'.queue = proc.queue /\ proc'.evm = proc.evm
      BY <1>1, <1>8, <2>2 DEF Weth, Coinbase, Processes
    <3> QED BY <3>1, QuietProvides
  <2> QED BY <2>1, <2>2
<1>9. CASE CheckToken \/ Teardown
  BY <1>9, HeadAt, DoneFields, QuietProvides, RaiseProvides DEF CheckToken, Teardown
<1>10. CASE Sender
  <2>1. CASE Raise
    BY <2>1, RaiseProvides
  <2>2. CASE ~Raise
    <3>1. Done(proc).queue = proc.queue /\ Done(proc).evm = proc.evm /\ Done(proc) \in Processes
      BY <1>10, HeadAt, DoneFields DEF Sender
    <3>2. UNCHANGED <<chain, files>> /\ proc'.queue = proc.queue /\ proc'.evm = proc.evm
      BY <1>1, <1>10, <2>2, <3>1 DEF Sender, Processes
    <3> QED BY <3>2, QuietProvides
  <2> QED BY <2>1, <2>2
<1>11. CASE Finish \/ Crash
  BY <1>11, EndsProvides DEF Finish, Crash, Ends
<1>12. CASE Build \/ UNCHANGED vars
  BY <1>12, QuietProvides DEF Build, vars
<1>13. CASE \E script \in Scripts : Start(script)
  <2>1. PICK script \in Scripts : Start(script)
    BY <1>13
  <2>2. proc'.queue = <<>> /\ proc'.evm = Empty /\ UNCHANGED <<chain, files>>
    BY <2>1 DEF Start, NoProcess
  <2>3. Placed(Empty)
    BY DEF Placed, Empty
  <2> QED BY <2>2, <2>3, NoneProvide DEF CInv
<1> QED BY <1>2, <1>3, <1>4, <1>5, <1>6, <1>7, <1>8, <1>9, <1>10, <1>11, <1>12, <1>13

\* The queue is sent.
LEMMA FlushProvides ==
  ASSUME TInv, GInv, CInv, Execute \/ CreatePool
  PROVE  CInv'
<1>1. proc \in Processes /\ proc.queue \in Seq(Calls) /\ chain \in Chains /\ proc.todo # <<>>
  BY DEF TInv, Processes, Execute, CreatePool, At
<1>2. chain' \in Outcomes(proc.queue) /\ UNCHANGED files
  BY DEF Execute, CreatePool
<1>3. Done(proc) \in Processes /\ Done(proc).evm = proc.evm
  BY <1>1, DoneFields
<1>4. proc'.queue = <<>> /\ proc'.evm = proc.evm
  <2>1. CASE Execute
    BY <1>3, <2>1 DEF Execute, Processes
  <2>2. CASE CreatePool
    BY <1>1, <2>2 DEF CreatePool, Processes
  <2> QED BY <2>1, <2>2
<1>5. Provided(chain')
  BY <1>1, <1>2, ProvidedOutcome DEF CInv
<1> QED BY <1>2, <1>4, <1>5, NoneProvide DEF CInv

\* Calls are added to the queue.
LEMMA QueueProvides ==
  ASSUME TInv, CInv, proc.todo # <<>>, NEW calls \in Seq(Calls), Provides(calls),
         proc' = [Done(proc) EXCEPT !.queue = proc.queue \o calls], UNCHANGED chain,
         files'.evm = files.evm
  PROVE  CInv'
<1>1. proc.queue \in Seq(Calls) /\ Done(proc) \in Processes /\ Done(proc).evm = proc.evm
  BY DoneFields DEF TInv, Processes
<1>2. proc'.queue = proc.queue \o calls /\ proc'.evm = proc.evm
  BY <1>1 DEF Processes
<1> QED BY <1>1, <1>2, ProvidesConcat DEF CInv

\* The calls that concern neither.
LEMMA CallFields ==
  ASSUME NEW op, NEW to, NEW arg
  PROVE  /\ Call(op, to, arg).op = op /\ Call(op, to, arg).to = to /\ Call(op, to, arg).arg = arg
         /\ Call(op, to, arg).class = files.declared
BY DEF Call

LEMMA DeployStarknetContractsProvides ==
  ASSUME TInv, GInv, CInv, DeployStarknetContracts
  PROVE  CInv'
<1>1. proc.todo # <<>> /\ Head(proc.todo).kind = "starknet" /\ UNCHANGED <<build, chain, last, world>>
  BY HeadAt DEF DeployStarknetContracts
<1>2. Opened
  BY <1>1, HeadFacts DEF Preliminary
<1>3. CASE Network = "prod"
  BY <1>1, <1>3, DoneFields, QuietProvides DEF DeployStarknetContracts
<1>4. CASE Network # "prod"
  <2> DEFINE addr(i) == IF Skips(Fixtures[i]) THEN files.starknet[Fixtures[i]] ELSE fresh + i
             deploy(i) == IF Skips(Fixtures[i]) THEN <<>>
                          ELSE <<Call("deploy", addr(i), Fixtures[i])>>
             coinbase == IF addr(1) \in chain.evmCoinbase THEN <<>>
                         ELSE <<Call("set_evm_coinbase", addr(1), Deployer)>>
  <2>1. /\ proc' = [Done(proc) EXCEPT !.queue = proc.queue \o deploy(1) \o deploy(2) \o coinbase]
        /\ files'.evm = files.evm
    <3>1. Done(proc).queue = proc.queue
      BY <1>1, DoneFields
    <3> QED BY <1>4, <3>1 DEF DeployStarknetContracts, TInv
  <2>2. \A i \in 1..2 : deploy(i) \in Seq(Calls) /\ Provides(deploy(i))
    <3> SUFFICES ASSUME NEW i \in 1..2 PROVE deploy(i) \in Seq(Calls) /\ Provides(deploy(i))
      OBVIOUS
    <3>1. fresh \in Nat /\ (Skips(Fixtures[i]) => files.starknet[Fixtures[i]] \in 2..fresh)
      BY RecordedType
    <3>2. addr(i) \in Nat /\ Fixtures[i] \in Classes /\ Fixtures[i] # "kakarot"
      BY <3>1 DEF Fixtures, Classes
    <3> HIDE DEF addr
    <3> DEFINE c == Call("deploy", addr(i), Fixtures[i])
    <3>3. c \in Calls /\ c.op = "deploy" /\ ~Instantiates(c)
      BY <1>2, <3>2, CallType, CallFields DEF Instantiates
    <3> HIDE DEF c
    <3>4. Provides(<<c>>) /\ <<c>> \in Seq(Calls)
      BY <3>3, OneProvides
    <3> QED BY <3>4, NoneProvide DEF c
  <2>3. coinbase \in Seq(Calls) /\ Provides(coinbase)
    <3>1. fresh \in Nat /\ (Skips(Fixtures[1]) => files.starknet[Fixtures[1]] \in 2..fresh)
      BY RecordedType
    <3>2. addr(1) \in Nat
      BY <3>1
    <3> HIDE DEF addr
    <3> DEFINE c == Call("set_evm_coinbase", addr(1), Deployer)
    <3>3. c \in Calls /\ c.op = "set_evm_coinbase" /\ ~Instantiates(c)
      BY <1>2, <3>2, CallType, CallFields DEF Instantiates, Deployer
    <3> HIDE DEF c
    <3>4. Provides(<<c>>) /\ <<c>> \in Seq(Calls)
      BY <3>3, OneProvides
    <3> QED BY <3>4, NoneProvide DEF c
  <2> DEFINE q == proc.queue
             d1 == deploy(1)
             d2 == deploy(2)
             q1 == q \o d1
             q2 == q1 \o d2
             q3 == q2 \o coinbase
  <2>4. /\ q \in Seq(Calls) /\ Provides(q)
        /\ d1 \in Seq(Calls) /\ Provides(d1) /\ d2 \in Seq(Calls) /\ Provides(d2)
    BY <2>2 DEF CInv, TInv, Processes
  <2>5. proc'.queue = q3 /\ proc'.evm = proc.evm
    <3>1. Done(proc) \in Processes /\ Done(proc).evm = proc.evm
      BY <1>1, DoneFields
    <3> HIDE DEF deploy, coinbase, addr
    <3> QED BY <2>1, <3>1 DEF Processes
  <2> HIDE DEF deploy, coinbase, addr, q, d1, d2, q1, q2, q3
  <2>6. q1 \in Seq(Calls) /\ Provides(q1)
    BY <2>4, ProvidesConcat DEF q1
  <2>7. q2 \in Seq(Calls) /\ Provides(q2)
    BY <2>4, <2>6, ProvidesConcat DEF q2
  <2>8. Provides(q3)
    BY <2>3, <2>7, ProvidesConcat DEF q3
  <2> QED BY <1>1, <2>1, <2>5, <2>8 DEF CInv
<1> QED BY <1>3, <1>4

LEMMA DeployOrUpgradeKakarotProvides ==
  ASSUME TInv, GInv, CInv, DeployOrUpgradeKakarot
  PROVE  CInv'
<1>1. proc.todo # <<>> /\ Head(proc.todo).kind = "kakarot" /\ UNCHANGED <<build, chain, world>>
  BY HeadAt DEF DeployOrUpgradeKakarot
<1>2. Opened /\ Done(proc).queue = proc.queue
  BY <1>1, HeadFacts, DoneFields DEF Preliminary
<1>3. CASE Recorded("kakarot") /\ Network # "dev" /\ Exists(Kakarot)
  <2>1. proc' = [Done(proc) EXCEPT !.queue = proc.queue \o Upgrade] /\ UNCHANGED files
    BY <1>2, <1>3 DEF DeployOrUpgradeKakarot
  <2> DEFINE c1 == Call("upgrade", Kakarot, 0)
             c2 == Call("set_account_class", Kakarot, 0)
  <2>2. c1 \in Calls /\ c2 \in Calls /\ c1.op = "upgrade" /\ c2.op = "set_account_class"
    BY <1>2, <1>3, KakarotType, CallType, CallFields
  <2> HIDE DEF c1, c2
  <2>3. << c1, c2 >> \in Seq(Calls) /\ Provides(<< c1, c2 >>)
    BY <2>2 DEF Provides, Instantiates
  <2>4. Upgrade \in Seq(Calls) /\ Provides(Upgrade)
    BY <2>3, NoneProvide DEF Upgrade, c1, c2
  <2> QED BY <1>1, <2>1, <2>4, QueueProvides
<1>4. CASE Recorded("kakarot") /\ Network # "dev" /\ ~Exists(Kakarot)
  BY <1>1, <1>4, EndsProvides DEF DeployOrUpgradeKakarot, Ends
<1>5. CASE ~(Recorded("kakarot") /\ Network # "dev")
  <2> DEFINE k == IF Skips("kakarot") THEN Kakarot ELSE fresh
             c0 == Call("deploy", k, "kakarot")
             c1 == Call("set_base_fee", k, 0)
             c2 == Call("set_coinbase", k, Deployer)
             deploys == IF Skips("kakarot") THEN <<>> ELSE << c0 >>
             calls == deploys \o << c1, c2 >>
  <2>1. /\ proc' = [Done(proc) EXCEPT !.queue = proc.queue \o deploys \o << c1, c2 >>]
        /\ files'.evm = files.evm
    BY <1>2, <1>5 DEF DeployOrUpgradeKakarot, Configure, TInv
  <2>2. k \in Nat
    <3>1. fresh \in Nat /\ (Skips("kakarot") => Kakarot \in 2..fresh)
      BY RecordedType DEF Kakarot
    <3> QED BY <3>1
  <2> HIDE DEF k
  <2>3. /\ c0 \in Calls /\ c1 \in Calls /\ c2 \in Calls
        /\ c0.op = "deploy" /\ c1.op = "set_base_fee" /\ c2.op = "set_coinbase" /\ c2.arg = Deployer
        /\ c0.to = k /\ c2.to = k
    <3>1. "kakarot" \in Classes
      BY DEF Classes
    <3> QED BY <1>2, <2>2, <3>1, CallType, CallFields DEF Deployer
  <2>4. calls \in Seq(Calls) /\ Provides(calls)
    <3> HIDE DEF c0, c1, c2
    <3>1. CASE deploys = <<>>
      <4>1. calls \in Seq(Calls) /\ DOMAIN calls = {1, 2} /\ calls[1] = c1 /\ calls[2] = c2
        BY <2>3, <3>1
      <4> HIDE DEF calls
      <4> QED BY <2>3, <4>1 DEF Provides, Instantiates, Deployer, Unset
    <3>2. CASE deploys = << c0 >>
      <4>1. /\ calls \in Seq(Calls) /\ DOMAIN calls = {1, 2, 3} /\ Len(calls) = 3
            /\ calls[1] = c0 /\ calls[2] = c1 /\ calls[3] = c2
        BY <2>3, <3>2
      <4>2. 3 \in (1 + 1)..3
        OBVIOUS
      <4> HIDE DEF calls
      <4> QED BY <2>3, <4>1, <4>2 DEF Provides, Instantiates, Deployer, Unset
    <3> QED BY <3>1, <3>2
  <2>5. proc.queue \o deploys \o << c1, c2 >> = proc.queue \o calls
    <3>1. proc.queue \in Seq(Calls) /\ deploys \in Seq(Calls)
      BY <2>3 DEF TInv, Processes
    <3> DEFINE c == << c1, c2 >>
    <3>2. c \in Seq(Calls)
      BY <2>3
    <3> HIDE DEF deploys, c
    <3>3. proc.queue \o deploys \o c = proc.queue \o (deploys \o c)
      BY ZenonT(60), <3>1, <3>2, Queued
    <3> QED BY <3>3 DEF c
  <2>6. proc' = [Done(proc) EXCEPT !.queue = proc.queue \o calls]
    BY <2>1, <2>5
  <2> HIDE DEF calls, deploys
  <2> QED BY <1>1, <2>1, <2>4, <2>6, QueueProvides
<1> QED BY <1>3, <1>4, <1>5

\* What the invokes of a step are, apart from those of a coinbase.
LEMMA InvokesDo ==
  ASSUME TInv, GInv, FundStep \/ AuthorizeCaller \/ WhitelistStep
  PROVE  /\ proc.todo # <<>> /\ UNCHANGED files
         /\ \/ Raise
            \/ \E calls \in Seq(Calls) :
                 /\ Invoke(Done(proc), calls)
                 /\ \A i \in DOMAIN calls :
                      /\ calls[i].op \in {"fund", "authorize_caller", "authorize"}
                      /\ calls[i].to = Kakarot
<1>1. /\ proc.todo # <<>> /\ Head(proc.todo).kind \in {"fund", "authorize_caller", "whitelist"}
      /\ UNCHANGED files
  BY HeadAt DEF FundStep, AuthorizeCaller, WhitelistStep, Raise
<1>2. Opened /\ Recorded("kakarot") /\ Kakarot \in Nat /\ Subject \in Subjects
  BY <1>1, HeadFacts, KakarotType DEF Preliminary, UsingKakarot
<1>3. CASE FundStep
  <2> DEFINE c == Call("fund", Kakarot, Subject)
             calls == IF Subject \in Core.funded THEN <<>> ELSE << c >>
  <2>1. Raise \/ Invoke(Done(proc), calls)
    BY <1>3 DEF FundStep
  <2>2. c \in Calls /\ c.op = "fund" /\ c.to = Kakarot
    BY <1>2, CallType, CallFields
  <2> HIDE DEF c
  <2>3. calls \in Seq(Calls) /\ \A i \in DOMAIN calls : calls[i].op = "fund" /\ calls[i].to = Kakarot
    BY <2>2
  <2> HIDE DEF calls
  <2> QED BY <1>1, <2>1, <2>3
<1>4. CASE AuthorizeCaller
  <2> DEFINE c == Call("authorize_caller", Kakarot, proc.evm["token"].address)
             calls == << c >>
  <2>1. Invoke(Done(proc), calls) /\ Head(proc.todo).kind = "authorize_caller"
    BY <1>4, HeadAt DEF AuthorizeCaller
  <2>2. proc.evm["token"].address \in Nat
    BY <1>1, <2>1, HeadFacts, EvmType
  <2>3. c \in Calls /\ c.op = "authorize_caller" /\ c.to = Kakarot
    BY <1>2, <2>2, CallType, CallFields
  <2> HIDE DEF c
  <2>4. calls \in Seq(Calls)
        /\ \A i \in DOMAIN calls : calls[i].op = "authorize_caller" /\ calls[i].to = Kakarot
    BY <2>3
  <2> HIDE DEF calls
  <2> QED BY <1>1, <2>1, <2>4
<1>5. CASE WhitelistStep
  <2> DEFINE c == Call("authorize", Kakarot, Subject)
             calls == IF Subject \in proc.should THEN << c >> ELSE <<>>
  <2>1. Invoke(Done(proc), calls)
    BY <1>5 DEF WhitelistStep
  <2>2. c \in Calls /\ c.op = "authorize" /\ c.to = Kakarot
    BY <1>2, CallType, CallFields
  <2> HIDE DEF c
  <2>3. calls \in Seq(Calls) /\ \A i \in DOMAIN calls : calls[i].op = "authorize" /\ calls[i].to = Kakarot
    BY <2>2
  <2> HIDE DEF calls
  <2> QED BY <1>1, <2>1, <2>3
<1> QED BY <1>1, <1>3, <1>4, <1>5

LEMMA InvokesProvide ==
  ASSUME TInv, GInv, CInv, FundStep \/ AuthorizeCaller \/ WhitelistStep
  PROVE  CInv'
<1>1. CASE Raise
  BY <1>1, RaiseProvides
<1>2. CASE ~Raise
  <2>1. PICK calls \in Seq(Calls) :
          /\ Invoke(Done(proc), calls)
          /\ \A i \in DOMAIN calls : calls[i].op \in {"fund", "authorize_caller", "authorize"}
    BY <1>2, InvokesDo
  <2>2. Provides(calls)
    BY <2>1 DEF Provides, Instantiates
  <2>3. /\ proc.todo # <<>> /\ UNCHANGED files
        /\ Done(proc) \in Processes /\ Done(proc).queue = proc.queue /\ Done(proc).evm = proc.evm
    BY InvokesDo, DoneFields
  <2> QED BY <2>1, <2>2, <2>3, InvokeProvides
<1> QED BY <1>1, <1>2

LEMMA SetCoinbaseProvides ==
  ASSUME TInv, GInv, CInv, SetCoinbase
  PROVE  CInv'
<1>1. proc.todo # <<>> /\ Head(proc.todo).kind = "set_coinbase" /\ UNCHANGED files
  BY HeadAt DEF SetCoinbase
<1>2. Opened /\ Kakarot \in Nat /\ "Coinbase" \in DOMAIN proc.evm
  BY <1>1, HeadFacts, KakarotType DEF Preliminary, UsingKakarot
<1>3. proc.evm["Coinbase"].address \in Nat \ {Unset}
  <2>1. "Coinbase" \in EvmContracts
    BY DEF EvmContracts
  <2> QED BY <1>2, <2>1, EvmType DEF CInv, Placed
<1> DEFINE c == Call("set_coinbase", Kakarot, proc.evm["Coinbase"].address)
<1>4. c \in Calls /\ c.op = "set_coinbase" /\ c.arg # Unset
  BY <1>2, <1>3, CallType, CallFields
<1>5. Invoke(Done(proc), << c >>)
  BY DEF SetCoinbase
<1> HIDE DEF c
<1>6. << c >> \in Seq(Calls) /\ Provides(<< c >>)
  BY <1>4, OneProvides DEF Instantiates
<1>7. Done(proc) \in Processes /\ Done(proc).queue = proc.queue /\ Done(proc).evm = proc.evm
  BY <1>1, DoneFields
<1> QED BY <1>1, <1>5, <1>6, <1>7, InvokeProvides

LEMMA DeployEoaProvides ==
  ASSUME TInv, GInv, CInv, DeployEoa
  PROVE  CInv'
<1>1. proc.todo # <<>> /\ Head(proc.todo).kind = "eoa"
  BY HeadAt DEF DeployEoa
<1>2. Opened /\ Recorded("kakarot") /\ Kakarot \in Nat /\ Subject \in Subjects
  BY <1>1, HeadFacts, KakarotType DEF Preliminary, UsingKakarot
<1>3. CASE Raise
  BY <1>3, RaiseProvides
<1>4. CASE ~Raise
  <2> DEFINE c == Call("deploy_eoa", Kakarot, Subject)
  <2>1. /\ proc' = Done(proc) /\ UNCHANGED files
        /\ chain' = chain \/ chain' \in Outcomes(<< c >>)
    BY <1>4 DEF DeployEoa
  <2>2. c \in Calls /\ c.op = "deploy_eoa"
    BY <1>2, CallType, CallFields
  <2> HIDE DEF c
  <2>3. << c >> \in Seq(Calls) /\ Provides(<< c >>)
    BY <2>2, OneProvides DEF Instantiates
  <2>4. Provided(chain')
    BY <2>1, <2>3, ProvidedOutcome DEF CInv
  <2> QED BY <1>1, <2>1, <2>4, DoneFields DEF CInv
<1> QED BY <1>3, <1>4

LEMMA DeployEvmProvides ==
  ASSUME TInv, GInv, CInv, DeployEvm
  PROVE  CInv'
<1>1. proc.todo # <<>> /\ Head(proc.todo).kind = "deploy_evm"
  BY HeadAt DEF DeployEvm
<1>2. CASE Raise
  BY <1>2, RaiseProvides
<1>3. CASE /\ KakarotAnswers
           /\ chain' = [chain EXCEPT !.core[Kakarot].contracts = @ \cup {NewContract}]
           /\ proc' = [Done(proc) EXCEPT
                !.evm = With(@, Subject, [address |-> NewContract, kakarot |-> Kakarot])]
           /\ UNCHANGED <<build, files, last, fresh, world>>
  <2>1. /\ NewContract # Unset /\ DOMAIN chain'.core = DOMAIN chain.core
        /\ chain'.core[Kakarot] = [Core EXCEPT !.contracts = Core.contracts \cup {NewContract}]
        /\ \A j \in DOMAIN chain.core : j # Kakarot => chain'.core[j] = chain.core[j]
    BY <1>3, Created DEF Unset
  <2>2. Core \in CoreState
    BY <1>3, KakarotType
  <2>3. chain'.core[Kakarot].coinbase = Core.coinbase
    BY <2>1, <2>2 DEF CoreState
  <2>4. Provided(chain')
    BY <2>1, <2>3 DEF Provided, Core, CInv
  <2>5. /\ Done(proc) \in Processes /\ Done(proc).queue = proc.queue /\ Done(proc).evm = proc.evm
    BY <1>1, DoneFields
  <2>6. /\ proc'.queue = proc.queue
        /\ proc'.evm = With(proc.evm, Subject, [address |-> NewContract, kakarot |-> Kakarot])
    BY <1>3, <2>5 DEF Processes
  <2>7. Placed(proc'.evm)
    BY <2>1, <2>6 DEF With, Placed, CInv
  <2> QED BY <1>3, <2>4, <2>6, <2>7 DEF CInv
<1> QED BY <1>2, <1>3 DEF DeployEvm, NewContract

LEMMA TokenProvides ==
  ASSUME TInv, GInv, CInv, Token
  PROVE  CInv'
<1>1. proc.todo # <<>> /\ Head(proc.todo).kind = "token"
  BY HeadAt DEF Token
<1>2. proc \in Processes /\ Opened /\ fresh \in Nat /\ proc.todo \in Seq(Steps)
  BY <1>1, HeadFacts DEF TInv, Preliminary
<1> DEFINE deploy == Deploys("token") \o << Do("authorize_caller") >>
           long == deploy \o << Do("check_token") >>
           p == [proc EXCEPT !.todo = long \o Tail(proc.todo), !.token = fresh]
           c == Call("deploy", fresh, "StarknetToken")
<1>3. \/ Raise
      \/ UNCHANGED <<chain, files>> /\ proc' = Done(proc)
      \/ UNCHANGED <<chain, files>> /\ proc' = [proc EXCEPT !.todo = deploy \o Tail(proc.todo)]
      \/ Invoke(p, << c >>) /\ UNCHANGED files
  BY DEF Token
<1>4. CASE Raise
  BY <1>4, RaiseProvides
<1>5. CASE UNCHANGED <<chain, files>> /\ proc' = Done(proc)
  BY <1>1, <1>5, DoneFields, QuietProvides
<1>6. CASE UNCHANGED <<chain, files>> /\ proc' = [proc EXCEPT !.todo = deploy \o Tail(proc.todo)]
  <2> HIDE DEF deploy
  <2>1. proc'.queue = proc.queue /\ proc'.evm = proc.evm
    BY <1>2, <1>6 DEF Processes
  <2> QED BY <1>6, <2>1, QuietProvides
<1>7. CASE Invoke(p, << c >>) /\ UNCHANGED files
  <2>1. c \in Calls /\ ~Instantiates(c) /\ c.op = "deploy"
    <3>1. "StarknetToken" \in Classes
      BY DEF Classes
    <3> QED BY <1>2, <3>1, CallType, CallFields DEF Instantiates
  <2> HIDE DEF c
  <2>2. << c >> \in Seq(Calls) /\ Provides(<< c >>)
    BY <2>1, OneProvides
  <2>3. p \in Processes /\ p.queue = proc.queue /\ p.evm = proc.evm
    <3>1. long \in Seq(Steps)
      BY InsertedType
    <3> DEFINE rest == Tail(proc.todo)
    <3>2. rest \in Seq(Steps)
      BY <1>1, <1>2
    <3> HIDE DEF rest, long
    <3>3. long \o rest \in Seq(Steps)
      BY <3>1, <3>2
    <3> QED BY <1>2, <3>3 DEF Processes, rest
  <2> HIDE DEF p
  <2> QED BY <1>7, <2>2, <2>3, InvokeProvides
<1> QED BY <1>3, <1>4, <1>5, <1>6, <1>7

\* No transaction of PRE_EIP155_TX bears the name of a contract that is deployed.
LEMMA NamesApart == \A n \in Names(PreEip155) : n \notin EvmContracts
BY PreEip155Assumption DEF Names, EvmContracts

LEMMA SendProvides ==
  ASSUME TInv, GInv, CInv, Send
  PROVE  CInv'
<1>1. proc.todo # <<>> /\ Head(proc.todo).kind = "send"
  BY HeadAt DEF Send
<1>2. Subject \in Names(PreEip155) /\ Subject \in Subjects
  BY <1>1, HeadFacts DEF Steps, Subject
<1>3. CASE Raise
  BY <1>3, RaiseProvides
<1>4. CASE ~Raise
  <2>1. /\ proc' = [Done(proc) EXCEPT !.evm = With(@, Subject, [address |-> Unset, kakarot |-> Kakarot])]
        /\ UNCHANGED files
        /\ \/ chain' = chain
           \/ /\ KakarotAnswers
              /\ \E created \in {{Subject}, {}} :
                   chain' = [chain EXCEPT !.core[Kakarot].sent = @ \cup {Subject},
                                          !.core[Kakarot].created = @ \cup created]
    BY <1>4 DEF Send
  <2>2. Provided(chain')
    <3>1. CASE chain' = chain
      BY <3>1 DEF CInv
    <3>2. ASSUME KakarotAnswers, NEW created \in {{Subject}, {}},
                 chain' = [chain EXCEPT !.core[Kakarot].sent = @ \cup {Subject},
                                        !.core[Kakarot].created = @ \cup created]
          PROVE  Provided(chain')
      <4>1. created \in SUBSET Subjects
        BY <1>2
      <4>2. /\ DOMAIN chain'.core = DOMAIN chain.core
            /\ chain'.core[Kakarot] = [Core EXCEPT !.sent = Core.sent \cup {Subject},
                                                   !.created = Core.created \cup created]
            /\ \A j \in DOMAIN chain.core : j # Kakarot => chain'.core[j] = chain.core[j]
        BY <1>2, <3>2, <4>1, SentType
      <4>3. Core \in CoreState
        BY <3>2, KakarotType
      <4>4. chain'.core[Kakarot].coinbase = Core.coinbase
        BY <4>2, <4>3 DEF CoreState
      <4> QED BY <4>2, <4>4 DEF Provided, Core, CInv
    <3> QED BY <2>1, <3>1, <3>2
  <2>3. /\ Done(proc) \in Processes /\ Done(proc).queue = proc.queue /\ Done(proc).evm = proc.evm
    BY <1>1, DoneFields
  <2>4. /\ proc'.queue = proc.queue
        /\ proc'.evm = With(proc.evm, Subject, [address |-> Unset, kakarot |-> Kakarot])
    BY <2>1, <2>3 DEF Processes
  <2>5. Placed(proc'.evm)
    BY <1>2, <2>4, NamesApart DEF With, Placed, CInv
  <2> QED BY ZenonT(30), <2>1, <2>2, <2>4, <2>5 DEF CInv
<1> QED BY <1>3, <1>4

LEMMA ResetProvides ==
  ASSUME CInv, ResetChain
  PROVE  CInv'
<1>1. chain' = EmptyChain /\ UNCHANGED <<files, proc>>
  BY DEF ResetChain
<1>2. Provided(EmptyChain)
  BY DEF Provided, EmptyChain, Empty
<1> QED BY <1>1, <1>2 DEF CInv

LEMMA StepProvides ==
  ASSUME TInv, GInv, CInv, [Next]_vars
  PROVE  CInv'
BY CalmProvides, FlushProvides, DeployStarknetContractsProvides, DeployOrUpgradeKakarotProvides,
   InvokesProvide, SetCoinbaseProvides, DeployEoaProvides, DeployEvmProvides, TokenProvides,
   SendProvides, ResetProvides
   DEF Next, Run

LEMMA ProvidedInitially ==
  ASSUME Init
  PROVE  CInv
<1>1. /\ proc.queue = <<>> /\ proc.evm = Empty /\ files.evm = Empty /\ chain.core = Empty
  BY DEF Init, NoProcess, EmptyChain
<1>2. Placed(Empty) /\ DOMAIN Empty = {}
  BY DEF Placed, Empty
<1> QED BY <1>1, <1>2, NoneProvide DEF CInv, Provided

\* Fees never go to the zero address, at whatever step a deployment is killed and whatever
\* transaction is reverted: the call that sets the coinbase travels with the deployment of
\* Kakarot, in one transaction (kakarot_deployment.py).
THEOREM CoinbaseNeverZeroHolds == Spec => []CoinbaseNeverZero
<1>1. Init => TInv /\ GInv /\ CInv
  BY Initially, ProvidedInitially
<1>2. (TInv /\ GInv /\ CInv) /\ [Next]_vars => (TInv /\ GInv /\ CInv)'
  BY StepKeeps, StepProvides
<1>3. CInv => CoinbaseNeverZero
  BY DEF CInv, Provided, CoinbaseNeverZero
<1> QED BY <1>1, <1>2, <1>3, PTL DEF Spec

-----------------------------------------------------------------------------
(***************************************************************************)
(* The order of the steps.  Something that holds now, or that the steps of  *)
(* on bring about and those of off may undo, holds when those of at are     *)
(* reached.                                                                *)
(***************************************************************************)
Of(kinds) == {x \in Steps : x.kind \in kinds}

\* Before every step of at, the last step of on or off is one of on; or there is none and
\* what matters holds now.
Settled(s, at, on, off, now) ==
  \A i \in DOMAIN s : s[i] \in at =>
    \/ \E j \in 1..(i - 1) : s[j] \in on /\ \A l \in (j + 1)..(i - 1) : s[l] \notin off
    \/ now /\ \A l \in 1..(i - 1) : s[l] \notin off

\* What matters holds at the end of the list.
Leads(s, on, off, now) ==
  \/ \E j \in DOMAIN s : s[j] \in on /\ \A l \in (j + 1)..Len(s) : s[l] \notin off
  \/ now /\ \A l \in DOMAIN s : s[l] \notin off

\* From a to b.
Flow(s, at, on, off, a, b) ==
  s \in Seq(Steps) /\ Settled(s, at, on, off, a) /\ (b => Leads(s, on, off, a))

LEMMA SettledTail ==
  ASSUME NEW s \in Seq(Steps), s # <<>>, NEW at, NEW on, NEW off, NEW now, NEW then,
         Settled(s, at, on, off, now),
         s[1] \in on => then, now /\ s[1] \notin off => then
  PROVE  Settled(Tail(s), at, on, off, then)
<1> DEFINE t == Tail(s)
<1> SUFFICES ASSUME NEW i \in DOMAIN t, t[i] \in at
             PROVE  \/ \E j \in 1..(i - 1) : t[j] \in on /\ \A l \in (j + 1)..(i - 1) : t[l] \notin off
                    \/ then /\ \A l \in 1..(i - 1) : t[l] \notin off
  BY DEF Settled
<1>1. /\ i \in Nat /\ i > 0 /\ i + 1 \in DOMAIN s /\ \A l \in 1..i : t[l] = s[l + 1]
      /\ (i + 1) - 1 = i
  OBVIOUS
<1> HIDE DEF t
<1>2. CASE \E j \in 1..i : s[j] \in on /\ \A l \in (j + 1)..i : s[l] \notin off
  <2>1. PICK j \in 1..i : s[j] \in on /\ \A l \in (j + 1)..i : s[l] \notin off
    BY <1>2
  <2>2. CASE j = 1
    <3>1. \A l \in 1..(i - 1) : t[l] = s[l + 1] /\ l + 1 \in (j + 1)..i
      BY SMTT(60), <1>1, <2>2
    <3>2. then
      BY <2>1, <2>2
    <3> QED BY <2>1, <3>1, <3>2
  <2>3. CASE j # 1
    <3>1. j - 1 \in 1..(i - 1) /\ t[j - 1] = s[j]
      <4>1. j - 1 \in 1..(i - 1) /\ j - 1 \in 1..i /\ (j - 1) + 1 = j
        BY SMTT(30), <1>1, <2>3
      <4>2. t[j - 1] = s[(j - 1) + 1]
        BY <1>1, <4>1
      <4> QED BY <4>1, <4>2
    <3>2. \A l \in ((j - 1) + 1)..(i - 1) : t[l] = s[l + 1] /\ l + 1 \in (j + 1)..i
      BY SMTT(60), <1>1, <2>3
    <3> QED BY <2>1, <3>1, <3>2
  <2> QED BY <2>2, <2>3
<1>3. CASE now /\ \A l \in 1..i : s[l] \notin off
  <2>1. \A l \in 1..(i - 1) : t[l] = s[l + 1] /\ l + 1 \in 1..i
    BY SMTT(60), <1>1
  <2>2. 1 \in 1..i
    BY <1>1
  <2> QED BY <1>3, <2>1, <2>2
<1>4. t[i] = s[i + 1]
  BY <1>1
<1> QED BY <1>1, <1>2, <1>3, <1>4 DEF Settled

LEMMA FlowConcat ==
  ASSUME NEW s, NEW t, NEW at, NEW on, NEW off, NEW a, NEW b, NEW c,
         Flow(s, at, on, off, a, b), Flow(t, at, on, off, b, c)
  PROVE  Flow(s \o t, at, on, off, a, c)
<1> DEFINE u == s \o t
           m == Len(s)
<1>1. /\ s \in Seq(Steps) /\ t \in Seq(Steps) /\ u \in Seq(Steps) /\ m \in Nat
      /\ DOMAIN s = 1..m /\ DOMAIN t = 1..Len(t) /\ DOMAIN u = 1..(m + Len(t)) /\ Len(t) \in Nat
      /\ Len(u) = m + Len(t)
      /\ \A i \in 1..m : u[i] = s[i]
      /\ \A i \in 1..Len(t) : u[m + i] = t[i]
  BY DEF Flow
<1> HIDE DEF u, m
<1>2. ASSUME NEW h \in 1..(Len(t) + 1), b, \A l \in 1..(h - 1) : t[l] \notin off
      PROVE  \/ \E j \in 1..(m + h - 1) : u[j] \in on /\ \A l \in (j + 1)..(m + h - 1) : u[l] \notin off
             \/ a /\ \A l \in 1..(m + h - 1) : u[l] \notin off
  <2>1. \A l \in (m + 1)..(m + h - 1) : u[l] \notin off
    <3> SUFFICES ASSUME NEW l \in (m + 1)..(m + h - 1) PROVE u[l] \notin off
      OBVIOUS
    <3>1. l - m \in 1..(h - 1) /\ l - m \in 1..Len(t) /\ l = m + (l - m)
      BY <1>1
    <3>2. u[l] = t[l - m]
      BY <1>1, <3>1
    <3> QED BY <1>2, <3>1, <3>2
  <2>2. CASE \E j \in DOMAIN s : s[j] \in on /\ \A l \in (j + 1)..Len(s) : s[l] \notin off
    <3>1. PICK j \in 1..m : s[j] \in on /\ \A l \in (j + 1)..m : s[l] \notin off
      BY <1>1, <2>2 DEF m
    <3>2. j \in 1..(m + h - 1) /\ u[j] \in on
      BY <1>1, <3>1
    <3>3. \A l \in (j + 1)..(m + h - 1) : u[l] \notin off
      <4> SUFFICES ASSUME NEW l \in (j + 1)..(m + h - 1) PROVE u[l] \notin off
        OBVIOUS
      <4>1. CASE l <= m
        <5>1. l \in (j + 1)..m /\ l \in 1..m
          BY <1>1, <4>1
        <5> QED BY <1>1, <3>1, <5>1
      <4>2. CASE l > m
        <5>1. l \in (m + 1)..(m + h - 1)
          BY <1>1, <4>2
        <5> QED BY <2>1, <5>1
      <4> QED BY <1>1, <4>1, <4>2
    <3> QED BY <3>2, <3>3
  <2>3. CASE a /\ \A l \in DOMAIN s : s[l] \notin off
    <3>1. \A l \in 1..(m + h - 1) : u[l] \notin off
      <4> SUFFICES ASSUME NEW l \in 1..(m + h - 1) PROVE u[l] \notin off
        OBVIOUS
      <4>1. CASE l <= m
        BY <1>1, <2>3, <4>1
      <4>2. CASE l > m
        <5>1. l \in (m + 1)..(m + h - 1)
          BY <1>1, <4>2
        <5> QED BY <2>1, <5>1
      <4> QED BY <1>1, <4>1, <4>2
    <3> QED BY <2>3, <3>1
  <2> QED BY <1>2, <2>2, <2>3 DEF Flow, Leads
<1>3. ASSUME NEW i \in DOMAIN u, u[i] \in at
      PROVE  \/ \E j \in 1..(i - 1) : u[j] \in on /\ \A l \in (j + 1)..(i - 1) : u[l] \notin off
             \/ a /\ \A l \in 1..(i - 1) : u[l] \notin off
  <2>1. CASE i <= m
    <3>1. i \in DOMAIN s /\ u[i] = s[i] /\ \A l \in 1..(i - 1) : u[l] = s[l]
      BY <1>1, <2>1
    <3>2. \A j \in 1..(i - 1) : \A l \in (j + 1)..(i - 1) : l \in 1..(i - 1)
      BY <1>1, <2>1
    <3>3. \/ \E j \in 1..(i - 1) : s[j] \in on /\ \A l \in (j + 1)..(i - 1) : s[l] \notin off
          \/ a /\ \A l \in 1..(i - 1) : s[l] \notin off
      BY <1>3, <3>1 DEF Flow, Settled
    <3> QED BY <3>1, <3>2, <3>3
  <2>2. CASE i > m
    <3> DEFINE h == i - m
    <3>1. h \in 1..Len(t) /\ i = m + h /\ u[i] = t[h] /\ h \in DOMAIN t
      BY <1>1, <2>2
    <3> HIDE DEF h
    <3>2. CASE \E j \in 1..(h - 1) : t[j] \in on /\ \A l \in (j + 1)..(h - 1) : t[l] \notin off
      <4>1. PICK j \in 1..(h - 1) : t[j] \in on /\ \A l \in (j + 1)..(h - 1) : t[l] \notin off
        BY <3>2
      <4>2. m + j \in 1..(i - 1) /\ u[m + j] = t[j]
        BY <1>1, <3>1
      <4>3. \A l \in ((m + j) + 1)..(i - 1) : u[l] \notin off
        <5> SUFFICES ASSUME NEW l \in ((m + j) + 1)..(i - 1) PROVE u[l] \notin off
          OBVIOUS
        <5>1. l - m \in (j + 1)..(h - 1) /\ l - m \in 1..Len(t) /\ l = m + (l - m)
          BY <1>1, <3>1
        <5>2. u[l] = t[l - m]
          BY <1>1, <5>1
        <5> QED BY <4>1, <5>1, <5>2
      <4> QED BY <4>1, <4>2, <4>3
    <3>3. CASE b /\ \A l \in 1..(h - 1) : t[l] \notin off
      <4>1. h \in 1..(Len(t) + 1) /\ m + h - 1 = i - 1
        BY <1>1, <3>1
      <4> QED BY <1>2, <3>3, <4>1
    <3> QED BY <1>3, <3>1, <3>2, <3>3 DEF Flow, Settled
  <2> QED BY <1>1, <2>1, <2>2
<1>4. ASSUME c
      PROVE  Leads(u, on, off, a)
  <2>1. CASE \E j \in DOMAIN t : t[j] \in on /\ \A l \in (j + 1)..Len(t) : t[l] \notin off
    <3>1. PICK j \in DOMAIN t : t[j] \in on /\ \A l \in (j + 1)..Len(t) : t[l] \notin off
      BY <2>1
    <3>2. m + j \in DOMAIN u /\ u[m + j] = t[j]
      BY <1>1
    <3>3. \A l \in ((m + j) + 1)..Len(u) : u[l] \notin off
      <4> SUFFICES ASSUME NEW l \in ((m + j) + 1)..Len(u) PROVE u[l] \notin off
        OBVIOUS
      <4>1. l - m \in (j + 1)..Len(t) /\ l - m \in 1..Len(t) /\ l = m + (l - m)
        BY <1>1
      <4>2. u[l] = t[l - m]
        BY <1>1, <4>1
      <4> QED BY <3>1, <4>1, <4>2
    <3> QED BY <3>1, <3>2, <3>3 DEF Leads
  <2>2. CASE b /\ \A l \in DOMAIN t : t[l] \notin off
    <3> DEFINE h == Len(t) + 1
    <3>1. /\ h \in 1..(Len(t) + 1) /\ m + h - 1 = Len(u)
          /\ \A l \in 1..(h - 1) : t[l] \notin off
      BY <1>1, <2>2
    <3> HIDE DEF h
    <3>2. \/ \E j \in 1..Len(u) : u[j] \in on /\ \A l \in (j + 1)..Len(u) : u[l] \notin off
          \/ a /\ \A l \in 1..Len(u) : u[l] \notin off
      BY <1>2, <2>2, <3>1
    <3> QED BY <1>1, <3>2 DEF Leads
  <2> QED BY <1>4, <2>1, <2>2 DEF Flow, Leads
<1>5. Settled(u, at, on, off, a)
  BY <1>3 DEF Settled
<1>6. Flow(u, at, on, off, a, c)
  BY <1>1, <1>4, <1>5 DEF Flow
<1> QED BY <1>6 DEF u

\* Steps that take the place of the head.
LEMMA SettledInsert ==
  ASSUME NEW s \in Seq(Steps), s # <<>>, NEW t, NEW at, NEW on, NEW off, NEW now, NEW between, NEW then,
         Settled(s, at, on, off, now),
         s[1] \in on => between, now /\ s[1] \notin off => between,
         Flow(t, at, on, off, then, between)
  PROVE  Settled(t \o Tail(s), at, on, off, then)
<1>1. Settled(Tail(s), at, on, off, between)
  BY SettledTail
<1>2. Tail(s) \in Seq(Steps)
  OBVIOUS
<1>3. Flow(Tail(s), at, on, off, between, FALSE)
  BY <1>1, <1>2 DEF Flow
<1>4. Flow(t \o Tail(s), at, on, off, then, FALSE)
  BY <1>3, FlowConcat
<1> QED BY <1>4 DEF Flow

\* Steps that are none of those.
LEMMA FlowAside ==
  ASSUME NEW s \in Seq(Steps), NEW at, NEW on, NEW off, NEW a,
         \A i \in DOMAIN s : s[i] \notin at /\ s[i] \notin off
  PROVE  Flow(s, at, on, off, a, a)
BY DEF Flow, Settled, Leads

-----------------------------------------------------------------------------
(***************************************************************************)
(* What a step changes                                                     *)
(***************************************************************************)
\* What only a restart of the chain takes away.
Kept(old, new) ==
  /\ old.declared \subseteq new.declared
  /\ DOMAIN old.code \subseteq DOMAIN new.code
  /\ DOMAIN old.core \subseteq DOMAIN new.core
  /\ \A k \in DOMAIN old.core :
       /\ old.core[k].sent \subseteq new.core[k].sent
       /\ old.core[k].created \subseteq new.core[k].created
       /\ old.core[k].contracts \subseteq new.core[k].contracts
       /\ old.core[k].eoas \subseteq new.core[k].eoas
       /\ old.core[k].funded \subseteq new.core[k].funded
       /\ old.core[k].authorized \subseteq new.core[k].authorized
       /\ old.core[k].callers \subseteq new.core[k].callers

LEMMA GrownKept ==
  ASSUME NEW old, NEW new, Grown(old, new)
  PROVE  Kept(old, new)
BY DEF Grown, Kept

LEMMA KeptSame ==
  ASSUME NEW old, NEW new, new = old
  PROVE  Kept(old, new)
BY DEF Kept

\* The invokes of a step take effect at once or join the queue.
LEMMA InvokeKeepsChain ==
  ASSUME TInv, NEW p \in Processes, NEW calls \in Seq(Calls), Invoke(p, calls)
  PROVE  Kept(chain, chain')
BY InvokeType, GrownKept

LEMMA TokenCall ==
  ASSUME TInv, GInv, Token
  PROVE  LET long == (Deploys("token") \o << Do("authorize_caller") >>) \o << Do("check_token") >>
             p == [proc EXCEPT !.todo = long \o Tail(proc.todo), !.token = fresh]
         IN /\ p \in Processes /\ p.todo = long \o Tail(proc.todo) /\ p.queue = proc.queue
            /\ p.evm = proc.evm /\ p.lazy = proc.lazy /\ p.should = proc.should
            /\ p.script = proc.script /\ p.token = fresh /\ p.pool = proc.pool
            /\ Call("deploy", fresh, "StarknetToken") \in Calls
<1>1. proc.todo # <<>> /\ Head(proc.todo).kind = "token"
  BY HeadAt DEF Token
<1>2. proc \in Processes /\ Opened /\ fresh \in Nat /\ proc.todo \in Seq(Steps)
  BY <1>1, HeadFacts DEF TInv, Preliminary
<1> DEFINE long == (Deploys("token") \o << Do("authorize_caller") >>) \o << Do("check_token") >>
           rest == Tail(proc.todo)
           p == [proc EXCEPT !.todo = long \o rest, !.token = fresh]
<1>3. long \in Seq(Steps) /\ rest \in Seq(Steps)
  BY <1>1, <1>2, InsertedType
<1> HIDE DEF long, rest
<1>4. long \o rest \in Seq(Steps)
  BY <1>3
<1>5. /\ p \in Processes /\ p.todo = long \o rest /\ p.queue = proc.queue
      /\ p.evm = proc.evm /\ p.lazy = proc.lazy /\ p.should = proc.should
      /\ p.script = proc.script /\ p.token = fresh /\ p.pool = proc.pool
  BY <1>2, <1>4 DEF Processes
<1>6. Call("deploy", fresh, "StarknetToken") \in Calls
  <2>1. "StarknetToken" \in Classes
    BY DEF Classes
  <2> QED BY <1>2, <2>1, CallType
<1> QED BY <1>5, <1>6 DEF long, rest

\* What holds before the calls, and is kept by each that is accepted, holds of the outcome.
LEMMA ExecutedKeeps ==
  ASSUME chain \in Chains, NEW calls \in Seq(Calls), NEW P, chain \in P,
         \A ch \in P \cap Chains : \A i \in DOMAIN calls :
           Accepts(ch, calls[i]) => Effect(ch, calls[i]) \in P
  PROVE  Executed(calls) \in P
<1>1. PICK after \in [0..Len(calls) -> Results] :
           /\ after[0] = [ok |-> TRUE, chain |-> chain]
           /\ \A n \in 1..Len(calls) : after[n] = After(after[n - 1], calls[n])
           /\ Executed(calls) = after[Len(calls)].chain
  BY ExecutedDef
<1> DEFINE m == Len(calls)
           K == {n \in Nat : n <= m => after[n].chain \in P}
<1>2. m \in Nat
  OBVIOUS
<1>3. \A n \in Nat : n \in K
  <2>1. 0 \in K
    BY <1>1
  <2>2. ASSUME NEW n \in Nat, n \in K PROVE n + 1 \in K
    <3> SUFFICES ASSUME n + 1 <= m PROVE after[n + 1].chain \in P
      OBVIOUS
    <3>1. /\ after[n] \in Results /\ n + 1 \in DOMAIN calls /\ after[n].chain \in P
          /\ after[n + 1] = After(after[n], calls[n + 1])
      BY <1>1, <2>2
    <3>2. after[n].chain \in Chains
      BY <3>1 DEF Results
    <3>3. CASE after[n].ok /\ Accepts(after[n].chain, calls[n + 1])
      <4>1. after[n + 1].chain = Effect(after[n].chain, calls[n + 1])
        BY <3>1, <3>3 DEF After
      <4> QED BY <3>1, <3>2, <3>3, <4>1
    <3>4. CASE ~(after[n].ok /\ Accepts(after[n].chain, calls[n + 1]))
      BY <3>1, <3>4 DEF After
    <3> QED BY <3>3, <3>4
  <2> HIDE DEF K
  <2> QED BY <2>1, <2>2, NatSet
<1> QED BY <1>1, <1>2, <1>3

\* The instance that a call deploys.
LEMMA EffectNew ==
  ASSUME NEW ch \in Chains, NEW c \in Calls, Accepts(ch, c), Instantiates(c)
  PROVE  /\ Effect(ch, c).core[c.to] = NewCore(c.class["account_contract"])
         /\ \A k \in DOMAIN ch.core : Effect(ch, c).core[k] = ch.core[k]
<1>1. /\ ch.core \in Partial(Nat, CoreState) /\ DOMAIN ch.core \subseteq DOMAIN ch.code
      /\ ch = [declared |-> ch.declared, code |-> ch.code, core |-> ch.core,
               evmCoinbase |-> ch.evmCoinbase]
  BY DEF Chains
<1>2. c.op = "deploy" /\ c.arg = "kakarot" /\ c.to \notin DOMAIN ch.code
  BY DEF Instantiates, Accepts
<1>3. Effect(ch, c).core = With(ch.core, c.to, NewCore(c.class["account_contract"]))
  BY <1>1, <1>2 DEF Effect
<1> QED BY <1>1, <1>2, <1>3 DEF With

\* Each action is taken when its step is the next one.
LEMMA StepAt ==
  /\ Execute => At("execute")
  /\ RegisterLazyAccount => At("register")
  /\ RemoveLazyAccount => At("remove")
  /\ CheckDeclared => At("check_declared")
  /\ CheckDeployed => At("check_deployed")
  /\ Declare => At("declare")
  /\ DumpDeclarations => At("dump_declarations")
  /\ DeployStarknetContracts => At("starknet")
  /\ DeployOrUpgradeKakarot => At("kakarot")
  /\ FundStep => At("fund")
  /\ DeployEoa => At("eoa")
  /\ DeployEvm => At("deploy_evm")
  /\ LoadEvm => At("load_evm")
  /\ DumpEvm => At("dump_evm")
  /\ Weth => At("weth")
  /\ Coinbase => At("coinbase")
  /\ SetCoinbase => At("set_coinbase")
  /\ Token => At("token")
  /\ AuthorizeCaller => At("authorize_caller")
  /\ CheckToken => At("check_token")
  /\ Sender => At("sender")
  /\ WhitelistStep => At("whitelist")
  /\ Send => At("send")
  /\ Teardown => At("teardown")
BY DEF Execute, RegisterLazyAccount, RemoveLazyAccount, CheckDeclared, CheckDeployed, Declare,
   DumpDeclarations, DeployStarknetContracts, DeployOrUpgradeKakarot, FundStep, DeployEoa, DeployEvm,
   LoadEvm, DumpEvm, Weth, Coinbase, SetCoinbase, Token, AuthorizeCaller, CheckToken, Sender,
   WhitelistStep, Send, Teardown, ExitUnless

\* The next step tells what a process does that goes on.
LEMMA HeadTells ==
  ASSUME TInv, GInv, [Next]_vars, proc.todo # <<>>, ~Crash, ~CreatePool, ~UNCHANGED vars
  PROVE
  /\ Head(proc.todo).kind = "execute" => Execute
  /\ Head(proc.todo).kind = "register" => RegisterLazyAccount
  /\ Head(proc.todo).kind = "remove" => RemoveLazyAccount
  /\ Head(proc.todo).kind = "check_declared" => CheckDeclared
  /\ Head(proc.todo).kind = "check_deployed" => CheckDeployed
  /\ Head(proc.todo).kind = "declare" => Declare
  /\ Head(proc.todo).kind = "dump_declarations" => DumpDeclarations
  /\ Head(proc.todo).kind = "starknet" => DeployStarknetContracts
  /\ Head(proc.todo).kind = "kakarot" => DeployOrUpgradeKakarot
  /\ Head(proc.todo).kind = "fund" => FundStep
  /\ Head(proc.todo).kind = "eoa" => DeployEoa
  /\ Head(proc.todo).kind = "deploy_evm" => DeployEvm
  /\ Head(proc.todo).kind = "load_evm" => LoadEvm
  /\ Head(proc.todo).kind = "dump_evm" => DumpEvm
  /\ Head(proc.todo).kind = "weth" => Weth
  /\ Head(proc.todo).kind = "coinbase" => Coinbase
  /\ Head(proc.todo).kind = "set_coinbase" => SetCoinbase
  /\ Head(proc.todo).kind = "token" => Token
  /\ Head(proc.todo).kind = "authorize_caller" => AuthorizeCaller
  /\ Head(proc.todo).kind = "check_token" => CheckToken
  /\ Head(proc.todo).kind = "sender" => Sender
  /\ Head(proc.todo).kind = "whitelist" => WhitelistStep
  /\ Head(proc.todo).kind = "send" => Send
  /\ Head(proc.todo).kind = "teardown" => Teardown
<1>1. ~Idle
  BY HeadFacts
<1>2. Run /\ ~Finish
  BY <1>1 DEF Next, Start, Build, ResetChain, Finish
<1> QED BY <1>2, StepAt DEF Run, At

\* What a step leaves alone.
LEMMA FieldsKept ==
  ASSUME TInv, GInv, [Next]_vars
  PROVE  /\ files'.evm = files.evm \/ DumpEvm
         /\ files'.declared = files.declared \/ DumpDeclarations
         /\ files'.starknet = files.starknet \/ DeployStarknetContracts \/ DeployOrUpgradeKakarot
         /\ world'.network = world.network /\ world'.reverts = world.reverts
         /\ world'.resets = world.resets
<1>1. /\ files = [declared |-> files.declared, starknet |-> files.starknet, evm |-> files.evm]
      /\ world \in [network : {"dev", "staging", "prod"}, reverts : BOOLEAN, resets : BOOLEAN,
                    builds : Nat \ {0}, runs : Nat, crashes : Nat, ran : Nat, crashed : Nat]
  BY Zenon DEF TInv
<1>2. \/ UNCHANGED world
      \/ world' = [world EXCEPT !.ran = @ + 1]
      \/ world' = [world EXCEPT !.crashed = @ + 1]
  BY Zenon DEF Execute, RegisterLazyAccount, RemoveLazyAccount, CheckDeclared, CheckDeployed, ExitUnless,
     Declare, DumpDeclarations, DeployStarknetContracts, DeployOrUpgradeKakarot, CreatePool, FundStep,
     DeployEoa, DeployEvm, LoadEvm, DumpEvm, Weth, Coinbase, SetCoinbase, Token, AuthorizeCaller,
     CheckToken, Sender, WhitelistStep, Send, Teardown, Finish, Raise, Crash, Build, ResetChain, Start,
     Next, Run, vars
<1>3. /\ world'.network = world.network /\ world'.reverts = world.reverts
      /\ world'.resets = world.resets
  BY Zenon, <1>1, <1>2
<1>4. \/ UNCHANGED files
      \/ DumpEvm \/ DumpDeclarations \/ DeployStarknetContracts \/ DeployOrUpgradeKakarot
  BY Zenon DEF Execute, RegisterLazyAccount, RemoveLazyAccount, CheckDeclared, CheckDeployed, ExitUnless,
     Declare, CreatePool, FundStep, DeployEoa, DeployEvm, LoadEvm, Weth, Coinbase, SetCoinbase, Token,
     AuthorizeCaller, CheckToken, Sender, WhitelistStep, Send, Teardown, Finish, Raise, Crash, Build,
     ResetChain, Start, Next, Run, vars
<1>5. CASE UNCHANGED files
  BY <1>3, <1>5
<1>6. CASE DumpEvm
  BY <1>1, <1>3, <1>6 DEF DumpEvm
<1>7. CASE DumpDeclarations
  BY <1>1, <1>3, <1>7 DEF DumpDeclarations
<1>8. CASE DeployStarknetContracts \/ DeployOrUpgradeKakarot
  <2>1. UNCHANGED files \/ \E recorded : files' = [files EXCEPT !.starknet = recorded]
    BY <1>8 DEF DeployStarknetContracts, DeployOrUpgradeKakarot
  <2> QED BY <1>1, <1>3, <1>8, <2>1
<1> QED BY <1>4, <1>5, <1>6, <1>7, <1>8

LEMMA ProcessKept ==
  ASSUME TInv, GInv, [Next]_vars
  PROVE  \/ proc' = NoProcess
         \/ \E script \in Scripts : Start(script)
         \/ /\ proc'.evm = proc.evm \/ LoadEvm \/ DeployEvm \/ Send
            /\ proc'.should = proc.should \/ Sender
            /\ proc'.lazy = proc.lazy \/ RegisterLazyAccount \/ RemoveLazyAccount
            /\ proc'.pool = proc.pool \/ CreatePool
<1>1. proc \in Processes /\ proc.todo \in Seq(Steps)
  BY DEF TInv, Processes
<1>2. CASE Execute
  <2>1. proc.todo # <<>> /\ proc' = [Done(proc) EXCEPT !.queue = <<>>]
    BY <1>2 DEF Execute, At
  <2>2. Done(proc) \in Processes
    BY <2>1, DoneFields
  <2>3. /\ proc'.evm = Done(proc).evm /\ proc'.should = Done(proc).should
        /\ proc'.lazy = Done(proc).lazy /\ proc'.pool = Done(proc).pool
    BY <2>1, <2>2 DEF Processes
  <2> QED BY <2>1, <2>3, DoneFields
<1>3. CASE RegisterLazyAccount \/ RemoveLazyAccount
  <2>1. proc.todo # <<>> /\ \E v : proc' = [Done(proc) EXCEPT !.lazy = v]
    BY <1>3 DEF RegisterLazyAccount, RemoveLazyAccount, At
  <2>2. Done(proc) \in Processes
    BY <2>1, DoneFields
  <2>3. proc'.evm = Done(proc).evm /\ proc'.should = Done(proc).should /\ proc'.pool = Done(proc).pool
    BY <2>1, <2>2 DEF Processes
  <2> QED BY <1>3, <2>1, <2>3, DoneFields
<1>4. CASE DeployStarknetContracts \/ DeployOrUpgradeKakarot
  <2>1. /\ proc.todo # <<>>
        /\ \/ proc' = Done(proc)
           \/ proc' = NoProcess
           \/ \E q : proc' = [Done(proc) EXCEPT !.queue = q]
    BY <1>4 DEF DeployStarknetContracts, DeployOrUpgradeKakarot, At, Ends
  <2>2. CASE proc' = Done(proc)
    BY <2>1, <2>2, DoneFields
  <2>3. CASE \E q : proc' = [Done(proc) EXCEPT !.queue = q]
    <3>1. Done(proc) \in Processes
      BY <2>1, DoneFields
    <3>2. /\ proc'.evm = Done(proc).evm /\ proc'.should = Done(proc).should
          /\ proc'.lazy = Done(proc).lazy /\ proc'.pool = Done(proc).pool
      BY <2>3, <3>1 DEF Processes
    <3> QED BY <2>1, <3>2, DoneFields
  <2> QED BY ZenonT(30), <2>1, <2>2, <2>3
<1>5. CASE CreatePool \/ UNCHANGED vars
  BY <1>1, <1>5 DEF CreatePool, Processes, vars
<1>6. CASE FundStep \/ AuthorizeCaller \/ WhitelistStep
  <2>1. CASE Raise
    BY <2>1 DEF Raise, Ends
  <2>2. CASE ~Raise
    <3>1. proc.todo # <<>> /\ \E calls \in Seq(Calls) : Invoke(Done(proc), calls)
      BY <1>6, <2>2, InvokesDo
    <3>2. Done(proc) \in Processes
      BY <3>1, DoneFields
    <3>3. /\ proc'.evm = Done(proc).evm /\ proc'.should = Done(proc).should
          /\ proc'.lazy = Done(proc).lazy /\ proc'.pool = Done(proc).pool
      BY <3>1, <3>2, InvokeType
    <3> QED BY <3>1, <3>3, DoneFields
  <2> QED BY <2>1, <2>2
<1>7. CASE SetCoinbase
  <2>1. proc.todo # <<>> /\ Head(proc.todo).kind = "set_coinbase"
    BY <1>7, HeadAt DEF SetCoinbase
  <2>2. Opened /\ Kakarot \in Nat /\ proc.evm["Coinbase"].address \in Nat
    BY <2>1, HeadFacts, KakarotType, EvmType DEF Preliminary, UsingKakarot
  <2> DEFINE c == Call("set_coinbase", Kakarot, proc.evm["Coinbase"].address)
  <2>3. c \in Calls /\ Invoke(Done(proc), << c >>)
    BY <1>7, <2>2, CallType DEF SetCoinbase
  <2> HIDE DEF c
  <2>4. << c >> \in Seq(Calls) /\ Done(proc) \in Processes
    BY <2>1, <2>3, DoneFields
  <2>5. /\ proc'.evm = Done(proc).evm /\ proc'.should = Done(proc).should
        /\ proc'.lazy = Done(proc).lazy /\ proc'.pool = Done(proc).pool
    BY <2>3, <2>4, InvokeType
  <2> QED BY <2>1, <2>5, DoneFields
<1>8. CASE DeployEvm \/ LoadEvm \/ Send
  <2>1. /\ proc.todo # <<>>
        /\ proc' = NoProcess \/ \E evm : proc' = [Done(proc) EXCEPT !.evm = evm]
    BY <1>8 DEF DeployEvm, LoadEvm, Send, At, Raise, Ends
  <2>2. CASE \E evm : proc' = [Done(proc) EXCEPT !.evm = evm]
    <3>1. Done(proc) \in Processes
      BY <2>1, DoneFields
    <3>2. /\ proc'.should = Done(proc).should /\ proc'.lazy = Done(proc).lazy
          /\ proc'.pool = Done(proc).pool
      BY <2>2, <3>1 DEF Processes
    <3> QED BY <1>8, <2>1, <3>2, DoneFields
  <2> QED BY <2>1, <2>2
<1>9. CASE Weth \/ Coinbase
  <2>1. Raise \/ \E t : proc' = [proc EXCEPT !.todo = t]
    BY <1>9 DEF Weth, Coinbase
  <2> QED BY <1>1, <2>1 DEF Raise, Ends, Processes
<1>10. CASE Token
  <2>1. proc.todo # <<>> /\ Head(proc.todo).kind = "token"
    BY <1>10, HeadAt DEF Token
  <2> DEFINE long == (Deploys("token") \o << Do("authorize_caller") >>) \o << Do("check_token") >>
             p == [proc EXCEPT !.todo = long \o Tail(proc.todo), !.token = fresh]
             c == Call("deploy", fresh, "StarknetToken")
  <2>2. \/ Raise
        \/ proc' = Done(proc)
        \/ \E t : proc' = [proc EXCEPT !.todo = t]
        \/ Invoke(p, << c >>)
    BY <1>10 DEF Token
  <2>3. CASE proc' = Done(proc)
    BY <2>1, <2>3, DoneFields
  <2>4. CASE Invoke(p, << c >>)
    <3>1. /\ p \in Processes /\ c \in Calls /\ p.evm = proc.evm /\ p.should = proc.should
          /\ p.lazy = proc.lazy /\ p.pool = proc.pool
      BY <1>10, TokenCall
    <3> HIDE DEF p, c
    <3>2. << c >> \in Seq(Calls)
      BY <3>1
    <3>3. proc'.evm = p.evm /\ proc'.should = p.should /\ proc'.lazy = p.lazy /\ proc'.pool = p.pool
      BY <2>4, <3>1, <3>2, InvokeType
    <3> QED BY <3>1, <3>3
  <2>5. CASE \E t : proc' = [proc EXCEPT !.todo = t]
    BY <1>1, <2>5 DEF Processes
  <2> QED BY <2>2, <2>3, <2>4, <2>5 DEF Raise, Ends
<1>11. CASE Sender
  <2>1. proc.todo # <<>> /\ Head(proc.todo).kind = "sender"
    BY <1>11, HeadAt DEF Sender
  <2>2. \/ Raise
        \/ \E w : proc' = [Done(proc) EXCEPT !.should = w]
        \/ \E t, w : proc' = [proc EXCEPT !.todo = t, !.should = w]
    BY <1>11 DEF Sender
  <2>3. Done(proc) \in Processes
    BY <2>1, DoneFields
  <2>4. CASE \E w : proc' = [Done(proc) EXCEPT !.should = w]
    <3>1. proc'.evm = Done(proc).evm /\ proc'.lazy = Done(proc).lazy /\ proc'.pool = Done(proc).pool
      BY <2>3, <2>4 DEF Processes
    <3> QED BY <1>11, <2>1, <3>1, DoneFields
  <2>5. CASE \E t, w : proc' = [proc EXCEPT !.todo = t, !.should = w]
    BY <1>1, <1>11, <2>5 DEF Processes
  <2> QED BY <2>2, <2>4, <2>5 DEF Raise, Ends
<1>12. CASE \/ CheckDeclared \/ CheckDeployed \/ Declare \/ DumpDeclarations \/ DeployEoa \/ DumpEvm
            \/ CheckToken \/ Teardown
  <2>1. proc.todo # <<>> /\ (proc' = Done(proc) \/ proc' = NoProcess)
    <3>1. CASE CheckDeclared \/ CheckDeployed \/ CheckToken
      BY Zenon, <3>1 DEF CheckDeclared, CheckDeployed, CheckToken, ExitUnless, Ends, Raise, At
    <3>2. CASE Declare \/ DumpDeclarations \/ DeployEoa \/ DumpEvm \/ Teardown
      BY Zenon, <3>2 DEF Declare, DumpDeclarations, DeployEoa, DumpEvm, Teardown, Raise, Ends, At
    <3> QED BY <1>12, <3>1, <3>2
  <2> QED BY <2>1, DoneFields
<1>13. CASE Finish \/ Crash
  BY <1>13 DEF Finish, Crash, Ends
<1>14. CASE Build \/ ResetChain
  BY <1>14 DEF Build, ResetChain, TInv
<1>15. CASE \E script \in Scripts : Start(script)
  BY ZenonT(30), <1>15
<1> QED BY <1>2, <1>3, <1>4, <1>5, <1>6, <1>7, <1>8, <1>9, <1>10, <1>11, <1>12, <1>13, <1>14, <1>15
        DEF Next, Run

\* How the chain is changed.
LEMMA ChainBy ==
  ASSUME TInv, GInv, [Next]_vars
  PROVE  \/ UNCHANGED chain
         \/ ResetChain
         \/ Declare /\ chain' = [chain EXCEPT !.declared = @ \cup {<<Subject, build[Subject]>>}]
         \/ \E calls \in Seq(Calls) :
              /\ chain' \in Outcomes(calls)
              /\ \/ (Execute \/ CreatePool) /\ calls = proc.queue
                 \/ SetCoinbase /\ calls = << Call("set_coinbase", Kakarot, proc.evm["Coinbase"].address) >>
                 \/ \A i \in DOMAIN calls : calls[i].op # "set_coinbase" /\ ~Instantiates(calls[i])
         \/ /\ DeployEvm /\ KakarotAnswers
            /\ chain' = [chain EXCEPT !.core[Kakarot].contracts = @ \cup {NewContract}]
         \/ /\ Send /\ KakarotAnswers
            /\ \E created \in {{Subject}} \cup (IF MayRevert THEN {{}} ELSE {}) :
                 chain' = [chain EXCEPT !.core[Kakarot].sent = @ \cup {Subject},
                                        !.core[Kakarot].created = @ \cup created]
<1>1. proc \in Processes /\ proc.queue \in Seq(Calls) /\ chain \in Chains
  BY Zenon DEF TInv, Processes
<1>2. CASE Execute \/ CreatePool
  BY ZenonT(30), <1>1, <1>2 DEF Execute, CreatePool
<1>3. CASE FundStep \/ AuthorizeCaller \/ WhitelistStep
  <2>1. CASE Raise
    BY <2>1 DEF Raise
  <2>2. CASE ~Raise
    <3>1. PICK calls \in Seq(Calls) : /\ Invoke(Done(proc), calls)
                                     /\ \A i \in DOMAIN calls :
                                          calls[i].op \in {"fund", "authorize_caller", "authorize"}
      BY <1>3, <2>2, InvokesDo
    <3>2. chain' = chain \/ chain' \in Outcomes(calls)
      BY <3>1 DEF Invoke
    <3>3. \A i \in DOMAIN calls : calls[i].op # "set_coinbase" /\ ~Instantiates(calls[i])
      BY Zenon, <3>1 DEF Instantiates
    <3> QED BY <3>2, <3>3
  <2> QED BY <2>1, <2>2
<1>4. CASE SetCoinbase
  <2>1. proc.todo # <<>> /\ Head(proc.todo).kind = "set_coinbase"
    BY <1>4, HeadAt DEF SetCoinbase
  <2>2. Opened /\ Kakarot \in Nat /\ proc.evm["Coinbase"].address \in Nat
    BY <2>1, HeadFacts, KakarotType, EvmType DEF Preliminary, UsingKakarot
  <2> DEFINE c == Call("set_coinbase", Kakarot, proc.evm["Coinbase"].address)
  <2>3. c \in Calls /\ Invoke(Done(proc), << c >>)
    BY <1>4, <2>2, CallType DEF SetCoinbase
  <2> HIDE DEF c
  <2>4. << c >> \in Seq(Calls)
    BY <2>3
  <2>5. chain' = chain \/ chain' \in Outcomes(<< c >>)
    BY <2>3 DEF Invoke
  <2> QED BY <1>4, <2>4, <2>5 DEF c
<1>5. CASE DeployEoa
  <2>1. proc.todo # <<>> /\ Head(proc.todo).kind = "eoa"
    BY <1>5, HeadAt DEF DeployEoa
  <2>2. Opened /\ Kakarot \in Nat /\ Subject \in Subjects
    BY <2>1, HeadFacts, KakarotType DEF Preliminary, UsingKakarot
  <2> DEFINE c == Call("deploy_eoa", Kakarot, Subject)
  <2>3. c \in Calls /\ (UNCHANGED chain \/ chain' \in Outcomes(<< c >>))
    BY <1>5, <2>2, CallType DEF DeployEoa, Raise
  <2>4. c.op = "deploy_eoa"
    BY CallFields
  <2> HIDE DEF c
  <2>5. << c >> \in Seq(Calls) /\ \A i \in DOMAIN << c >> : << c >>[i] = c
    BY <2>3
  <2>6. \A i \in DOMAIN << c >> : << c >>[i].op # "set_coinbase" /\ ~Instantiates(<< c >>[i])
    BY Zenon, <2>4, <2>5 DEF Instantiates
  <2> QED BY <2>3, <2>5, <2>6
<1>6. CASE DeployEvm
  BY ZenonT(30), <1>6 DEF DeployEvm, Raise, NewContract
<1>7. CASE Send
  BY <1>7 DEF Send, Raise
<1>8. CASE Token
  <2> DEFINE long == (Deploys("token") \o << Do("authorize_caller") >>) \o << Do("check_token") >>
             p == [proc EXCEPT !.todo = long \o Tail(proc.todo), !.token = fresh]
             c == Call("deploy", fresh, "StarknetToken")
  <2>1. UNCHANGED chain \/ Invoke(p, << c >>)
    BY <1>8 DEF Token, Raise
  <2>2. c \in Calls
    BY <1>8, TokenCall
  <2>3. c.op = "deploy" /\ c.arg = "StarknetToken"
    BY CallFields
  <2> HIDE DEF p, c
  <2>4. << c >> \in Seq(Calls) /\ \A i \in DOMAIN << c >> : << c >>[i] = c
    BY <2>2
  <2>5. \A i \in DOMAIN << c >> : << c >>[i].op # "set_coinbase" /\ ~Instantiates(<< c >>[i])
    BY <2>3, <2>4 DEF Instantiates
  <2>6. chain' = chain \/ chain' \in Outcomes(<< c >>)
    BY <2>1 DEF Invoke
  <2> QED BY <2>4, <2>5, <2>6
<1>9. CASE Declare
  BY <1>9 DEF Declare
<1>10. CASE ResetChain
  BY <1>10
<1>11. CASE \/ RegisterLazyAccount \/ RemoveLazyAccount \/ CheckDeclared \/ CheckDeployed
            \/ DumpDeclarations \/ DeployStarknetContracts \/ DeployOrUpgradeKakarot
            \/ LoadEvm \/ DumpEvm \/ Weth \/ Coinbase \/ CheckToken \/ Sender \/ Teardown \/ Finish
            \/ Crash \/ Build \/ (\E script \in Scripts : Start(script)) \/ UNCHANGED vars
  <2>1. UNCHANGED chain
    BY ZenonT(60), <1>11 DEF RegisterLazyAccount, RemoveLazyAccount, CheckDeclared, CheckDeployed, ExitUnless,
       DumpDeclarations, DeployStarknetContracts, DeployOrUpgradeKakarot, LoadEvm, DumpEvm, Weth,
       Coinbase, CheckToken, Sender, Teardown, Finish, Crash, Build, Start, Raise, vars
  <2> QED BY Zenon, <2>1
<1> QED BY <1>2, <1>3, <1>4, <1>5, <1>6, <1>7, <1>8, <1>9, <1>10, <1>11 DEF Next, Run

LEMMA ChainKept ==
  ASSUME TInv, GInv, [Next]_vars, ~ResetChain
  PROVE  Kept(chain, chain')
<1>1. chain \in Chains
  BY DEF TInv
<1>2. CASE UNCHANGED chain
  BY <1>2, KeptSame
<1>3. CASE chain' = [chain EXCEPT !.declared = @ \cup {<<Subject, build[Subject]>>}]
  <2>1. /\ chain'.declared = chain.declared \cup {<<Subject, build[Subject]>>}
        /\ chain'.code = chain.code /\ chain'.core = chain.core
    BY <1>1, <1>3 DEF Chains
  <2> QED BY <2>1 DEF Kept
<1>4. CASE \E calls \in Seq(Calls) : chain' \in Outcomes(calls)
  BY <1>4, OutcomeType, GrownKept
<1>5. CASE /\ KakarotAnswers
           /\ chain' = [chain EXCEPT !.core[Kakarot].contracts = @ \cup {NewContract}]
  <2>1. /\ chain'.declared = chain.declared /\ chain'.code = chain.code
        /\ DOMAIN chain'.core = DOMAIN chain.core
        /\ chain'.core[Kakarot] = [Core EXCEPT !.contracts = Core.contracts \cup {NewContract}]
        /\ \A j \in DOMAIN chain.core : j # Kakarot => chain'.core[j] = chain.core[j]
    BY <1>5, Created
  <2>2. Core \in CoreState
    BY <1>5, KakarotType
  <2>3. /\ chain'.core[Kakarot].contracts = Core.contracts \cup {NewContract}
        /\ chain'.core[Kakarot].sent = Core.sent /\ chain'.core[Kakarot].created = Core.created
        /\ chain'.core[Kakarot].eoas = Core.eoas /\ chain'.core[Kakarot].funded = Core.funded
        /\ chain'.core[Kakarot].authorized = Core.authorized
        /\ chain'.core[Kakarot].callers = Core.callers
    BY <2>1, <2>2 DEF CoreState
  <2> QED BY <2>1, <2>3 DEF Kept, Core
<1>6. CASE /\ Send /\ KakarotAnswers
           /\ \E created \in {{Subject}, {}} :
                chain' = [chain EXCEPT !.core[Kakarot].sent = @ \cup {Subject},
                                       !.core[Kakarot].created = @ \cup created]
  <2>1. Subject \in Subjects
    BY <1>6, HeadAt, HeadFacts DEF Send
  <2>2. PICK created \in {{Subject}, {}} :
          chain' = [chain EXCEPT !.core[Kakarot].sent = @ \cup {Subject},
                                 !.core[Kakarot].created = @ \cup created]
    BY <1>6
  <2>3. created \in SUBSET Subjects
    BY <2>1
  <2>4. /\ chain'.declared = chain.declared /\ chain'.code = chain.code
        /\ DOMAIN chain'.core = DOMAIN chain.core
        /\ chain'.core[Kakarot] = [Core EXCEPT !.sent = Core.sent \cup {Subject},
                                               !.created = Core.created \cup created]
        /\ \A j \in DOMAIN chain.core : j # Kakarot => chain'.core[j] = chain.core[j]
    BY <1>6, <2>1, <2>2, <2>3, SentType
  <2>5. Core \in CoreState
    BY <1>6, KakarotType
  <2>6. /\ chain'.core[Kakarot].contracts = Core.contracts
        /\ chain'.core[Kakarot].sent = Core.sent \cup {Subject}
        /\ chain'.core[Kakarot].created = Core.created \cup created
        /\ chain'.core[Kakarot].eoas = Core.eoas /\ chain'.core[Kakarot].funded = Core.funded
        /\ chain'.core[Kakarot].authorized = Core.authorized
        /\ chain'.core[Kakarot].callers = Core.callers
    BY <2>4, <2>5 DEF CoreState
  <2> QED BY <2>4, <2>6 DEF Kept, Core
<1> QED BY <1>2, <1>3, <1>4, <1>5, <1>6, ChainBy

\* The steps that are put in the place of x.
Inserts(x, t) ==
  \/ x.kind = "weth" /\ t = Deploys("WETH9")
  \/ x.kind = "coinbase" /\ t = Deploys("Coinbase") \o << Do("set_coinbase") >>
  \/ x.kind = "token" /\ t = Deploys("token") \o << Do("authorize_caller") >>
  \/ x.kind = "token" /\ t = (Deploys("token") \o << Do("authorize_caller") >>) \o << Do("check_token") >>
  \/ x.kind = "sender" /\ t = DeployAndFund(x.of)

\* What a step does to the list.
LEMMA TodoChanges ==
  ASSUME TInv, GInv, [Next]_vars
  PROVE  \/ proc' = NoProcess
         \/ \E script \in Scripts : Start(script)
         \/ (CreatePool \/ UNCHANGED vars) /\ proc'.todo = proc.todo
         \/ proc.todo # <<>> /\ proc'.todo = Tail(proc.todo)
         \/ /\ proc.todo # <<>>
            /\ \E t : Inserts(Head(proc.todo), t) /\ proc'.todo = t \o Tail(proc.todo)
<1>1. proc \in Processes /\ proc.todo \in Seq(Steps)
  BY DEF TInv, Processes
<1>2. CASE Execute
  <2>1. proc.todo # <<>> /\ proc' = [Done(proc) EXCEPT !.queue = <<>>]
    BY <1>2 DEF Execute, At
  <2>2. Done(proc) \in Processes /\ Done(proc).todo = Tail(proc.todo)
    BY <2>1, DoneFields
  <2> QED BY <2>1, <2>2 DEF Processes
<1>3. CASE RegisterLazyAccount \/ RemoveLazyAccount
  <2>1. proc.todo # <<>> /\ \E v : proc' = [Done(proc) EXCEPT !.lazy = v]
    BY <1>3 DEF RegisterLazyAccount, RemoveLazyAccount, At
  <2>2. Done(proc) \in Processes /\ Done(proc).todo = Tail(proc.todo)
    BY <2>1, DoneFields
  <2> QED BY <2>1, <2>2 DEF Processes
<1>4. CASE DeployStarknetContracts \/ DeployOrUpgradeKakarot
  <2>1. /\ proc.todo # <<>>
        /\ \/ proc' = Done(proc)
           \/ proc' = NoProcess
           \/ \E q : proc' = [Done(proc) EXCEPT !.queue = q]
    BY <1>4 DEF DeployStarknetContracts, DeployOrUpgradeKakarot, At, Ends
  <2>2. Done(proc) \in Processes /\ Done(proc).todo = Tail(proc.todo)
    BY <2>1, DoneFields
  <2> QED BY <2>1, <2>2 DEF Processes
<1>5. CASE CreatePool \/ UNCHANGED vars
  BY <1>1, <1>5 DEF CreatePool, Processes, vars
<1>6. CASE FundStep \/ AuthorizeCaller \/ WhitelistStep
  <2>1. CASE Raise
    BY <2>1 DEF Raise, Ends
  <2>2. CASE ~Raise
    <3>1. proc.todo # <<>> /\ \E calls \in Seq(Calls) : Invoke(Done(proc), calls)
      BY <1>6, <2>2, InvokesDo
    <3>2. Done(proc) \in Processes /\ Done(proc).todo = Tail(proc.todo)
      BY <3>1, DoneFields
    <3>3. proc'.todo = Tail(proc.todo)
      BY <3>1, <3>2, InvokeType
    <3> QED BY <3>1, <3>3
  <2> QED BY <2>1, <2>2
<1>7. CASE SetCoinbase
  <2>1. proc.todo # <<>> /\ Head(proc.todo).kind = "set_coinbase"
    BY <1>7, HeadAt DEF SetCoinbase
  <2>2. Opened /\ Kakarot \in Nat /\ proc.evm["Coinbase"].address \in Nat
    BY <2>1, HeadFacts, KakarotType, EvmType DEF Preliminary, UsingKakarot
  <2> DEFINE c == Call("set_coinbase", Kakarot, proc.evm["Coinbase"].address)
  <2>3. c \in Calls /\ Invoke(Done(proc), << c >>)
    BY <1>7, <2>2, CallType DEF SetCoinbase
  <2> HIDE DEF c
  <2>4. << c >> \in Seq(Calls) /\ Done(proc) \in Processes /\ Done(proc).todo = Tail(proc.todo)
    BY <2>1, <2>3, DoneFields
  <2>5. proc'.todo = Tail(proc.todo)
    BY <2>3, <2>4, InvokeType
  <2> QED BY <2>1, <2>5
<1>8. CASE DeployEvm \/ LoadEvm \/ Send
  <2>1. /\ proc.todo # <<>>
        /\ proc' = NoProcess \/ \E evm : proc' = [Done(proc) EXCEPT !.evm = evm]
    BY <1>8 DEF DeployEvm, LoadEvm, Send, At, Raise, Ends
  <2>2. Done(proc) \in Processes /\ Done(proc).todo = Tail(proc.todo)
    BY <2>1, DoneFields
  <2> QED BY <2>1, <2>2 DEF Processes
<1>9. CASE Weth \/ Coinbase
  <2>1. proc.todo # <<>> /\ Head(proc.todo).kind \in {"weth", "coinbase"}
    BY <1>9, HeadAt DEF Weth, Coinbase
  <2>2. Tail(proc.todo) = <<>> \o Tail(proc.todo)
    BY <1>1, <2>1
  <2>3. CASE Raise
    BY <2>3 DEF Raise, Ends
  <2>4. CASE ~Raise
    <3> DEFINE rest == Tail(proc.todo)
    <3>1. \/ proc' = [proc EXCEPT !.todo = <<>> \o rest]
          \/ Weth /\ proc' = [proc EXCEPT !.todo = Deploys("WETH9") \o rest]
          \/ Coinbase /\ proc' = [proc EXCEPT !.todo = (Deploys("Coinbase") \o << Do("set_coinbase") >>) \o rest]
      BY <1>9, <2>4 DEF Weth, Coinbase
    <3>2. CASE proc' = [proc EXCEPT !.todo = <<>> \o rest]
      <4>1. proc'.todo = Tail(proc.todo)
        BY <1>1, <2>2, <3>2 DEF Processes
      <4> QED BY <2>1, <4>1
    <3>3. CASE Weth /\ proc' = [proc EXCEPT !.todo = Deploys("WETH9") \o rest]
      <4>1. proc'.todo = Deploys("WETH9") \o rest /\ Head(proc.todo).kind = "weth"
        BY <1>1, <3>3, HeadAt DEF Processes, Weth
      <4> QED BY <2>1, <4>1 DEF Inserts
    <3>4. CASE /\ Coinbase
               /\ proc' = [proc EXCEPT !.todo = (Deploys("Coinbase") \o << Do("set_coinbase") >>) \o rest]
      <4> DEFINE t == Deploys("Coinbase") \o << Do("set_coinbase") >>
      <4>1. proc'.todo = t \o rest /\ Head(proc.todo).kind = "coinbase"
        <5> HIDE DEF t
        <5> QED BY <1>1, <3>4, HeadAt DEF Processes, Coinbase, t
      <4>2. Inserts(Head(proc.todo), t)
        BY <4>1 DEF Inserts
      <4> QED BY <2>1, <4>1, <4>2
    <3> QED BY <3>1, <3>2, <3>3, <3>4
  <2> QED BY <2>3, <2>4
<1>10. CASE Token
  <2>1. proc.todo # <<>> /\ Head(proc.todo).kind = "token"
    BY <1>10, HeadAt DEF Token
  <2> DEFINE deploy == Deploys("token") \o << Do("authorize_caller") >>
             long == (Deploys("token") \o << Do("authorize_caller") >>) \o << Do("check_token") >>
             p == [proc EXCEPT !.todo = long \o Tail(proc.todo), !.token = fresh]
             c == Call("deploy", fresh, "StarknetToken")
  <2>2. \/ Raise
        \/ proc' = Done(proc)
        \/ proc' = [proc EXCEPT !.todo = deploy \o Tail(proc.todo)]
        \/ Invoke(p, << c >>)
    BY <1>10 DEF Token
  <2>3. Inserts(Head(proc.todo), deploy) /\ Inserts(Head(proc.todo), long)
    BY <2>1 DEF Inserts
  <2>4. CASE Raise
    BY <2>4 DEF Raise, Ends
  <2>5. CASE proc' = Done(proc)
    BY <2>1, <2>5, DoneFields
  <2>6. CASE proc' = [proc EXCEPT !.todo = deploy \o Tail(proc.todo)]
    <3> HIDE DEF deploy
    <3>1. proc'.todo = deploy \o Tail(proc.todo)
      BY <1>1, <2>6 DEF Processes
    <3> QED BY <2>1, <2>3, <3>1
  <2>7. CASE Invoke(p, << c >>)
    <3>1. p \in Processes /\ c \in Calls /\ p.todo = long \o Tail(proc.todo)
      BY <1>10, TokenCall
    <3> HIDE DEF p, c, long
    <3>2. << c >> \in Seq(Calls)
      BY <3>1
    <3>3. proc'.todo = long \o Tail(proc.todo)
      BY <2>7, <3>1, <3>2, InvokeType
    <3> QED BY <2>1, <2>3, <3>3
  <2> QED BY <2>2, <2>4, <2>5, <2>6, <2>7
<1>11. CASE Sender
  <2>1. proc.todo # <<>> /\ Head(proc.todo).kind = "sender"
    BY <1>11, HeadAt DEF Sender
  <2> DEFINE t == DeployAndFund(Subject)
  <2>2. \/ Raise
        \/ \E w : proc' = [Done(proc) EXCEPT !.should = w]
        \/ \E w : proc' = [proc EXCEPT !.todo = t \o Tail(proc.todo), !.should = w]
    BY <1>11 DEF Sender
  <2>3. Inserts(Head(proc.todo), t)
    BY <2>1 DEF Inserts, Subject
  <2> HIDE DEF t
  <2>4. CASE Raise
    BY <2>4 DEF Raise, Ends
  <2>5. CASE \E w : proc' = [Done(proc) EXCEPT !.should = w]
    <3>1. Done(proc) \in Processes /\ Done(proc).todo = Tail(proc.todo)
      BY <2>1, DoneFields
    <3> QED BY <2>1, <2>5, <3>1 DEF Processes
  <2>6. CASE \E w : proc' = [proc EXCEPT !.todo = t \o Tail(proc.todo), !.should = w]
    <3>1. proc'.todo = t \o Tail(proc.todo)
      BY <1>1, <2>6 DEF Processes
    <3> QED BY <2>1, <2>3, <3>1
  <2> QED BY <2>2, <2>4, <2>5, <2>6
<1>12. CASE \/ CheckDeclared \/ CheckDeployed \/ Declare \/ DumpDeclarations \/ DeployEoa \/ DumpEvm
            \/ CheckToken \/ Teardown
  <2>1. proc.todo # <<>> /\ (proc' = Done(proc) \/ proc' = NoProcess)
    <3>1. CASE CheckDeclared \/ CheckDeployed \/ CheckToken
      BY Zenon, <3>1 DEF CheckDeclared, CheckDeployed, CheckToken, ExitUnless, Ends, Raise, At
    <3>2. CASE Declare \/ DumpDeclarations \/ DeployEoa \/ DumpEvm \/ Teardown
      BY Zenon, <3>2 DEF Declare, DumpDeclarations, DeployEoa, DumpEvm, Teardown, Raise, Ends, At
    <3> QED BY <1>12, <3>1, <3>2
  <2> QED BY <2>1, DoneFields
<1>13. CASE Finish \/ Crash
  BY <1>13 DEF Finish, Crash, Ends
<1>14. CASE Build \/ ResetChain
  BY <1>14 DEF Build, ResetChain, TInv
<1>15. CASE \E script \in Scripts : Start(script)
  BY <1>15
<1> QED BY <1>2, <1>3, <1>4, <1>5, <1>6, <1>7, <1>8, <1>9, <1>10, <1>11, <1>12, <1>13, <1>14, <1>15
        DEF Next, Run

\* The address of Kakarot changes in one step only.
LEMMA KakarotStays ==
  ASSUME TInv, GInv, [Next]_vars, ~DeployOrUpgradeKakarot
  PROVE  /\ Recorded("kakarot")' <=> Recorded("kakarot")
         /\ Recorded("kakarot") => Kakarot' = Kakarot
<1>1. CASE files'.starknet = files.starknet
  BY <1>1 DEF Recorded, Kakarot
<1>2. CASE DeployStarknetContracts
  <2>1. UNCHANGED files \/ \E a, b : files' = [files EXCEPT !.starknet =
                                                With(With(files.starknet, "EVM", a), "Counter", b)]
    <3>1. CASE Network = "prod"
      BY <1>2, <3>1 DEF DeployStarknetContracts
    <3>2. CASE Network # "prod"
      <4> DEFINE addr(i) == IF Skips(Fixtures[i]) THEN files.starknet[Fixtures[i]] ELSE fresh + i
      <4>1. files' = [files EXCEPT !.starknet = With(With(@, Fixtures[1], addr(1)), Fixtures[2], addr(2))]
        BY Zenon, <1>2, <3>2 DEF DeployStarknetContracts
      <4>2. Fixtures[1] = "EVM" /\ Fixtures[2] = "Counter"
        BY DEF Fixtures
      <4> HIDE DEF addr
      <4> QED BY <4>1, <4>2
    <3> QED BY <3>1, <3>2
  <2>2. CASE UNCHANGED files
    BY <2>2 DEF Recorded, Kakarot
  <2>3. ASSUME NEW a, NEW b,
               files' = [files EXCEPT !.starknet = With(With(files.starknet, "EVM", a), "Counter", b)]
        PROVE  /\ Recorded("kakarot")' <=> Recorded("kakarot")
               /\ Recorded("kakarot") => Kakarot' = Kakarot
    <3>1. files'.starknet = With(With(files.starknet, "EVM", a), "Counter", b)
      BY <2>3 DEF TInv
    <3>2. /\ "kakarot" \in DOMAIN files'.starknet <=> "kakarot" \in DOMAIN files.starknet
          /\ "kakarot" \in DOMAIN files.starknet =>
               files'.starknet["kakarot"] = files.starknet["kakarot"]
      BY <3>1 DEF With
    <3> QED BY <3>2 DEF Recorded, Kakarot
  <2> QED BY <2>1, <2>2, <2>3
<1> QED BY <1>1, <1>2, FieldsKept

LEMMA AnswersStill ==
  ASSUME TInv, GInv, [Next]_vars, ~DeployOrUpgradeKakarot, ~ResetChain, KakarotAnswers
  PROVE  KakarotAnswers' /\ Kakarot' = Kakarot /\ Kept(chain, chain')
BY KakarotStays, ChainKept DEF KakarotAnswers, Kept

-----------------------------------------------------------------------------
(***************************************************************************)
(* The programs, for claims about the order of their steps.                 *)
(***************************************************************************)
\* The kinds of steps in the parts of the programs.
LEMMA BlockKinds ==
  /\ \A i \in DOMAIN DeployAndFund(EvmDeployer) : DeployAndFund(EvmDeployer)[i].kind \in {"fund", "eoa"}
  /\ \A i \in DOMAIN DeployEvmContracts :
       DeployEvmContracts[i].kind \in {"load_evm", "weth", "coinbase", "fund", "dump_evm"}
  /\ \A i \in DOMAIN DeployDualVmTokens :
       DeployDualVmTokens[i].kind \in {"remove", "load_evm", "token", "dump_evm", "register"}
  /\ \A i \in DOMAIN SendTransactions : SendTransactions[i].kind \in {"load_evm", "send", "dump_evm"}
  /\ \A i \in DOMAIN DeclareContracts : DeclareContracts[i].kind \in {"declare", "dump_declarations"}
  /\ \A kind \in {"sender", "whitelist", "send"} : \A i \in DOMAIN Each(kind) : Each(kind)[i].kind = kind
<1>1. \A i \in DOMAIN DeployAndFund(EvmDeployer) : DeployAndFund(EvmDeployer)[i].kind \in {"fund", "eoa"}
  BY StepFields DEF DeployAndFund
<1>2. \A i \in DOMAIN DeployEvmContracts :
        DeployEvmContracts[i].kind \in {"load_evm", "weth", "coinbase", "fund", "dump_evm"}
  BY StepFields DEF DeployEvmContracts
<1>3. \A i \in DOMAIN DeployDualVmTokens :
        DeployDualVmTokens[i].kind \in {"remove", "load_evm", "token", "dump_evm", "register"}
  BY StepFields DEF DeployDualVmTokens
<1>4. \A kind \in {"sender", "whitelist", "send"} : \A i \in DOMAIN Each(kind) : Each(kind)[i].kind = kind
  BY EachType, StepFields
<1>5. \A i \in DOMAIN SendTransactions : SendTransactions[i].kind \in {"load_evm", "send", "dump_evm"}
  <2> DEFINE s == << Do("load_evm") >>
             t == Each("send")
             u == << Do("dump_evm") >>
  <2>1. /\ s \in Seq(Steps) /\ t \in Seq(Steps) /\ u \in Seq(Steps)
        /\ \A i \in DOMAIN s : s[i].kind \in {"load_evm", "send", "dump_evm"}
        /\ \A i \in DOMAIN t : t[i].kind \in {"load_evm", "send", "dump_evm"}
        /\ \A i \in DOMAIN u : u[i].kind \in {"load_evm", "send", "dump_evm"}
    <3>1. Do("load_evm") \in Steps /\ Do("dump_evm") \in Steps
      BY DoType DEF Plain, Kinds
    <3>2. t \in Seq(Steps) /\ \A i \in DOMAIN t : t[i].kind \in {"load_evm", "send", "dump_evm"}
      BY <1>4, EachType
    <3>3. /\ s \in Seq(Steps) /\ \A i \in DOMAIN s : s[i].kind \in {"load_evm", "send", "dump_evm"}
          /\ u \in Seq(Steps) /\ \A i \in DOMAIN u : u[i].kind \in {"load_evm", "send", "dump_evm"}
      BY <3>1, StepFields
    <3> QED BY <3>2, <3>3
  <2> HIDE DEF s, t, u
  <2>2. \A i \in DOMAIN ((s \o t) \o u) : ((s \o t) \o u)[i].kind \in {"load_evm", "send", "dump_evm"}
    BY <2>1
  <2> QED BY <2>2 DEF SendTransactions, s, t, u
<1>6. \A i \in DOMAIN DeclareContracts : DeclareContracts[i].kind \in {"declare", "dump_declarations"}
  BY StepFields DEF DeclareContracts, Contracts
<1> QED BY <1>1, <1>2, <1>3, <1>4, <1>5, <1>6

\* A part without steps that matter.
LEMMA WithoutFlow ==
  ASSUME NEW s \in Seq(Steps), NEW K, \A i \in DOMAIN s : s[i].kind \in K,
         NEW at \in SUBSET Of(Kinds \ K), NEW on, NEW off \in SUBSET Of(Kinds \ K), NEW now
  PROVE  Flow(s, at, on, off, now, now)
<1>1. \A i \in DOMAIN s : s[i] \notin at /\ s[i] \notin off
  BY DEF Of
<1> QED BY <1>1, FlowAside

LEMMA MainFlow ==
  ASSUME NEW at, NEW on, NEW off, NEW b0, NEW b1, NEW b2, NEW b3, NEW b4, NEW b5, NEW b6, NEW b7,
         NEW b8, NEW b9, NEW b10,
         Flow(<< Do("register"), Do("starknet"), Do("kakarot"), Do("execute") >>, at, on, off, b0, b1),
         Flow(Each("sender"), at, on, off, b1, b2),
         Flow(DeployAndFund(EvmDeployer), at, on, off, b2, b3),
         Flow(<< Do("execute") >>, at, on, off, b3, b4),
         Flow(DeployEvmContracts, at, on, off, b4, b5),
         Flow(DeployDualVmTokens, at, on, off, b5, b6),
         Flow(Each("whitelist"), at, on, off, b6, b7),
         Flow(<< Do("execute"), Do("remove") >>, at, on, off, b7, b8),
         Flow(SendTransactions, at, on, off, b8, b9),
         Flow(<< Do("teardown") >>, at, on, off, b9, b10)
  PROVE  Flow(Main, at, on, off, b0, b10)
<1> DEFINE s1 == << Do("register"), Do("starknet"), Do("kakarot"), Do("execute") >>
           s2 == s1 \o Each("sender")
           s3 == s2 \o DeployAndFund(EvmDeployer)
           s4 == s3 \o << Do("execute") >>
           s5 == s4 \o DeployEvmContracts
           s6 == s5 \o DeployDualVmTokens
           s7 == s6 \o Each("whitelist")
           s8 == s7 \o << Do("execute"), Do("remove") >>
           s9 == s8 \o SendTransactions
           s10 == s9 \o << Do("teardown") >>
<1>1. Flow(s1, at, on, off, b0, b1)
  OBVIOUS
<1> HIDE DEF s1
<1>2. Flow(s2, at, on, off, b0, b2)
  BY <1>1, FlowConcat
<1> HIDE DEF s2
<1>3. Flow(s3, at, on, off, b0, b3)
  BY <1>2, FlowConcat
<1> HIDE DEF s3
<1>4. Flow(s4, at, on, off, b0, b4)
  BY <1>3, FlowConcat
<1> HIDE DEF s4
<1>5. Flow(s5, at, on, off, b0, b5)
  BY <1>4, FlowConcat
<1> HIDE DEF s5
<1>6. Flow(s6, at, on, off, b0, b6)
  BY <1>5, FlowConcat
<1> HIDE DEF s6
<1>7. Flow(s7, at, on, off, b0, b7)
  BY <1>6, FlowConcat
<1> HIDE DEF s7
<1>8. Flow(s8, at, on, off, b0, b8)
  BY <1>7, FlowConcat
<1> HIDE DEF s8
<1>9. Flow(s9, at, on, off, b0, b9)
  BY <1>8, FlowConcat
<1> HIDE DEF s9
<1>10. Flow(s10, at, on, off, b0, b10)
  BY <1>9, FlowConcat
<1> QED BY <1>10 DEF s1, s2, s3, s4, s5, s6, s7, s8, s9, s10, Main

\* The short parts of the programs.
LEMMA ShortBlocks ==
  /\ << Do("register"), Do("starknet"), Do("kakarot"), Do("execute") >> \in Seq(Steps)
  /\ << Do("execute") >> \in Seq(Steps) /\ << Do("execute"), Do("remove") >> \in Seq(Steps)
  /\ << Do("teardown") >> \in Seq(Steps) /\ << Do("check_deployed") >> \in Seq(Steps)
  /\ << Do("check_deployed"), Do("register") >> \in Seq(Steps) /\ << Do("register") >> \in Seq(Steps)
  /\ StarknetMain \in Seq(Steps) /\ KakarotMain \in Seq(Steps)
  /\ \A i \in DOMAIN << Do("register"), Do("starknet"), Do("kakarot"), Do("execute") >> :
       << Do("register"), Do("starknet"), Do("kakarot"), Do("execute") >>[i].kind
         \in {"register", "starknet", "kakarot", "execute"}
  /\ \A i \in DOMAIN << Do("execute") >> : << Do("execute") >>[i].kind \in {"execute"}
  /\ \A i \in DOMAIN << Do("execute"), Do("remove") >> :
       << Do("execute"), Do("remove") >>[i].kind \in {"execute", "remove"}
  /\ \A i \in DOMAIN << Do("teardown") >> : << Do("teardown") >>[i].kind \in {"teardown"}
  /\ \A i \in DOMAIN << Do("check_deployed") >> : << Do("check_deployed") >>[i].kind \in {"check_deployed"}
  /\ \A i \in DOMAIN << Do("check_deployed"), Do("register") >> :
       << Do("check_deployed"), Do("register") >>[i].kind \in {"check_deployed", "register"}
  /\ \A i \in DOMAIN << Do("register") >> : << Do("register") >>[i].kind \in {"register"}
  /\ \A i \in DOMAIN StarknetMain :
       StarknetMain[i].kind \in {"check_declared", "register", "starknet", "execute", "remove"}
  /\ \A i \in DOMAIN KakarotMain :
       KakarotMain[i].kind \in {"check_declared", "register", "kakarot", "execute", "remove"}
<1>1. \A kind \in Plain : Do(kind) \in Steps /\ Do(kind).kind = kind
  BY DoType, StepFields
<1>2. {"register", "starknet", "kakarot", "execute", "remove", "teardown", "check_deployed",
       "check_declared"} \subseteq Plain
  BY DEF Plain, Kinds
<1>3. /\ << Do("register"), Do("starknet"), Do("kakarot"), Do("execute") >> \in Seq(Steps)
      /\ << Do("execute") >> \in Seq(Steps) /\ << Do("execute"), Do("remove") >> \in Seq(Steps)
      /\ << Do("teardown") >> \in Seq(Steps) /\ << Do("check_deployed") >> \in Seq(Steps)
      /\ << Do("check_deployed"), Do("register") >> \in Seq(Steps) /\ << Do("register") >> \in Seq(Steps)
  BY <1>1, <1>2
<1>4. StarknetMain \in Seq(Steps) /\ KakarotMain \in Seq(Steps)
  BY <1>1, <1>2 DEF StarknetMain, KakarotMain
<1>5. /\ \A i \in DOMAIN << Do("register"), Do("starknet"), Do("kakarot"), Do("execute") >> :
           << Do("register"), Do("starknet"), Do("kakarot"), Do("execute") >>[i].kind
             \in {"register", "starknet", "kakarot", "execute"}
      /\ \A i \in DOMAIN << Do("execute") >> : << Do("execute") >>[i].kind \in {"execute"}
      /\ \A i \in DOMAIN << Do("execute"), Do("remove") >> :
           << Do("execute"), Do("remove") >>[i].kind \in {"execute", "remove"}
      /\ \A i \in DOMAIN << Do("teardown") >> : << Do("teardown") >>[i].kind \in {"teardown"}
      /\ \A i \in DOMAIN << Do("check_deployed") >> : << Do("check_deployed") >>[i].kind \in {"check_deployed"}
      /\ \A i \in DOMAIN << Do("check_deployed"), Do("register") >> :
           << Do("check_deployed"), Do("register") >>[i].kind \in {"check_deployed", "register"}
      /\ \A i \in DOMAIN << Do("register") >> : << Do("register") >>[i].kind \in {"register"}
  BY <1>1, <1>2
<1>6. /\ \A i \in DOMAIN StarknetMain :
           StarknetMain[i].kind \in {"check_declared", "register", "starknet", "execute", "remove"}
      /\ \A i \in DOMAIN KakarotMain :
           KakarotMain[i].kind \in {"check_declared", "register", "kakarot", "execute", "remove"}
  BY <1>1, <1>2 DEF StarknetMain, KakarotMain
<1> QED BY <1>3, <1>4, <1>5, <1>6

\* The parts of the scripts, each with the kinds of its steps.
Made(s, kinds) == s \in Seq(Steps) /\ \A i \in DOMAIN s : s[i].kind \in kinds

\* The parts a script is put together from.
LEMMA BlocksMade ==
  /\ Made(<< Do("register"), Do("starknet"), Do("kakarot"), Do("execute") >>,
          {"register", "starknet", "kakarot", "execute"})
  /\ Made(<< Do("execute") >>, {"execute"})
  /\ Made(<< Do("execute"), Do("remove") >>, {"execute", "remove"})
  /\ Made(<< Do("teardown") >>, {"teardown"})
  /\ Made(<< Do("check_deployed") >>, {"check_deployed"})
  /\ Made(<< Do("check_deployed"), Do("register") >>, {"check_deployed", "register"})
  /\ Made(<< Do("register") >>, {"register"})
  /\ Made(StarknetMain, {"check_declared", "register", "starknet", "execute", "remove"})
  /\ Made(KakarotMain, {"check_declared", "register", "kakarot", "execute", "remove"})
  /\ Made(DeployAndFund(EvmDeployer), {"fund", "eoa"})
  /\ Made(DeployDualVmTokens, {"remove", "load_evm", "token", "dump_evm", "register"})
  /\ Made(SendTransactions, {"load_evm", "send", "dump_evm"})
  /\ Made(DeclareContracts, {"declare", "dump_declarations"})
<1>1. /\ Made(<< Do("register"), Do("starknet"), Do("kakarot"), Do("execute") >>,
              {"register", "starknet", "kakarot", "execute"})
      /\ Made(<< Do("execute") >>, {"execute"})
      /\ Made(<< Do("execute"), Do("remove") >>, {"execute", "remove"})
      /\ Made(<< Do("teardown") >>, {"teardown"})
  BY Zenon, ShortBlocks DEF Made
<1>2. /\ Made(<< Do("check_deployed") >>, {"check_deployed"})
      /\ Made(<< Do("check_deployed"), Do("register") >>, {"check_deployed", "register"})
      /\ Made(<< Do("register") >>, {"register"})
  BY Zenon, ShortBlocks DEF Made
<1>3. /\ Made(StarknetMain, {"check_declared", "register", "starknet", "execute", "remove"})
      /\ Made(KakarotMain, {"check_declared", "register", "kakarot", "execute", "remove"})
  BY Zenon, ShortBlocks DEF Made
<1>4. /\ Made(DeployAndFund(EvmDeployer), {"fund", "eoa"})
      /\ Made(DeployDualVmTokens, {"remove", "load_evm", "token", "dump_evm", "register"})
      /\ Made(SendTransactions, {"load_evm", "send", "dump_evm"})
      /\ Made(DeclareContracts, {"declare", "dump_declarations"})
  BY Zenon, BlockTypes, BlockKinds DEF Made
<1> QED BY <1>1, <1>2, <1>3, <1>4

\* The kinds of steps of the scripts that have no part in a claim.
LEMMA ProgramKinds ==
  /\ \A i \in DOMAIN EvmMain :
       EvmMain[i].kind \in {"check_deployed", "fund", "eoa", "register", "load_evm", "weth", "coinbase",
                            "dump_evm", "execute", "remove"}
  /\ \A i \in DOMAIN DualVmMain :
       DualVmMain[i].kind \in {"check_deployed", "fund", "eoa", "remove", "load_evm", "token", "dump_evm",
                               "register"}
<1> DEFINE a == << Do("check_deployed") >>
           b == DeployAndFund(EvmDeployer)
           c == << Do("register") >>
           d == DeployEvmContracts
           e == << Do("execute"), Do("remove") >>
           f == DeployDualVmTokens
<1>1. /\ a \in Seq(Steps) /\ b \in Seq(Steps) /\ c \in Seq(Steps) /\ d \in Seq(Steps) /\ e \in Seq(Steps)
      /\ f \in Seq(Steps)
  BY ShortBlocks, BlockTypes
<1>2. /\ \A i \in DOMAIN a : a[i].kind \in {"check_deployed"}
      /\ \A i \in DOMAIN b : b[i].kind \in {"fund", "eoa"}
      /\ \A i \in DOMAIN c : c[i].kind \in {"register"}
      /\ \A i \in DOMAIN d : d[i].kind \in {"load_evm", "weth", "coinbase", "fund", "dump_evm"}
      /\ \A i \in DOMAIN e : e[i].kind \in {"execute", "remove"}
      /\ \A i \in DOMAIN f : f[i].kind \in {"remove", "load_evm", "token", "dump_evm", "register"}
  BY ShortBlocks, BlockKinds
<1>3. EvmMain = (((a \o b) \o c) \o d) \o e /\ DualVmMain = (a \o b) \o f
  BY DEF EvmMain, DualVmMain
<1> HIDE DEF a, b, c, d, e, f
<1>4. \A K : \A s, t \in Seq(Steps) :
        (\A i \in DOMAIN s : s[i].kind \in K) /\ (\A i \in DOMAIN t : t[i].kind \in K) =>
          s \o t \in Seq(Steps) /\ \A i \in DOMAIN (s \o t) : (s \o t)[i].kind \in K
  OBVIOUS
<1>5. ASSUME NEW K, {"check_deployed", "fund", "eoa", "register", "load_evm", "weth", "coinbase",
                     "dump_evm", "execute", "remove"} \subseteq K
      PROVE  \A i \in DOMAIN EvmMain : EvmMain[i].kind \in K
  <2>1. /\ \A i \in DOMAIN a : a[i].kind \in K
        /\ \A i \in DOMAIN b : b[i].kind \in K
        /\ \A i \in DOMAIN c : c[i].kind \in K
        /\ \A i \in DOMAIN d : d[i].kind \in K
        /\ \A i \in DOMAIN e : e[i].kind \in K
    BY <1>2, <1>5
  <2>2. a \o b \in Seq(Steps) /\ \A i \in DOMAIN (a \o b) : (a \o b)[i].kind \in K
    BY <1>1, <1>4, <2>1
  <2> DEFINE u == a \o b
  <2> HIDE DEF u
  <2>3. u \o c \in Seq(Steps) /\ \A i \in DOMAIN (u \o c) : (u \o c)[i].kind \in K
    BY <1>1, <1>4, <2>1, <2>2 DEF u
  <2> DEFINE v == u \o c
  <2> HIDE DEF v
  <2>4. v \o d \in Seq(Steps) /\ \A i \in DOMAIN (v \o d) : (v \o d)[i].kind \in K
    BY <1>1, <1>4, <2>1, <2>3 DEF v
  <2> DEFINE w == v \o d
  <2> HIDE DEF w
  <2>5. \A i \in DOMAIN (w \o e) : (w \o e)[i].kind \in K
    BY <1>1, <1>4, <2>1, <2>4 DEF w
  <2> QED BY <1>3, <2>5 DEF u, v, w
<1>6. ASSUME NEW K, {"check_deployed", "fund", "eoa", "remove", "load_evm", "token", "dump_evm",
                     "register"} \subseteq K
      PROVE  \A i \in DOMAIN DualVmMain : DualVmMain[i].kind \in K
  <2>1. /\ \A i \in DOMAIN a : a[i].kind \in K
        /\ \A i \in DOMAIN b : b[i].kind \in K
        /\ \A i \in DOMAIN f : f[i].kind \in K
    BY <1>2, <1>6
  <2>2. a \o b \in Seq(Steps) /\ \A i \in DOMAIN (a \o b) : (a \o b)[i].kind \in K
    BY <1>1, <1>4, <2>1
  <2> DEFINE u == a \o b
  <2> HIDE DEF u
  <2>3. \A i \in DOMAIN (u \o f) : (u \o f)[i].kind \in K
    BY <1>1, <1>4, <2>1, <2>2 DEF u
  <2> QED BY <1>3, <2>3 DEF u
<1> QED BY <1>5, <1>6

-----------------------------------------------------------------------------
(***************************************************************************)
(* What kakarot_deployments.json names is there.  A transaction of          *)
(* PRE_EIP155_TX is noted whether it was sent or skipped: it is skipped     *)
(* when it was sent before, and then its contract exists, unless            *)
(* transactions revert.                                                    *)
(***************************************************************************)
Steady == ~MayRevert /\ ~world.resets

Deployed(ch, evm) ==
  \A n \in DOMAIN evm :
    /\ evm[n].kakarot \in DOMAIN ch.core
    /\ IF n \in Names(PreEip155) THEN n \in ch.core[evm[n].kakarot].created
       ELSE evm[n].address \in ch.core[evm[n].kakarot].contracts

\* The transactions that were sent created their contracts.
Fruitful(ch) == \A k \in DOMAIN ch.core : ch.core[k].sent = ch.core[k].created

\* The process has found out whether the transaction is to be sent.
Known(n) == n \in proc.should \/ (KakarotAnswers /\ n \in Core.sent)

EInv ==
  Steady =>
    /\ Deployed(chain, files.evm) /\ Deployed(chain, proc.evm)
    /\ Fruitful(chain)
    /\ \A n \in Names(PreEip155) :
         Settled(proc.todo, {Step("send", n)}, {Step("sender", n)}, Of({"kakarot"}), Known(n))

LEMMA SendersFirst ==
  ASSUME NEW n \in Names(PreEip155), NEW script \in Scripts, NEW now
  PROVE  Settled(Program(script), {Step("send", n)}, {Step("sender", n)}, Of({"kakarot"}), now)
<1> DEFINE at == {Step("send", n)}
           on == {Step("sender", n)}
           off == Of({"kakarot"})
<1>1. /\ Step("send", n) \in Steps /\ Step("sender", n) \in Steps
      /\ Step("send", n).kind = "send" /\ Step("sender", n).kind = "sender"
  <2>1. n \in Subjects
    BY SubjectsHold
  <2> QED BY <2>1, StepType, StepFields
<1>2. at \in SUBSET Of({"send"}) /\ off \in SUBSET Of({"kakarot"})
  BY <1>1 DEF Of
<1>3. Flow(Each("sender"), at, on, off, FALSE, TRUE)
  <2>1. PICK i \in DOMAIN PreEip155 : PreEip155[i] = n
    BY DEF Names
  <2>2. /\ Each("sender") \in Seq(Steps) /\ i \in DOMAIN Each("sender")
        /\ Each("sender")[i] = Step("sender", n)
        /\ \A j \in DOMAIN Each("sender") : Each("sender")[j].kind = "sender"
    BY <2>1, EachType, BlockKinds
  <2>3. \A j \in DOMAIN Each("sender") : Each("sender")[j] \notin at /\ Each("sender")[j] \notin off
    BY <1>2, <2>2 DEF Of
  <2>4. \A j \in (i + 1)..Len(Each("sender")) : j \in DOMAIN Each("sender")
    BY <2>2
  <2> QED BY <2>2, <2>3, <2>4 DEF Flow, Settled, Leads
<1>4. Flow(SendTransactions, at, on, off, TRUE, FALSE)
  <2>1. /\ SendTransactions \in Seq(Steps)
        /\ \A i \in DOMAIN SendTransactions : SendTransactions[i] \notin off
    BY BlockTypes, BlockKinds DEF Of
  <2>2. \A i \in DOMAIN SendTransactions : \A l \in 1..(i - 1) : l \in DOMAIN SendTransactions
    BY <2>1
  <2> QED BY <2>1, <2>2 DEF Flow, Settled
<1>5. ASSUME NEW s \in Seq(Steps), \A i \in DOMAIN s : s[i].kind \notin {"send"}
      PROVE  Flow(s, at, on, off, FALSE, FALSE)
  BY <1>2, <1>5 DEF Flow, Settled, Of
<1>6. ASSUME NEW s \in Seq(Steps), \A i \in DOMAIN s : s[i].kind \notin {"send", "kakarot"}, NEW now1
      PROVE  Flow(s, at, on, off, now1, now1)
  <2>1. \A i \in DOMAIN s : s[i] \notin at /\ s[i] \notin off
    BY <1>2, <1>6 DEF Of
  <2> QED BY <2>1, FlowAside
<1>7. /\ Flow(<< Do("register"), Do("starknet"), Do("kakarot"), Do("execute") >>, at, on, off, FALSE, FALSE)
      /\ Flow(<< Do("execute") >>, at, on, off, TRUE, TRUE)
      /\ Flow(<< Do("execute"), Do("remove") >>, at, on, off, TRUE, TRUE)
      /\ Flow(<< Do("teardown") >>, at, on, off, FALSE, FALSE)
      /\ Flow(<< Do("check_deployed"), Do("register") >>, at, on, off, FALSE, FALSE)
      /\ Flow(StarknetMain, at, on, off, FALSE, FALSE)
      /\ Flow(KakarotMain, at, on, off, FALSE, FALSE)
  BY <1>5, <1>6, ShortBlocks
<1>8. /\ Flow(DeployAndFund(EvmDeployer), at, on, off, TRUE, TRUE)
      /\ Flow(DeployEvmContracts, at, on, off, TRUE, TRUE)
      /\ Flow(DeployDualVmTokens, at, on, off, TRUE, TRUE)
      /\ Flow(DeclareContracts, at, on, off, FALSE, FALSE)
  BY <1>5, <1>6, BlockTypes, BlockKinds
<1>9. Flow(Each("whitelist"), at, on, off, TRUE, TRUE)
  BY <1>6, EachType, BlockKinds
<1>10. Flow(EvmMain, at, on, off, FALSE, FALSE) /\ Flow(DualVmMain, at, on, off, FALSE, FALSE)
  BY <1>5, ProgramKinds, LongPrograms DEF Entered, Programmed
<1> HIDE DEF at, on, off
<1>11. Flow(Main, at, on, off, FALSE, FALSE)
  BY <1>3, <1>4, <1>7, <1>8, <1>9, MainFlow
<1>12. Flow(DeclareContracts \o Main, at, on, off, FALSE, FALSE)
  BY <1>8, <1>11, FlowConcat
<1>13. Flow(PreEip155Main, at, on, off, FALSE, FALSE)
  <2> DEFINE s1 == << Do("check_deployed"), Do("register") >>
             s2 == s1 \o Each("sender")
             s3 == s2 \o << Do("execute") >>
             s4 == s3 \o Each("whitelist")
             s5 == s4 \o << Do("execute"), Do("remove") >>
             s6 == s5 \o SendTransactions
  <2>1. Flow(s1, at, on, off, FALSE, FALSE)
    BY <1>7
  <2> HIDE DEF s1
  <2>2. Flow(s2, at, on, off, FALSE, TRUE)
    BY <1>3, <2>1, FlowConcat
  <2> HIDE DEF s2
  <2>3. Flow(s3, at, on, off, FALSE, TRUE)
    BY <1>7, <2>2, FlowConcat
  <2> HIDE DEF s3
  <2>4. Flow(s4, at, on, off, FALSE, TRUE)
    BY <1>9, <2>3, FlowConcat
  <2> HIDE DEF s4
  <2>5. Flow(s5, at, on, off, FALSE, TRUE)
    BY <1>7, <2>4, FlowConcat
  <2> HIDE DEF s5
  <2>6. Flow(s6, at, on, off, FALSE, FALSE)
    BY <1>4, <2>5, FlowConcat
  <2> QED BY <2>6 DEF s1, s2, s3, s4, s5, s6, PreEip155Main
<1>14. Flow(Program(script), at, on, off, FALSE, FALSE)
  BY <1>7, <1>10, <1>11, <1>12, <1>13 DEF Program, Scripts
<1>15. Settled(Program(script), at, on, off, FALSE)
  BY <1>14 DEF Flow
<1> QED BY <1>15 DEF Settled, at, on, off

LEMMA FruitfulExecuted ==
  ASSUME chain \in Chains, Fruitful(chain), NEW calls \in Seq(Calls)
  PROVE  Fruitful(Executed(calls))
<1> DEFINE P == {ch \in Chains : Fruitful(ch)}
<1>1. ASSUME NEW ch \in Chains, Fruitful(ch), NEW c \in Calls, Accepts(ch, c)
      PROVE  Effect(ch, c) \in Chains /\ Fruitful(Effect(ch, c))
  <2>1. /\ Effect(ch, c) \in Chains
        /\ DOMAIN Effect(ch, c).core = DOMAIN ch.core \cup (IF Instantiates(c) THEN {c.to} ELSE {})
        /\ \A k \in DOMAIN ch.core : Served(ch.core[k], Effect(ch, c).core[k], k, c)
    BY <1>1, EffectType, EffectFields
  <2>2. \A k \in DOMAIN ch.core : Effect(ch, c).core[k].sent = Effect(ch, c).core[k].created
    BY <1>1, <2>1 DEF Served, Fruitful
  <2>3. Instantiates(c) => Effect(ch, c).core[c.to].sent = Effect(ch, c).core[c.to].created
    <3>1. \A a : NewCore(a).sent = NewCore(a).created
      BY DEF NewCore
    <3> QED BY <1>1, <3>1, EffectNew
  <2> QED BY <2>1, <2>2, <2>3 DEF Fruitful
<1>2. \A ch \in P \cap Chains : \A i \in DOMAIN calls :
        Accepts(ch, calls[i]) => Effect(ch, calls[i]) \in P
  BY <1>1
<1>3. chain \in P
  OBVIOUS
<1> HIDE DEF P
<1>4. Executed(calls) \in P
  BY Zenon, <1>2, <1>3, ExecutedKeeps
<1> QED BY <1>4 DEF P

LEMMA FruitfulKept ==
  ASSUME TInv, GInv, [Next]_vars, Steady, Fruitful(chain)
  PROVE  Fruitful(chain')
<1>1. chain \in Chains
  BY DEF TInv
<1>2. CASE UNCHANGED chain
  BY <1>2
<1>3. CASE chain' = [chain EXCEPT !.declared = @ \cup {<<Subject, build[Subject]>>}]
  <2>1. chain'.core = chain.core
    BY <1>1, <1>3 DEF Chains
  <2> QED BY <2>1 DEF Fruitful
<1>4. CASE \E calls \in Seq(Calls) : chain' \in Outcomes(calls)
  BY <1>1, <1>4, FruitfulExecuted DEF Outcomes
<1>5. CASE /\ KakarotAnswers
           /\ chain' = [chain EXCEPT !.core[Kakarot].contracts = @ \cup {NewContract}]
  <2>1. /\ DOMAIN chain'.core = DOMAIN chain.core
        /\ chain'.core[Kakarot] = [Core EXCEPT !.contracts = Core.contracts \cup {NewContract}]
        /\ \A j \in DOMAIN chain.core : j # Kakarot => chain'.core[j] = chain.core[j]
    BY <1>5, Created
  <2>2. Core \in CoreState /\ Kakarot \in DOMAIN chain.core
    BY <1>5, KakarotType
  <2>3. chain'.core[Kakarot].sent = Core.sent /\ chain'.core[Kakarot].created = Core.created
    BY <2>1, <2>2 DEF CoreState
  <2> QED BY <2>1, <2>2, <2>3 DEF Fruitful, Core
<1>6. CASE /\ Send /\ KakarotAnswers
           /\ chain' = [chain EXCEPT !.core[Kakarot].sent = @ \cup {Subject},
                                     !.core[Kakarot].created = @ \cup {Subject}]
  <2>1. Subject \in Subjects
    BY <1>6, HeadAt, HeadFacts DEF Send
  <2>2. {Subject} \in SUBSET Subjects
    BY ZenonT(30), <2>1
  <2>3. /\ DOMAIN chain'.core = DOMAIN chain.core
        /\ chain'.core[Kakarot] = [Core EXCEPT !.sent = Core.sent \cup {Subject},
                                               !.created = Core.created \cup {Subject}]
        /\ \A j \in DOMAIN chain.core : j # Kakarot => chain'.core[j] = chain.core[j]
    BY <1>6, <2>1, <2>2, SentType
  <2>4. Core \in CoreState /\ Kakarot \in DOMAIN chain.core
    BY <1>6, KakarotType
  <2>5. /\ chain'.core[Kakarot].sent = Core.sent \cup {Subject}
        /\ chain'.core[Kakarot].created = Core.created \cup {Subject}
    BY <2>3, <2>4 DEF CoreState
  <2> QED BY <2>3, <2>4, <2>5 DEF Fruitful, Core
<1>7. ~ResetChain
  BY DEF ResetChain, Steady
<1>8. \A created \in {{Subject}} \cup (IF MayRevert THEN {{}} ELSE {}) : created = {Subject}
  BY DEF Steady
<1> QED BY <1>2, <1>3, <1>4, <1>5, <1>6, <1>7, <1>8, ChainBy

\* What the process has found out stays true.
LEMMA KnownStays ==
  ASSUME TInv, GInv, [Next]_vars, Steady, NEW n \in Names(PreEip155), proc' # NoProcess,
         ~\E script \in Scripts : Start(script)
  PROVE  /\ Known(n) /\ ~DeployOrUpgradeKakarot => Known(n)'
         /\ Sender /\ Subject = n => Known(n)'
<1>1. ~ResetChain
  BY DEF ResetChain, Steady
<1>2. ASSUME Sender
      PROVE  /\ Subject = n => Known(n)'
             /\ Known(n) => Known(n)'
  <2>1. /\ proc.todo # <<>> /\ proc \in Processes
    BY <1>2, HeadAt, HeadFacts DEF Sender
  <2>2. Done(proc) \in Processes /\ Done(proc).should = proc.should
    BY <2>1, DoneFields
  <2>3. CASE KakarotAnswers /\ Subject \in Core.sent
    <3>1. proc' = [Done(proc) EXCEPT !.should = proc.should \ {Subject}] /\ UNCHANGED <<chain, files>>
      BY <1>2, <2>2, <2>3 DEF Sender
    <3>2. proc'.should = proc.should \ {Subject}
      BY <2>2, <3>1 DEF Processes
    <3> QED BY <2>3, <3>1, <3>2 DEF Known, KakarotAnswers, Recorded, Kakarot, Core
  <2>4. CASE ~(KakarotAnswers /\ Subject \in Core.sent)
    <3>1. /\ \E t : proc' = [proc EXCEPT !.todo = t, !.should = proc.should \cup {Subject}]
          /\ UNCHANGED <<chain, files>>
      BY <1>2, <2>4 DEF Sender, Raise, Ends
    <3>2. proc'.should = proc.should \cup {Subject}
      BY <2>1, <3>1 DEF Processes
    <3> QED BY <3>1, <3>2 DEF Known, KakarotAnswers, Recorded, Kakarot, Core
  <2> QED BY <2>3, <2>4
<1>3. ASSUME ~Sender, ~DeployOrUpgradeKakarot, Known(n)
      PROVE  Known(n)'
  <2>1. proc'.should = proc.should
    BY <1>3, ProcessKept
  <2>2. CASE n \in proc.should
    BY <2>1, <2>2 DEF Known
  <2>3. CASE KakarotAnswers /\ n \in Core.sent
    <3>1. KakarotAnswers' /\ Kakarot' = Kakarot /\ Kept(chain, chain')
      BY <1>1, <1>3, <2>3, AnswersStill
    <3>2. n \in chain'.core[Kakarot].sent
      BY <2>3, <3>1 DEF Kept, Core, KakarotAnswers
    <3> QED BY <3>1, <3>2 DEF Known, Core
  <2> QED BY <1>3, <2>2, <2>3 DEF Known
<1> QED BY <1>2, <1>3

\* The steps that are put in front neither send a transaction nor deploy Kakarot.
InsertedKinds == {"eoa", "deploy_evm", "set_coinbase", "authorize_caller", "check_token", "fund"}

LEMMA InsertsKinds ==
  ASSUME TInv, GInv, proc.todo # <<>>, NEW t, Inserts(Head(proc.todo), t)
  PROVE  t \in Seq(Steps) /\ \A i \in DOMAIN t : t[i].kind \in InsertedKinds
<1>1. \A s, u \in Seq(Steps) :
        (\A i \in DOMAIN s : s[i].kind \in InsertedKinds) /\ (\A i \in DOMAIN u : u[i].kind \in InsertedKinds) =>
          s \o u \in Seq(Steps) /\ \A i \in DOMAIN (s \o u) : (s \o u)[i].kind \in InsertedKinds
  OBVIOUS
<1>2. ASSUME NEW kind \in {"set_coinbase", "authorize_caller", "check_token"}
      PROVE  << Do(kind) >> \in Seq(Steps) /\ \A i \in DOMAIN << Do(kind) >> : << Do(kind) >>[i].kind \in InsertedKinds
  <2>1. Do(kind) \in Steps /\ Do(kind).kind = kind
    BY DoType, StepFields DEF Plain, Kinds
  <2> DEFINE x == Do(kind)
  <2>2. x \in Steps /\ x.kind \in InsertedKinds
    BY <2>1 DEF InsertedKinds
  <2> HIDE DEF x
  <2>3. << x >> \in Seq(Steps) /\ \A i \in DOMAIN << x >> : << x >>[i].kind \in InsertedKinds
    BY <2>2
  <2> QED BY <2>3 DEF x
<1>3. ASSUME NEW name \in EvmContracts
      PROVE  Deploys(name) \in Seq(Steps) /\ \A i \in DOMAIN Deploys(name) : Deploys(name)[i].kind \in InsertedKinds
  <2>1. Step("eoa", EvmDeployer) \in Steps /\ Step("deploy_evm", name) \in Steps
    <3>1. EvmDeployer \in Subjects /\ name \in Subjects /\ "eoa" \in Plain
      BY SubjectsHold DEF Plain, Kinds
    <3> QED BY <3>1, StepType
  <2>2. Step("eoa", EvmDeployer).kind \in InsertedKinds /\ Step("deploy_evm", name).kind \in InsertedKinds
    BY StepFields DEF InsertedKinds
  <2> DEFINE x == Step("eoa", EvmDeployer)
             y == Step("deploy_evm", name)
  <2>3. x \in Steps /\ y \in Steps /\ x.kind \in InsertedKinds /\ y.kind \in InsertedKinds
    BY <2>1, <2>2
  <2> HIDE DEF x, y
  <2>4. << x, y >> \in Seq(Steps) /\ \A i \in DOMAIN << x, y >> : << x, y >>[i].kind \in InsertedKinds
    BY <2>3
  <2> QED BY <2>4 DEF x, y, Deploys
<1>4. Head(proc.todo).of \in Subjects
  BY HeadFacts DEF Subject
<1>5. ASSUME NEW who \in Subjects
      PROVE  /\ DeployAndFund(who) \in Seq(Steps)
             /\ \A i \in DOMAIN DeployAndFund(who) : DeployAndFund(who)[i].kind \in InsertedKinds
  <2>1. DeployAndFund(who) \in Seq(Steps)
    BY FundedType
  <2>2. \A i \in DOMAIN DeployAndFund(who) : DeployAndFund(who)[i].kind \in InsertedKinds
    BY StepFields DEF DeployAndFund, InsertedKinds
  <2> QED BY <2>1, <2>2
<1> DEFINE w == Deploys("WETH9")
           c == Deploys("Coinbase")
           d == Deploys("token")
           sc == << Do("set_coinbase") >>
           ac == << Do("authorize_caller") >>
           ct == << Do("check_token") >>
           ok(s) == s \in Seq(Steps) /\ \A i \in DOMAIN s : s[i].kind \in InsertedKinds
<1>6. ok(w) /\ ok(c) /\ ok(d) /\ ok(sc) /\ ok(ac) /\ ok(ct)
  <2>1. ok(w) /\ ok(c) /\ ok(d)
    <3>1. {"WETH9", "Coinbase", "token"} \subseteq EvmContracts
      BY DEF EvmContracts
    <3> QED BY <1>3, <3>1
  <2>2. ok(sc) /\ ok(ac) /\ ok(ct)
    BY <1>2
  <2> QED BY <2>1, <2>2
<1>7. \/ t = w
      \/ t = c \o sc
      \/ t = d \o ac
      \/ t = (d \o ac) \o ct
      \/ t = DeployAndFund(Head(proc.todo).of)
  BY DEF Inserts
<1> HIDE DEF w, c, d, sc, ac, ct
<1>8. ok(c \o sc) /\ ok(d \o ac)
  BY <1>1, <1>6
<1> DEFINE da == d \o ac
<1> HIDE DEF da
<1>9. ok(da \o ct)
  BY <1>1, <1>6, <1>8 DEF da
<1> QED BY <1>4, <1>5, <1>6, <1>7, <1>8, <1>9 DEF da

LEMMA DeployedKept ==
  ASSUME NEW old, NEW new, NEW evm, Kept(old, new), Deployed(old, evm)
  PROVE  Deployed(new, evm)
BY DEF Kept, Deployed

\* A contract that is noted is there.
LEMMA DeployedWith ==
  ASSUME NEW ch, NEW evm, NEW n, NEW v, Deployed(ch, evm), v.kakarot \in DOMAIN ch.core,
         IF n \in Names(PreEip155) THEN n \in ch.core[v.kakarot].created
         ELSE v.address \in ch.core[v.kakarot].contracts
  PROVE  Deployed(ch, With(evm, n, v))
<1>1. /\ DOMAIN With(evm, n, v) = DOMAIN evm \cup {n}
      /\ \A m \in DOMAIN With(evm, n, v) : With(evm, n, v)[m] = IF m = n THEN v ELSE evm[m]
  BY DEF With
<1> QED BY <1>1 DEF Deployed

LEMMA DeployedProc ==
  ASSUME TInv, GInv, EInv, [Next]_vars, Steady
  PROVE  Deployed(chain', proc'.evm)
<1>1. Deployed(chain, files.evm) /\ Deployed(chain, proc.evm) /\ Fruitful(chain)
  BY DEF EInv
<1>2. ~ResetChain
  BY DEF ResetChain, Steady
<1>3. Kept(chain, chain')
  BY <1>2, ChainKept
<1>4. CASE proc' = NoProcess \/ \E script \in Scripts : Start(script)
  <2>1. proc'.evm = Empty
    <3>1. NoProcess.evm = Empty
      BY DEF NoProcess
    <3>2. CASE \E script \in Scripts : Start(script)
      <4>1. PICK script \in Scripts : proc' = [NoProcess EXCEPT !.script = script, !.todo = Program(script)]
        BY <3>2 DEF Start
      <4> HIDE DEF Empty
      <4>2. NoProcess \in Processes
        BY NoProcessType
      <4> QED BY <3>1, <4>1, <4>2 DEF Processes
    <3> QED BY <1>4, <3>1, <3>2
  <2>2. DOMAIN Empty = {}
    BY DEF Empty
  <2> QED BY <2>1, <2>2 DEF Deployed
<1>5. CASE proc'.evm = proc.evm
  BY <1>1, <1>3, <1>5, DeployedKept
<1>6. CASE LoadEvm
  <2>1. proc.todo # <<>>
    BY <1>6, HeadAt DEF LoadEvm
  <2>2. Done(proc) \in Processes /\ proc' = [Done(proc) EXCEPT !.evm = files.evm]
    BY <1>6, <2>1, DoneFields DEF LoadEvm
  <2>3. proc'.evm = files.evm
    BY <2>2 DEF Processes
  <2> QED BY <1>1, <1>3, <2>3, DeployedKept
<1>7. CASE DeployEvm /\ proc' # NoProcess
  <2>1. proc.todo # <<>> /\ Head(proc.todo).kind = "deploy_evm"
    BY <1>7, HeadAt DEF DeployEvm
  <2>2. /\ KakarotAnswers
        /\ chain' = [chain EXCEPT !.core[Kakarot].contracts = @ \cup {NewContract}]
        /\ proc' = [Done(proc) EXCEPT
             !.evm = With(@, Subject, [address |-> NewContract, kakarot |-> Kakarot])]
    BY <1>7 DEF DeployEvm, NewContract, Raise, Ends
  <2>3. Done(proc) \in Processes /\ Done(proc).evm = proc.evm
    BY <2>1, DoneFields
  <2> DEFINE v == [address |-> NewContract, kakarot |-> Kakarot]
  <2>4. proc'.evm = With(proc.evm, Subject, v)
    BY <2>2, <2>3 DEF Processes
  <2>5. /\ DOMAIN chain'.core = DOMAIN chain.core
        /\ chain'.core[Kakarot] = [Core EXCEPT !.contracts = Core.contracts \cup {NewContract}]
    BY <2>2, Created
  <2>6. Core \in CoreState /\ Kakarot \in DOMAIN chain.core
    BY <2>2, KakarotType
  <2>7. NewContract \in chain'.core[Kakarot].contracts /\ Kakarot \in DOMAIN chain'.core
    BY <2>5, <2>6 DEF CoreState
  <2>8. Subject \notin Names(PreEip155)
    <3>1. Head(proc.todo) \in Steps
      BY <2>1, HeadFacts
    <3>2. Subject \in EvmContracts
      BY <2>1, <3>1 DEF Steps, Subject
    <3> QED BY <3>2, NamesApart
  <2>9. Deployed(chain', proc.evm)
    BY <1>1, <1>3, DeployedKept
  <2>10. v.address = NewContract /\ v.kakarot = Kakarot
    OBVIOUS
  <2> HIDE DEF v
  <2>11. Deployed(chain', With(proc.evm, Subject, v))
    BY ZenonT(30), <2>7, <2>8, <2>9, <2>10, DeployedWith
  <2> QED BY <2>4, <2>11
<1>8. CASE Send /\ proc' # NoProcess
  <2>1. proc.todo # <<>> /\ Head(proc.todo).kind = "send"
    BY <1>8, HeadAt DEF Send
  <2>2. /\ proc.todo[1] \in Steps /\ proc.todo[1].kind = "send" /\ proc.todo[1].of = Subject
        /\ 1 \in DOMAIN proc.todo
    BY <2>1, HeadFacts DEF Subject
  <2>3. Subject \in Names(PreEip155) /\ proc.todo[1] = Step("send", Subject)
    BY <2>2 DEF Steps, Step
  <2>4. Known(Subject)
    <3>1. Settled(proc.todo, {Step("send", Subject)}, {Step("sender", Subject)}, Of({"kakarot"}),
                  Known(Subject))
      BY <2>3 DEF EInv
    <3>2. 1..(1 - 1) = {}
      OBVIOUS
    <3>3. proc.todo[1] \in {Step("send", Subject)}
      BY ZenonT(30), <2>3
    <3> QED BY <2>2, <3>1, <3>2, <3>3 DEF Settled
  <2> DEFINE v == [address |-> Unset, kakarot |-> Kakarot]
  <2>5. /\ KakarotAnswers
        /\ proc' = [Done(proc) EXCEPT !.evm = With(@, Subject, v)]
        /\ \/ Subject \notin proc.should
           \/ \E created \in {{Subject}} \cup (IF MayRevert THEN {{}} ELSE {}) :
                chain' = [chain EXCEPT !.core[Kakarot].sent = @ \cup {Subject},
                                       !.core[Kakarot].created = @ \cup created]
    BY <1>8 DEF Send, Raise, Ends
  <2>6. Done(proc) \in Processes /\ Done(proc).evm = proc.evm
    BY Zenon, <2>1, DoneFields
  <2>7. proc'.evm = With(proc.evm, Subject, v)
    <3> HIDE DEF v
    <3> QED BY Zenon, <2>5, <2>6 DEF Processes
  <2>8. Core \in CoreState /\ Kakarot \in DOMAIN chain.core
    BY ZenonT(30), <2>5, KakarotType
  <2>9. Kakarot \in DOMAIN chain'.core /\ Subject \in chain'.core[Kakarot].created
    <3>1. CASE Subject \notin proc.should
      <4>1. Subject \in Core.created
        BY <1>1, <2>4, <2>8, <3>1 DEF Known, Fruitful, Core
      <4> QED BY <1>3, <2>8, <4>1 DEF Kept, Core
    <3>2. CASE chain' = [chain EXCEPT !.core[Kakarot].sent = @ \cup {Subject},
                                      !.core[Kakarot].created = @ \cup {Subject}]
      <4>1. Subject \in Subjects /\ {Subject} \in SUBSET Subjects
        BY ZenonT(30), <2>1, HeadFacts
      <4>2. /\ DOMAIN chain'.core = DOMAIN chain.core
            /\ chain'.core[Kakarot] = [Core EXCEPT !.sent = Core.sent \cup {Subject},
                                                   !.created = Core.created \cup {Subject}]
        BY <2>5, <3>2, <4>1, SentType
      <4> QED BY <2>8, <4>2 DEF CoreState
    <3>3. \A created \in {{Subject}} \cup (IF MayRevert THEN {{}} ELSE {}) : created = {Subject}
      BY DEF Steady
    <3> QED BY <2>5, <3>1, <3>2, <3>3
  <2>10. Deployed(chain', proc.evm)
    BY <1>1, <1>3, DeployedKept
  <2>11. v.kakarot = Kakarot
    OBVIOUS
  <2> HIDE DEF v
  <2>12. Deployed(chain', With(proc.evm, Subject, v))
    BY <2>3, <2>9, <2>10, <2>11, DeployedWith
  <2> QED BY <2>7, <2>12
<1> QED BY <1>4, <1>5, <1>6, <1>7, <1>8, ProcessKept

LEMMA DeployedFiles ==
  ASSUME TInv, GInv, EInv, [Next]_vars, Steady
  PROVE  Deployed(chain', files'.evm)
<1>1. Deployed(chain, files.evm) /\ Deployed(chain, proc.evm)
  BY DEF EInv
<1>2. ~ResetChain
  BY DEF ResetChain, Steady
<1>3. Kept(chain, chain')
  BY <1>2, ChainKept
<1>4. CASE files'.evm = files.evm
  BY <1>1, <1>3, <1>4, DeployedKept
<1>5. CASE DumpEvm
  <2>1. files'.evm = proc.evm
    BY <1>5 DEF DumpEvm, TInv
  <2> QED BY <1>1, <1>3, <2>1, DeployedKept
<1> QED BY <1>4, <1>5, FieldsKept

\* The order of the steps that send the transactions is kept.
LEMMA SendersStay ==
  ASSUME TInv, GInv, EInv, [Next]_vars, Steady, NEW n \in Names(PreEip155)
  PROVE  Settled(proc.todo, {Step("send", n)}, {Step("sender", n)}, Of({"kakarot"}), Known(n))'
<1> DEFINE at == {Step("send", n)}
           on == {Step("sender", n)}
           off == Of({"kakarot"})
           then == Known(n)'
<1> SUFFICES Settled(proc'.todo, at, on, off, then)
  BY DEF Settled
<1>1. Settled(proc.todo, at, on, off, Known(n))
  BY DEF EInv
<1>2. CASE proc' = NoProcess
  <2>1. proc'.todo = <<>>
    BY <1>2 DEF NoProcess
  <2> QED BY <2>1 DEF Settled
<1>3. CASE \E script \in Scripts : Start(script)
  <2>1. PICK script \in Scripts : Start(script)
    BY <1>3
  <2>2. proc'.todo = Program(script)
    BY <2>1 DEF Start, NoProcess
  <2> HIDE DEF then
  <2> QED BY <2>2, SendersFirst
<1>4. CASE proc' # NoProcess /\ ~\E script \in Scripts : Start(script)
  <2>1. /\ Known(n) /\ ~DeployOrUpgradeKakarot => then
        /\ Sender /\ Subject = n => then
    BY <1>4, KnownStays
  <2> HIDE DEF then
  <2>2. CASE (CreatePool \/ UNCHANGED vars) /\ proc'.todo = proc.todo
    <3>1. CASE ~DeployOrUpgradeKakarot
      <4>1. Known(n) => then
        BY <2>1, <3>1
      <4> HIDE DEF at, on, off
      <4> QED BY <1>1, <2>2, <4>1 DEF Settled
    <3>2. CASE DeployOrUpgradeKakarot
      <4>1. proc'.todo = Tail(proc.todo) \/ proc' = NoProcess
        <5>1. /\ proc.todo # <<>>
              /\ \/ proc' = NoProcess
                 \/ \E q : proc' = [Done(proc) EXCEPT !.queue = q]
          BY <3>2 DEF DeployOrUpgradeKakarot, At, Ends
        <5>2. Done(proc) \in Processes /\ Done(proc).todo = Tail(proc.todo)
          BY <5>1, DoneFields
        <5> QED BY <5>1, <5>2 DEF Processes
      <4>2. proc.todo # <<>> /\ proc.todo \in Seq(Steps)
        BY <3>2, HeadAt, HeadFacts DEF DeployOrUpgradeKakarot
      <4>3. Len(Tail(proc.todo)) # Len(proc.todo)
        BY <4>2
      <4> QED BY <1>4, <2>2, <4>1, <4>3
    <3> QED BY <3>1, <3>2
  <2>3. ASSUME proc.todo # <<>>, ~CreatePool, ~UNCHANGED vars
        PROVE  /\ proc.todo[1] \in on => then
               /\ Known(n) /\ proc.todo[1] \notin off => then
    <3>1. ~Crash
      BY <1>4 DEF Crash, Ends
    <3>2. /\ Head(proc.todo).kind = "sender" => Sender
          /\ Head(proc.todo) = proc.todo[1] /\ Head(proc.todo) \in Steps
      BY <2>3, <3>1, HeadTells, HeadFacts
    <3>3. proc.todo[1] \in on => Sender /\ Subject = n
      BY <3>2, StepFields DEF Subject
    <3>4. proc.todo[1] \notin off => ~DeployOrUpgradeKakarot
      BY <3>2, StepAt, HeadAt DEF Of
    <3> QED BY <2>1, <3>3, <3>4
  <2>4. proc.todo \in Seq(Steps)
    BY DEF TInv, Processes
  <2>5. CASE proc.todo # <<>> /\ proc'.todo = Tail(proc.todo)
    <3>1. proc'.todo # proc.todo
      <4>1. Len(Tail(proc.todo)) # Len(proc.todo)
        BY <2>4, <2>5
      <4> QED BY <2>5, <4>1
    <3>2. ~CreatePool /\ ~UNCHANGED vars
      BY <3>1 DEF CreatePool, vars, TInv, Processes
    <3> HIDE DEF at, on, off
    <3> QED BY <1>1, <2>3, <2>4, <2>5, <3>2, SettledTail
  <2>6. CASE /\ proc.todo # <<>>
             /\ \E t : Inserts(Head(proc.todo), t) /\ proc'.todo = t \o Tail(proc.todo)
    <3>1. PICK t : Inserts(Head(proc.todo), t) /\ proc'.todo = t \o Tail(proc.todo)
      BY <2>6
    <3>2. t \in Seq(Steps) /\ \A i \in DOMAIN t : t[i].kind \in InsertedKinds
      BY <2>6, <3>1, InsertsKinds
    <3>3. CASE CreatePool \/ UNCHANGED vars
      <4>1. proc'.todo = proc.todo
        BY <3>3 DEF CreatePool, vars, TInv, Processes
      <4> QED BY <2>2, <3>3, <4>1
    <3>4. CASE ~CreatePool /\ ~UNCHANGED vars
      <4>1. \A i \in DOMAIN t : t[i] \notin at /\ t[i] \notin off
        BY <3>2, StepFields DEF Of, InsertedKinds
      <4> HIDE DEF at, on, off
      <4>2. Flow(t, at, on, off, then, then)
        BY <3>2, <4>1, FlowAside
      <4>3. Settled(t \o Tail(proc.todo), at, on, off, then)
        BY <1>1, <2>3, <2>4, <2>6, <3>4, <4>2, SettledInsert
      <4> QED BY <3>1, <4>3
    <3> QED BY <3>3, <3>4
  <2> QED BY <1>4, <2>2, <2>5, <2>6, TodoChanges
<1> QED BY <1>2, <1>3, <1>4

LEMMA EKeeps ==
  ASSUME TInv, GInv, EInv, [Next]_vars
  PROVE  EInv'
<1>1. Steady' => Steady
  BY FieldsKept DEF Steady, MayRevert
<1>2. ASSUME Steady
      PROVE  /\ Deployed(chain, files.evm)' /\ Deployed(chain, proc.evm)' /\ Fruitful(chain)'
             /\ \A n \in Names(PreEip155) :
                  Settled(proc.todo, {Step("send", n)}, {Step("sender", n)}, Of({"kakarot"}), Known(n))'
  <2>1. Deployed(chain', files'.evm) /\ Deployed(chain', proc'.evm)
    BY <1>2, DeployedFiles, DeployedProc
  <2>2. Fruitful(chain')
    BY <1>2, FruitfulKept DEF EInv
  <2>3. \A n \in Names(PreEip155) :
          Settled(proc.todo, {Step("send", n)}, {Step("sender", n)}, Of({"kakarot"}), Known(n))'
    BY <1>2, SendersStay
  <2> QED BY <2>1, <2>2, <2>3 DEF Deployed, Fruitful
<1> QED BY <1>1, <1>2 DEF EInv

LEMMA EInitially ==
  ASSUME Init
  PROVE  EInv
<1>1. /\ proc.todo = <<>> /\ proc.evm = Empty /\ files.evm = Empty /\ chain.core = Empty
  BY DEF Init, NoProcess, EmptyChain
<1>2. DOMAIN Empty = {}
  BY DEF Empty
<1>3. \A n \in Names(PreEip155) :
        Settled(proc.todo, {Step("send", n)}, {Step("sender", n)}, Of({"kakarot"}), Known(n))
  BY <1>1 DEF Settled
<1> QED BY <1>1, <1>2, <1>3 DEF EInv, Deployed, Fruitful

\* A contract that kakarot_deployments.json names exists in the Kakarot instance it was
\* recorded for, whatever run is killed at whatever step, as long as no transaction reverts and
\* the chain is not restarted: a name is noted after its transaction, and a transaction of
\* PRE_EIP155_TX is skipped only when it was sent before (kakarot_deployment.py).
THEOREM RecordedEvmIsDeployedHolds == Spec => []RecordedEvmIsDeployed
<1>1. Init => TInv /\ GInv /\ EInv
  BY Initially, EInitially
<1>2. (TInv /\ GInv /\ EInv) /\ [Next]_vars => (TInv /\ GInv /\ EInv)'
  BY StepKeeps, EKeeps
<1>3. EInv => RecordedEvmIsDeployed
  BY DEF EInv, Steady, Deployed, RecordedEvmIsDeployed
<1> QED BY <1>1, <1>2, <1>3, PTL DEF Spec

-----------------------------------------------------------------------------
(***************************************************************************)
(* The calls of the queue, and the addresses that are used once            *)
(***************************************************************************)
LEMMA NamesConcat ==
  ASSUME NEW s \in Seq(Calls), NEW t \in Seq(Calls)
  PROVE  Names(s \o t) = Names(s) \cup Names(t)
<1> DEFINE u == s \o t
<1>1. /\ DOMAIN u = 1..(Len(s) + Len(t)) /\ DOMAIN s = 1..Len(s) /\ DOMAIN t = 1..Len(t)
      /\ Len(s) \in Nat /\ Len(t) \in Nat
      /\ \A i \in DOMAIN s : u[i] = s[i]
      /\ \A i \in DOMAIN t : u[i + Len(s)] = t[i]
  OBVIOUS
<1> HIDE DEF u
<1>2. \A i \in DOMAIN s : i \in DOMAIN u
  BY <1>1
<1>3. \A i \in DOMAIN t : i + Len(s) \in DOMAIN u
  BY <1>1
<1>4. \A i \in DOMAIN u : i \in DOMAIN s \/ (i - Len(s) \in DOMAIN t /\ (i - Len(s)) + Len(s) = i)
  BY <1>1
<1>5. Names(s) \subseteq Names(u) /\ Names(t) \subseteq Names(u)
  BY <1>1, <1>2, <1>3 DEF Names
<1>6. ASSUME NEW c \in Names(u)
      PROVE  c \in Names(s) \/ c \in Names(t)
  <2>1. PICK i \in DOMAIN u : c = u[i]
    BY DEF Names
  <2>2. c = s[i] \/ c = t[i - Len(s)]
    BY <1>1, <1>4, <2>1
  <2> QED BY <1>1, <1>4, <2>1, <2>2 DEF Names
<1> QED BY <1>5, <1>6 DEF u

LEMMA NamesFew ==
  /\ Names(<<>>) = {}
  /\ \A c : Names(<< c >>) = {c}
  /\ \A b, c : Names(<< b, c >>) = {b, c}
BY DEF Names

\* The call deploys no instance of Kakarot and sets no coinbase.
Aside(c) == ~Instantiates(c) /\ c.op # "set_coinbase"

\* A call that the present step may add to the queue.
Added(c) ==
  /\ Instantiates(c) => DeployOrUpgradeKakarot /\ c.to = fresh
  /\ c.op = "set_coinbase" => \/ DeployOrUpgradeKakarot /\ c.arg = Deployer
                              \/ SetCoinbase /\ c.arg = proc.evm["Coinbase"].address

LEMMA QueuedStarknet ==
  ASSUME TInv, GInv, DeployStarknetContracts
  PROVE  \A c \in Names(proc'.queue) : c \in Names(proc.queue) \/ Aside(c)
<1>1. proc.todo # <<>> /\ Head(proc.todo).kind = "starknet"
  BY HeadAt DEF DeployStarknetContracts
<1>2. Opened /\ Done(proc) \in Processes /\ Done(proc).queue = proc.queue
  BY <1>1, HeadFacts, DoneFields DEF Preliminary
<1>3. CASE Network = "prod"
  BY <1>2, <1>3 DEF DeployStarknetContracts
<1>4. CASE Network # "prod"
  <2> DEFINE addr(i) == IF Skips(Fixtures[i]) THEN files.starknet[Fixtures[i]] ELSE fresh + i
             deploy(i) == IF Skips(Fixtures[i]) THEN <<>>
                          ELSE <<Call("deploy", addr(i), Fixtures[i])>>
             coinbase == IF addr(1) \in chain.evmCoinbase THEN <<>>
                         ELSE <<Call("set_evm_coinbase", addr(1), Deployer)>>
  <2>1. proc' = [Done(proc) EXCEPT !.queue = proc.queue \o deploy(1) \o deploy(2) \o coinbase]
    BY <1>2, <1>4 DEF DeployStarknetContracts
  <2>2. \A i \in 1..2 : deploy(i) \in Seq(Calls) /\ \A c \in Names(deploy(i)) : Aside(c)
    <3> SUFFICES ASSUME NEW i \in 1..2 PROVE deploy(i) \in Seq(Calls) /\ \A c \in Names(deploy(i)) : Aside(c)
      OBVIOUS
    <3>1. fresh \in Nat /\ (Skips(Fixtures[i]) => files.starknet[Fixtures[i]] \in 2..fresh)
      BY RecordedType
    <3>2. addr(i) \in Nat /\ Fixtures[i] \in Classes /\ Fixtures[i] # "kakarot"
      BY <3>1 DEF Fixtures, Classes
    <3> HIDE DEF addr
    <3> DEFINE c == Call("deploy", addr(i), Fixtures[i])
    <3>3. c \in Calls /\ Aside(c)
      BY <1>2, <3>2, CallType, CallFields DEF Instantiates, Aside
    <3> HIDE DEF c
    <3>4. << c >> \in Seq(Calls) /\ << >> \in Seq(Calls)
      BY <3>3
    <3> QED BY <3>3, <3>4, NamesFew DEF c
  <2>3. coinbase \in Seq(Calls) /\ \A c \in Names(coinbase) : Aside(c)
    <3>1. fresh \in Nat /\ (Skips(Fixtures[1]) => files.starknet[Fixtures[1]] \in 2..fresh)
      BY RecordedType
    <3>2. addr(1) \in Nat
      BY <3>1
    <3> HIDE DEF addr
    <3> DEFINE c == Call("set_evm_coinbase", addr(1), Deployer)
    <3>3. c \in Calls /\ Aside(c)
      BY <1>2, <3>2, CallType, CallFields DEF Instantiates, Deployer, Aside
    <3> HIDE DEF c
    <3>4. << c >> \in Seq(Calls) /\ << >> \in Seq(Calls)
      BY <3>3
    <3> QED BY <3>3, <3>4, NamesFew DEF c
  <2> DEFINE q == proc.queue
             d1 == deploy(1)
             d2 == deploy(2)
             q1 == q \o d1
             q2 == q1 \o d2
             q3 == q2 \o coinbase
  <2>4. /\ q \in Seq(Calls)
        /\ d1 \in Seq(Calls) /\ (\A c \in Names(d1) : Aside(c))
        /\ d2 \in Seq(Calls) /\ (\A c \in Names(d2) : Aside(c))
    BY SMTT(60), <2>2 DEF TInv, Processes
  <2>5. proc'.queue = q3
    <3> HIDE DEF deploy, coinbase, addr
    <3> QED BY <1>2, <2>1 DEF Processes
  <2> HIDE DEF deploy, coinbase, addr, q, d1, d2, q1, q2, q3
  <2>6. q1 \in Seq(Calls) /\ Names(q1) = Names(q) \cup Names(d1)
    BY <2>4, NamesConcat DEF q1
  <2>7. q2 \in Seq(Calls) /\ Names(q2) = Names(q1) \cup Names(d2)
    BY <2>4, <2>6, NamesConcat DEF q2
  <2>8. Names(q3) = Names(q2) \cup Names(coinbase)
    BY <2>3, <2>7, NamesConcat DEF q3
  <2> QED BY <2>3, <2>4, <2>5, <2>6, <2>7, <2>8 DEF q
<1> QED BY <1>3, <1>4

LEMMA QueuedKakarot ==
  ASSUME TInv, GInv, DeployOrUpgradeKakarot
  PROVE  \A c \in Names(proc'.queue) :
           \/ c \in Names(proc.queue)
           \/ /\ Instantiates(c) => c.to = fresh
              /\ c.op = "set_coinbase" => c.arg = Deployer
<1> DEFINE ok(c) == /\ Instantiates(c) => c.to = fresh
                    /\ c.op = "set_coinbase" => c.arg = Deployer
<1>1. proc.todo # <<>> /\ Head(proc.todo).kind = "kakarot"
  BY HeadAt DEF DeployOrUpgradeKakarot
<1>2. /\ Opened /\ Done(proc) \in Processes /\ Done(proc).queue = proc.queue /\ proc.queue \in Seq(Calls)
  BY <1>1, HeadFacts, DoneFields DEF Preliminary, TInv, Processes
<1>3. ASSUME NEW calls \in Seq(Calls), \A c \in Names(calls) : ok(c),
             proc' = [Done(proc) EXCEPT !.queue = proc.queue \o calls]
      PROVE  \A c \in Names(proc'.queue) : c \in Names(proc.queue) \/ ok(c)
  <2>1. proc'.queue = proc.queue \o calls
    BY <1>2, <1>3 DEF Processes
  <2> QED BY <1>2, <1>3, <2>1, NamesConcat
<1>4. CASE Recorded("kakarot") /\ Network # "dev" /\ Exists(Kakarot)
  <2>1. proc' = [Done(proc) EXCEPT !.queue = proc.queue \o Upgrade]
    BY <1>2, <1>4 DEF DeployOrUpgradeKakarot
  <2> DEFINE c1 == Call("upgrade", Kakarot, 0)
             c2 == Call("set_account_class", Kakarot, 0)
  <2>2. c1 \in Calls /\ c2 \in Calls /\ ok(c1) /\ ok(c2)
    BY <1>2, <1>4, KakarotType, CallType, CallFields DEF Instantiates
  <2> HIDE DEF c1, c2, ok
  <2>3. << c1, c2 >> \in Seq(Calls) /\ << >> \in Seq(Calls)
    BY <2>2
  <2>4. Upgrade \in Seq(Calls) /\ \A c \in Names(Upgrade) : ok(c)
    BY <2>2, <2>3, NamesFew DEF Upgrade, c1, c2
  <2>5. \A c \in Names(proc'.queue) : c \in Names(proc.queue) \/ ok(c)
    BY <1>3, <2>1, <2>4
  <2> QED BY <2>5 DEF ok
<1>5. CASE Recorded("kakarot") /\ Network # "dev" /\ ~Exists(Kakarot)
  BY <1>5, NamesFew DEF DeployOrUpgradeKakarot, Ends, NoProcess
<1>6. CASE ~(Recorded("kakarot") /\ Network # "dev")
  <2> DEFINE k == IF Skips("kakarot") THEN Kakarot ELSE fresh
             c0 == Call("deploy", k, "kakarot")
             c1 == Call("set_base_fee", k, 0)
             c2 == Call("set_coinbase", k, Deployer)
             deploys == IF Skips("kakarot") THEN <<>> ELSE << c0 >>
             configure == << c1, c2 >>
             calls == deploys \o configure
  <2>1. proc' = [Done(proc) EXCEPT !.queue = proc.queue \o deploys \o configure]
    BY <1>2, <1>6 DEF DeployOrUpgradeKakarot, Configure
  <2>2. k \in Nat /\ (~Skips("kakarot") => k = fresh)
    <3>1. fresh \in Nat /\ (Skips("kakarot") => Kakarot \in 2..fresh)
      BY RecordedType DEF Kakarot
    <3> QED BY <3>1
  <2> HIDE DEF k
  <2>3. c0 \in Calls /\ c1 \in Calls /\ c2 \in Calls /\ ok(c1) /\ ok(c2) /\ (~Skips("kakarot") => ok(c0))
    <3>1. "kakarot" \in Classes
      BY DEF Classes
    <3> QED BY <1>2, <2>2, <3>1, CallType, CallFields DEF Deployer, Instantiates
  <2> HIDE DEF c0, c1, c2, ok
  <2>4. /\ deploys \in Seq(Calls) /\ (\A c \in Names(deploys) : ok(c))
        /\ configure \in Seq(Calls) /\ (\A c \in Names(configure) : ok(c))
    <3>1. << c0 >> \in Seq(Calls) /\ << >> \in Seq(Calls) /\ << c1, c2 >> \in Seq(Calls)
      BY <2>3
    <3> QED BY <2>3, <3>1, NamesFew
  <2> HIDE DEF deploys, configure
  <2>5. calls \in Seq(Calls) /\ \A c \in Names(calls) : ok(c)
    BY <2>4, NamesConcat
  <2>6. proc.queue \o deploys \o configure = proc.queue \o calls
    BY ZenonT(60), <1>2, <2>4, Queued
  <2> HIDE DEF calls
  <2>7. \A c \in Names(proc'.queue) : c \in Names(proc.queue) \/ ok(c)
    BY <1>3, <2>1, <2>5, <2>6
  <2> QED BY <2>7 DEF ok
<1> QED BY <1>4, <1>5, <1>6

\* A step that invokes leaves the calls that were there and its own.
LEMMA InvokeQueues ==
  ASSUME TInv, NEW p \in Processes, p.queue = proc.queue, NEW calls \in Seq(Calls), Invoke(p, calls)
  PROVE  \A c \in Names(proc'.queue) : c \in Names(proc.queue) \/ c \in Names(calls)
<1>1. proc.queue \in Seq(Calls)
  BY DEF TInv, Processes
<1>2. CASE p.lazy
  <2>1. proc'.queue = proc.queue \o calls
    BY <1>2 DEF Invoke, Processes
  <2> QED BY <1>1, <2>1, NamesConcat
<1>3. CASE ~p.lazy
  BY <1>3 DEF Invoke
<1> QED BY <1>2, <1>3

\* What is in the queue was there, or the step has added it.
LEMMA QueueBy ==
  ASSUME TInv, GInv, [Next]_vars
  PROVE  \A c \in Names(proc'.queue) : c \in Names(proc.queue) \/ Added(c)
<1>1. proc \in Processes
  BY DEF TInv
<1>2. \A c : Aside(c) => Added(c)
  BY DEF Aside, Added
<1>3. CASE proc'.queue = proc.queue
  BY <1>3
<1>4. CASE proc'.queue = <<>>
  BY <1>4, NamesFew
<1>5. CASE proc' = NoProcess \/ \E script \in Scripts : Start(script)
  <2>1. NoProcess.queue = <<>> /\ NoProcess \in Processes
    BY NoProcessType DEF NoProcess
  <2>2. CASE \E script \in Scripts : Start(script)
    <3>1. PICK script \in Scripts : proc' = [NoProcess EXCEPT !.script = script, !.todo = Program(script)]
      BY <2>2 DEF Start
    <3>2. proc'.queue = <<>>
      BY <2>1, <3>1 DEF Processes
    <3> QED BY <1>4, <3>2
  <2> QED BY <1>4, <1>5, <2>1, <2>2
<1>6. CASE Execute \/ CreatePool
  <2>1. CASE Execute
    <3>1. Done(proc) \in Processes /\ proc' = [Done(proc) EXCEPT !.queue = <<>>]
      BY <2>1, HeadAt, DoneFields DEF Execute
    <3>2. proc'.queue = <<>>
      BY <3>1 DEF Processes
    <3> QED BY <1>4, <3>2
  <2>2. CASE CreatePool
    <3>1. proc'.queue = <<>>
      BY <1>1, <2>2 DEF CreatePool, Processes
    <3> QED BY <1>4, <3>1
  <2> QED BY <1>6, <2>1, <2>2
<1>7. CASE DeployStarknetContracts
  BY <1>2, <1>7, QueuedStarknet
<1>8. CASE DeployOrUpgradeKakarot
  BY <1>8, QueuedKakarot DEF Added
<1>9. CASE FundStep \/ AuthorizeCaller \/ WhitelistStep
  <2>1. CASE Raise
    BY <1>5, <2>1 DEF Raise, Ends
  <2>2. CASE ~Raise
    <3>1. PICK calls \in Seq(Calls) :
            /\ Invoke(Done(proc), calls)
            /\ \A i \in DOMAIN calls : calls[i].op \in {"fund", "authorize_caller", "authorize"}
      BY <1>9, <2>2, InvokesDo
    <3>2. \A c \in Names(calls) : Aside(c)
      BY <3>1 DEF Names, Aside, Instantiates
    <3>3. Done(proc) \in Processes /\ Done(proc).queue = proc.queue
      BY <1>9, InvokesDo, DoneFields
    <3> QED BY <1>2, <3>1, <3>2, <3>3, InvokeQueues
  <2> QED BY <2>1, <2>2
<1>10. CASE SetCoinbase
  <2>1. proc.todo # <<>> /\ Head(proc.todo).kind = "set_coinbase"
    BY <1>10, HeadAt DEF SetCoinbase
  <2>2. Opened /\ Kakarot \in Nat /\ proc.evm["Coinbase"].address \in Nat
    BY <2>1, HeadFacts, KakarotType, EvmType DEF Preliminary, UsingKakarot
  <2> DEFINE c == Call("set_coinbase", Kakarot, proc.evm["Coinbase"].address)
  <2>3. c \in Calls /\ Invoke(Done(proc), << c >>) /\ Added(c)
    BY <1>10, <2>2, CallType, CallFields DEF SetCoinbase, Added, Instantiates
  <2> HIDE DEF c
  <2>4. << c >> \in Seq(Calls) /\ Done(proc) \in Processes /\ Done(proc).queue = proc.queue
    BY <2>1, <2>3, DoneFields
  <2>5. \A d \in Names(proc'.queue) : d \in Names(proc.queue) \/ d \in Names(<< c >>)
    BY <2>3, <2>4, InvokeQueues
  <2> QED BY <2>3, <2>5, NamesFew
<1>11. CASE Token
  <2>1. proc.todo # <<>>
    BY <1>11, HeadAt DEF Token
  <2> DEFINE deploy == Deploys("token") \o << Do("authorize_caller") >>
             long == (Deploys("token") \o << Do("authorize_caller") >>) \o << Do("check_token") >>
             p == [proc EXCEPT !.todo = long \o Tail(proc.todo), !.token = fresh]
             c == Call("deploy", fresh, "StarknetToken")
  <2>2. \/ Raise
        \/ proc' = Done(proc)
        \/ proc' = [proc EXCEPT !.todo = deploy \o Tail(proc.todo)]
        \/ Invoke(p, << c >>)
    BY <1>11 DEF Token
  <2>3. CASE Raise
    BY <1>5, <2>3 DEF Raise, Ends
  <2>4. CASE proc' = Done(proc)
    BY <1>3, <2>1, <2>4, DoneFields
  <2>5. CASE proc' = [proc EXCEPT !.todo = deploy \o Tail(proc.todo)]
    <3> HIDE DEF deploy
    <3>1. proc'.queue = proc.queue
      BY <1>1, <2>5 DEF Processes
    <3> QED BY <1>3, <3>1
  <2>6. CASE Invoke(p, << c >>)
    <3>1. p \in Processes /\ c \in Calls /\ p.queue = proc.queue
      BY <1>11, TokenCall
    <3>2. Added(c)
      BY <1>2, CallFields DEF Aside, Instantiates
    <3> HIDE DEF p, c, long
    <3>3. << c >> \in Seq(Calls)
      BY <3>1
    <3>4. \A d \in Names(proc'.queue) : d \in Names(proc.queue) \/ d \in Names(<< c >>)
      BY <2>6, <3>1, <3>3, InvokeQueues
    <3> QED BY <3>2, <3>4, NamesFew
  <2> QED BY <2>2, <2>3, <2>4, <2>5, <2>6
<1>12. CASE \/ RegisterLazyAccount \/ RemoveLazyAccount \/ CheckDeclared \/ CheckDeployed
            \/ Declare \/ DumpDeclarations \/ DeployEoa \/ DeployEvm \/ LoadEvm \/ DumpEvm
            \/ Weth \/ Coinbase \/ CheckToken \/ Sender \/ Send \/ Teardown
  <2>1. proc.todo # <<>>
    BY <1>12, StepAt DEF At
  <2>2. Done(proc) \in Processes /\ Done(proc).queue = proc.queue
    BY Zenon, <2>1, DoneFields
  <2>3. \/ proc' = NoProcess
        \/ proc' = Done(proc)
        \/ \E v : proc' = [Done(proc) EXCEPT !.lazy = v]
        \/ \E v : proc' = [Done(proc) EXCEPT !.evm = v]
        \/ \E v : proc' = [Done(proc) EXCEPT !.should = v]
        \/ \E t : proc' = [proc EXCEPT !.todo = t]
        \/ \E t, v : proc' = [proc EXCEPT !.todo = t, !.should = v]
    BY <1>12 DEF RegisterLazyAccount, RemoveLazyAccount, CheckDeclared, CheckDeployed, ExitUnless, Ends,
       Raise, Declare, DumpDeclarations, DeployEoa, DeployEvm, LoadEvm, DumpEvm, Weth, Coinbase,
       CheckToken, Sender, Send, Teardown
  <2>4. proc' = NoProcess \/ proc'.queue = proc.queue
    BY <1>1, <2>2, <2>3 DEF Processes
  <2> QED BY <1>3, <1>5, <2>4
<1>13. CASE Finish \/ Crash
  BY <1>5, <1>13 DEF Finish, Crash, Ends
<1>14. CASE Build \/ ResetChain \/ UNCHANGED vars
  BY <1>3, <1>14 DEF Build, ResetChain, vars
<1> QED BY <1>5, <1>6, <1>7, <1>8, <1>9, <1>10, <1>11, <1>12, <1>13, <1>14 DEF Next, Run

LEMMA FreshGrows ==
  ASSUME TInv, [Next]_vars
  PROVE  fresh' \in Nat /\ fresh' >= fresh /\ (fresh' > fresh \/ fresh' = fresh)
         /\ (DeployOrUpgradeKakarot /\ proc' # NoProcess => fresh' > fresh \/ UNCHANGED files)
<1>1. fresh \in Nat
  BY DEF TInv
<1>2. CASE DeployStarknetContracts
  <2>1. fresh' = fresh \/ fresh' = fresh + Len(Fixtures) + 1
    BY <1>2 DEF DeployStarknetContracts
  <2>2. Len(Fixtures) = 2
    BY DEF Fixtures
  <2>3. ~DeployOrUpgradeKakarot
    BY <1>2 DEF DeployStarknetContracts, DeployOrUpgradeKakarot, At
  <2> QED BY <1>1, <2>1, <2>2, <2>3
<1>3. CASE DeployOrUpgradeKakarot
  <2>1. \/ fresh' = fresh + 1
        \/ UNCHANGED <<files, fresh>>
    BY <1>3 DEF DeployOrUpgradeKakarot
  <2> QED BY <1>1, <2>1
<1>4. CASE Token
  <2>1. fresh' = fresh \/ fresh' = fresh + 1
    BY <1>4 DEF Token, Raise
  <2>2. ~DeployOrUpgradeKakarot
    BY <1>4 DEF Token, DeployOrUpgradeKakarot, At
  <2> QED BY <1>1, <2>1, <2>2
<1>5. CASE fresh' = fresh /\ ~DeployOrUpgradeKakarot
  BY <1>1, <1>5
<1>6. CASE \/ Execute \/ RegisterLazyAccount \/ RemoveLazyAccount \/ CheckDeclared \/ CheckDeployed
           \/ Declare \/ DumpDeclarations \/ CreatePool \/ FundStep \/ DeployEoa \/ DeployEvm
           \/ LoadEvm \/ DumpEvm \/ Weth \/ Coinbase \/ SetCoinbase \/ AuthorizeCaller \/ CheckToken
           \/ Sender \/ WhitelistStep \/ Send \/ Teardown \/ Finish
           \/ (\E script \in Scripts : Start(script)) \/ Crash \/ Build \/ ResetChain \/ UNCHANGED vars
  <2>1. fresh' = fresh
    BY ZenonT(60), <1>6 DEF Execute, RegisterLazyAccount, RemoveLazyAccount, CheckDeclared, CheckDeployed, ExitUnless,
       Declare, DumpDeclarations, CreatePool, FundStep, DeployEoa, DeployEvm, LoadEvm, DumpEvm, Weth,
       Coinbase, SetCoinbase, AuthorizeCaller, CheckToken, Sender, WhitelistStep, Send, Teardown, Finish,
       Start, Crash, Build, ResetChain, vars, Raise
  <2> QED BY Zenon, <1>3, <1>5, <2>1
<1> QED BY <1>2, <1>3, <1>4, <1>6 DEF Next, Run

\* The instances of Kakarot come from the queue.
LEMMA CoreDomain ==
  ASSUME TInv, GInv, [Next]_vars, NEW k \in DOMAIN chain'.core
  PROVE  \/ k \in DOMAIN chain.core
         \/ \E c \in Names(proc.queue) : Instantiates(c) /\ c.to = k
<1>1. chain \in Chains /\ proc.queue \in Seq(Calls)
  BY DEF TInv, Processes
<1>2. CASE UNCHANGED chain
  BY <1>2
<1>3. CASE ResetChain
  BY <1>3 DEF ResetChain, EmptyChain, Empty
<1>4. CASE chain' = [chain EXCEPT !.declared = @ \cup {<<Subject, build[Subject]>>}]
  <2>1. chain'.core = chain.core
    BY <1>1, <1>4 DEF Chains
  <2> QED BY <2>1
<1>5. ASSUME NEW calls \in Seq(Calls), chain' \in Outcomes(calls)
      PROVE  k \in DOMAIN chain.core \/ \E i \in DOMAIN calls : Instantiates(calls[i]) /\ calls[i].to = k
  <2> SUFFICES ASSUME k \notin DOMAIN chain.core,
                      ~\E i \in DOMAIN calls : Instantiates(calls[i]) /\ calls[i].to = k
               PROVE  FALSE
    OBVIOUS
  <2> DEFINE P == {ch \in Chains : k \notin DOMAIN ch.core}
  <2>1. \A ch \in P \cap Chains : \A i \in DOMAIN calls : Accepts(ch, calls[i]) => Effect(ch, calls[i]) \in P
    <3> SUFFICES ASSUME NEW ch \in P \cap Chains, NEW i \in DOMAIN calls, Accepts(ch, calls[i])
                 PROVE  Effect(ch, calls[i]) \in P
      OBVIOUS
    <3>1. calls[i] \in Calls
      OBVIOUS
    <3>2. /\ Effect(ch, calls[i]) \in Chains
          /\ DOMAIN Effect(ch, calls[i]).core
               = DOMAIN ch.core \cup (IF Instantiates(calls[i]) THEN {calls[i].to} ELSE {})
      BY <3>1, EffectType, EffectFields
    <3> QED BY <3>2
  <2>2. chain \in P
    BY <1>1
  <2> HIDE DEF P
  <2>3. Executed(calls) \in P
    BY <1>1, <2>1, <2>2, ExecutedKeeps
  <2>4. chain' \in P
    BY <1>5, <2>2, <2>3 DEF Outcomes
  <2> QED BY <2>4 DEF P
<1>6. CASE \E calls \in Seq(Calls) :
             /\ chain' \in Outcomes(calls)
             /\ \/ (Execute \/ CreatePool) /\ calls = proc.queue
                \/ SetCoinbase /\ calls = << Call("set_coinbase", Kakarot, proc.evm["Coinbase"].address) >>
                \/ \A i \in DOMAIN calls : calls[i].op # "set_coinbase" /\ ~Instantiates(calls[i])
  <2>1. PICK calls \in Seq(Calls) :
             /\ chain' \in Outcomes(calls)
             /\ \/ (Execute \/ CreatePool) /\ calls = proc.queue
                \/ SetCoinbase /\ calls = << Call("set_coinbase", Kakarot, proc.evm["Coinbase"].address) >>
                \/ \A i \in DOMAIN calls : calls[i].op # "set_coinbase" /\ ~Instantiates(calls[i])
    BY <1>6
  <2>2. k \in DOMAIN chain.core \/ \E i \in DOMAIN calls : Instantiates(calls[i]) /\ calls[i].to = k
    BY <1>5, <2>1
  <2>3. CASE calls = proc.queue
    BY <2>2, <2>3 DEF Names
  <2>4. CASE calls = << Call("set_coinbase", Kakarot, proc.evm["Coinbase"].address) >>
    <3>1. \A i \in DOMAIN calls : ~Instantiates(calls[i])
      BY <2>4, CallFields DEF Instantiates
    <3> QED BY <2>2, <3>1
  <2> QED BY <2>1, <2>2, <2>3, <2>4
<1>7. CASE /\ KakarotAnswers
           /\ chain' = [chain EXCEPT !.core[Kakarot].contracts = @ \cup {NewContract}]
  <2>1. DOMAIN chain'.core = DOMAIN chain.core
    BY <1>7, Created
  <2> QED BY <2>1
<1>8. CASE /\ Send /\ KakarotAnswers
           /\ \E created \in {{Subject}} \cup (IF MayRevert THEN {{}} ELSE {}) :
                chain' = [chain EXCEPT !.core[Kakarot].sent = @ \cup {Subject},
                                       !.core[Kakarot].created = @ \cup created]
  <2>1. Subject \in Subjects
    BY <1>8, HeadAt, HeadFacts DEF Send
  <2>2. PICK created \in {{Subject}, {}} :
          chain' = [chain EXCEPT !.core[Kakarot].sent = @ \cup {Subject},
                                 !.core[Kakarot].created = @ \cup created]
    BY <1>8
  <2>3. created \in SUBSET Subjects
    BY <2>1
  <2>4. DOMAIN chain'.core = DOMAIN chain.core
    BY <1>8, <2>1, <2>2, <2>3, SentType
  <2> QED BY <2>4
<1> QED BY <1>2, <1>3, <1>4, <1>6, <1>7, <1>8, ChainBy

-----------------------------------------------------------------------------
(***************************************************************************)
(* Addresses are used once.  An instance that a restart of the chain took   *)
(* away does not come back at the address that the file has for it.         *)
(***************************************************************************)
Coming(k) == \E c \in Names(proc.queue) : Instantiates(c) /\ c.to = k

\* The instance that the token was recorded for is there, or will not come.
Spent(evm) ==
  "token" \in DOMAIN evm =>
    /\ evm["token"].kakarot < fresh
    /\ evm["token"].kakarot \in DOMAIN chain.core \/ ~Coming(evm["token"].kakarot)

FInv ==
  /\ \A k \in DOMAIN chain.core : k < fresh
  /\ \A c \in Names(proc.queue) : Instantiates(c) => c.to < fresh
  /\ Spent(proc.evm) /\ Spent(files.evm)

LEMMA ComingKept ==
  ASSUME TInv, GInv, [Next]_vars, NEW k \in Nat, k < fresh, Coming(k)'
  PROVE  Coming(k)
<1>1. PICK c \in Names(proc'.queue) : Instantiates(c) /\ c.to = k
  BY DEF Coming
<1>2. c \in Names(proc.queue) \/ c.to = fresh
  BY <1>1, QueueBy DEF Added
<1>3. fresh \in Nat
  BY DEF TInv
<1> QED BY <1>1, <1>2, <1>3 DEF Coming

LEMMA NothingComes ==
  ASSUME TInv, Idle
  PROVE  \A k : ~Coming(k)
BY NamesFew DEF TInv, NoProcess, Coming

\* A record that was there before.
LEMMA SpentKept ==
  ASSUME TInv, GInv, [Next]_vars, NEW evm \in Records, Spent(evm), "token" \in DOMAIN evm
  PROVE  LET k == evm["token"].kakarot
         IN /\ k < fresh' /\ (k \in DOMAIN chain'.core \/ ~Coming(k)')
            /\ k \in DOMAIN chain'.core => k \in DOMAIN chain.core
<1> DEFINE k == evm["token"].kakarot
<1>1. k \in Nat /\ fresh \in Nat /\ fresh' \in Nat /\ fresh' >= fresh
  <2>1. "token" \in EvmContracts
    BY DEF EvmContracts
  <2>2. evm \in [DOMAIN evm -> [address : Nat, kakarot : Nat]]
    <3>1. evm \in Partial(Recordable, [address : Nat, kakarot : Nat])
      BY DEF Records
    <3> QED BY <3>1, PartialDef
  <2> QED BY <2>2, FreshGrows DEF TInv
<1>2. k < fresh /\ (k \in DOMAIN chain.core \/ ~Coming(k))
  BY DEF Spent
<1> HIDE DEF k
<1>3. k < fresh'
  BY <1>1, <1>2
<1>4. Coming(k)' => Coming(k)
  BY <1>1, <1>2, ComingKept
<1>5. k \in DOMAIN chain'.core => k \in DOMAIN chain.core
  BY <1>2, CoreDomain DEF Coming
<1>6. k \in DOMAIN chain'.core \/ ~Coming(k)'
  <2>1. CASE ResetChain
    <3>1. Idle /\ proc' = proc
      BY <2>1 DEF ResetChain
    <3> QED BY <1>4, <3>1, NothingComes
  <2>2. CASE ~ResetChain
    <3>1. DOMAIN chain.core \subseteq DOMAIN chain'.core
      BY <2>2, ChainKept DEF Kept
    <3> QED BY <1>2, <1>4, <3>1
  <2> QED BY <2>1, <2>2
<1> QED BY <1>3, <1>5, <1>6 DEF k

LEMMA EvmRecords ==
  ASSUME TInv
  PROVE  proc.evm \in Records /\ files.evm \in Records
BY DEF TInv, Processes

\* The record of a token that is new.
LEMMA TokenNoted ==
  ASSUME TInv, GInv, [Next]_vars, proc' # NoProcess, ~\E script \in Scripts : Start(script),
         DeployEvm \/ Send
  PROVE  /\ KakarotAnswers /\ Kakarot' = Kakarot /\ proc.todo # <<>>
         /\ \E v : /\ proc'.evm = With(proc.evm, Subject, v) /\ v.kakarot = Kakarot
                   /\ proc' = [Done(proc) EXCEPT !.evm = With(proc.evm, Subject, v)]
         /\ Send => Subject # "token"
         /\ DeployEvm => proc.pool
<1>1. proc.todo # <<>>
  BY ZenonT(30), HeadAt DEF DeployEvm, Send
<1>2. KakarotAnswers /\ \E v : v.kakarot = Kakarot /\ proc' = [Done(proc) EXCEPT !.evm = With(@, Subject, v)]
  BY DEF DeployEvm, Send, Raise, Ends
<1>3. Done(proc) \in Processes /\ Done(proc).evm = proc.evm
  BY <1>1, DoneFields
<1>4. PICK v : v.kakarot = Kakarot /\ proc' = [Done(proc) EXCEPT !.evm = With(@, Subject, v)]
  BY SMTT(30), <1>2
<1>5. proc' = [Done(proc) EXCEPT !.evm = With(proc.evm, Subject, v)]
  BY <1>3, <1>4
<1>6. proc'.evm = With(proc.evm, Subject, v)
  BY <1>3, <1>5 DEF Processes
<1>7. Kakarot' = Kakarot
  <2>1. UNCHANGED files
    BY DEF DeployEvm, Send, Raise
  <2> QED BY Zenon, <2>1 DEF Kakarot
<1>8. Send => Subject # "token"
  <2> SUFFICES ASSUME Send PROVE Subject # "token"
    BY ZenonT(30)
  <2>1. Head(proc.todo) \in Steps /\ Head(proc.todo).kind = "send"
    BY <1>1, HeadAt, HeadFacts DEF Send
  <2>2. Subject \in Names(PreEip155)
    BY <2>1 DEF Steps, Subject
  <2> QED BY <2>2, NamesApart DEF EvmContracts
<1>9. DeployEvm => proc.pool
  BY DEF DeployEvm
<1> QED BY Zenon, <1>1, <1>2, <1>4, <1>5, <1>6, <1>7, <1>8, <1>9

LEMMA FKeeps ==
  ASSUME TInv, GInv, FInv, [Next]_vars
  PROVE  FInv'
<1>1. fresh \in Nat /\ fresh' \in Nat /\ fresh' >= fresh
  BY FreshGrows DEF TInv
<1>2. chain.core \in Partial(Nat, CoreState) /\ proc.queue \in Seq(Calls)
  BY DEF TInv, Chains, Processes
<1>3. DOMAIN chain.core \subseteq Nat /\ \A c \in Names(proc.queue) : c.to \in Nat
  <2>1. DOMAIN chain.core \subseteq Nat
    BY <1>2, PartialDef
  <2>2. \A c \in Names(proc.queue) : c \in Calls
    BY <1>2 DEF Names
  <2> QED BY <2>1, <2>2 DEF Calls
<1>4. \A k \in DOMAIN chain'.core : k < fresh'
  <2> SUFFICES ASSUME NEW k \in DOMAIN chain'.core PROVE k < fresh'
    OBVIOUS
  <2>1. k \in Nat /\ k < fresh
    BY <1>3, CoreDomain DEF FInv
  <2> QED BY <1>1, <2>1
<1>5. \A c \in Names(proc'.queue) : Instantiates(c) => c.to < fresh'
  <2> SUFFICES ASSUME NEW c \in Names(proc'.queue), Instantiates(c) PROVE c.to < fresh'
    OBVIOUS
  <2>1. CASE c \in Names(proc.queue)
    <3>1. c.to \in Nat /\ c.to < fresh
      BY <1>3, <2>1 DEF FInv
    <3> QED BY <1>1, <3>1
  <2>2. CASE DeployOrUpgradeKakarot /\ c.to = fresh /\ c \notin Names(proc.queue)
    <3>1. proc.todo # <<>> /\ Done(proc).queue = proc.queue /\ Done(proc) \in Processes
      BY <2>2, HeadAt, DoneFields DEF DeployOrUpgradeKakarot
    <3>2. CASE fresh' = fresh + 1
      BY <1>1, <2>2, <3>2
    <3>3. CASE proc' = NoProcess
      BY <3>3, NamesFew DEF NoProcess
    <3>4. CASE Recorded("kakarot") /\ proc' = [Done(proc) EXCEPT !.queue = proc.queue \o Upgrade]
      <4>1. Upgrade \in Seq(Calls) /\ \A d \in Names(Upgrade) : ~Instantiates(d)
        <5> DEFINE c1 == Call("upgrade", Kakarot, 0)
                   c2 == Call("set_account_class", Kakarot, 0)
        <5>1. Kakarot \in Nat /\ Opened
          BY <3>4, KakarotType
        <5>2. c1 \in Calls /\ c2 \in Calls /\ ~Instantiates(c1) /\ ~Instantiates(c2)
          BY <5>1, CallType, CallFields DEF Instantiates
        <5> HIDE DEF c1, c2
        <5>3. << c1, c2 >> \in Seq(Calls) /\ << >> \in Seq(Calls)
          BY <5>2
        <5> QED BY <5>2, <5>3, NamesFew DEF Upgrade, c1, c2
      <4>2. proc'.queue = proc.queue \o Upgrade
        BY <3>1, <3>4 DEF Processes
      <4> QED BY <1>2, <2>2, <4>1, <4>2, NamesConcat
    <3>5. \/ fresh' = fresh + 1
          \/ proc' = NoProcess
          \/ Recorded("kakarot") /\ proc' = [Done(proc) EXCEPT !.queue = proc.queue \o Upgrade]
      BY <2>2, <3>1 DEF DeployOrUpgradeKakarot, Ends
    <3> QED BY <3>2, <3>3, <3>4, <3>5
  <2> QED BY <2>1, <2>2, QueueBy DEF Added
<1>6. Spent(files.evm)'
  <2>1. files'.evm = files.evm \/ files'.evm = proc.evm
    BY FieldsKept DEF DumpEvm, TInv
  <2> QED BY <2>1, EvmRecords, SpentKept DEF Spent, FInv
<1>7. Spent(proc.evm)'
  <2>1. CASE proc' = NoProcess
    BY <2>1 DEF NoProcess, Empty, Spent
  <2>2. CASE \E script \in Scripts : Start(script)
    <3>1. proc'.evm = Empty
      <4>1. PICK script \in Scripts : proc' = [NoProcess EXCEPT !.script = script, !.todo = Program(script)]
        BY <2>2 DEF Start
      <4>2. NoProcess \in Processes /\ NoProcess.evm = Empty
        BY NoProcessType DEF NoProcess
      <4> QED BY <4>1, <4>2 DEF Processes
    <3> QED BY <3>1 DEF Empty, Spent
  <2>3. CASE proc'.evm = proc.evm
    BY <2>3, EvmRecords, SpentKept DEF Spent, FInv
  <2>4. CASE LoadEvm
    <3>1. proc.todo # <<>> /\ proc' = [Done(proc) EXCEPT !.evm = files.evm]
      BY <2>4, HeadAt DEF LoadEvm
    <3>2. proc'.evm = files.evm
      BY <3>1, DoneFields DEF Processes
    <3> QED BY <3>2, EvmRecords, SpentKept DEF Spent, FInv
  <2>5. CASE (DeployEvm \/ Send) /\ proc' # NoProcess /\ ~\E script \in Scripts : Start(script)
    <3>1. /\ KakarotAnswers
          /\ \E v : proc'.evm = With(proc.evm, Subject, v) /\ v.kakarot = Kakarot
      BY <2>5, TokenNoted
    <3>2. PICK v : proc'.evm = With(proc.evm, Subject, v) /\ v.kakarot = Kakarot
      BY <3>1
    <3>3. Kakarot \in DOMAIN chain.core /\ Kakarot < fresh
      BY <3>1 DEF KakarotAnswers, FInv
    <3>4. ~ResetChain
      <4>1. proc.todo # <<>>
        BY <2>5, TokenNoted
      <4> QED BY <4>1, HeadFacts DEF ResetChain
    <3>5. Kakarot \in DOMAIN chain'.core /\ Kakarot < fresh'
      <4>1. Kakarot \in Nat
        BY <1>3, <3>3
      <4> QED BY <1>1, <3>3, <3>4, <4>1, ChainKept DEF Kept
    <3>6. CASE Subject = "token"
      <4>1. proc'.evm["token"] = v
        BY <3>2, <3>6 DEF With
      <4> QED BY <3>2, <3>5, <4>1 DEF Spent
    <3>7. CASE Subject # "token"
      <4>1. "token" \in DOMAIN proc'.evm =>
              "token" \in DOMAIN proc.evm /\ proc'.evm["token"] = proc.evm["token"]
        BY <3>2, <3>7 DEF With
      <4> QED BY <4>1, EvmRecords, SpentKept DEF Spent, FInv
    <3> QED BY <3>6, <3>7
  <2> QED BY <2>1, <2>2, <2>3, <2>4, <2>5, ProcessKept
<1> QED BY <1>4, <1>5, <1>6, <1>7 DEF FInv

LEMMA FInitially ==
  ASSUME Init
  PROVE  FInv
<1>1. /\ proc.queue = <<>> /\ proc.evm = Empty /\ files.evm = Empty /\ chain.core = Empty
  BY DEF Init, NoProcess, EmptyChain
<1>2. DOMAIN Empty = {}
  BY DEF Empty
<1> QED BY <1>1, <1>2, NamesFew DEF FInv, Spent

-----------------------------------------------------------------------------
(***************************************************************************)
(* How a claim about the order of the steps is kept                        *)
(***************************************************************************)
\* The process goes on.
Continues == proc' # NoProcess /\ ~\E script \in Scripts : Start(script)

\* It does what its next step is.
Steps1 == Continues /\ proc.todo # <<>> /\ ~CreatePool /\ ~UNCHANGED vars

LEMMA SettledStep ==
  ASSUME TInv, GInv, [Next]_vars, NEW at, NEW on, NEW off, NEW now, NEW then, NEW between,
         Settled(proc.todo, at, on, off, now),
         \A script \in Scripts : Start(script) => Settled(Program(script), at, on, off, then),
         Continues /\ (CreatePool \/ UNCHANGED vars) /\ now => then,
         Steps1 /\ proc'.todo = Tail(proc.todo) =>
           /\ proc.todo[1] \in on => then
           /\ now /\ proc.todo[1] \notin off => then,
         Steps1 =>
           \A t : Inserts(Head(proc.todo), t) /\ proc'.todo = t \o Tail(proc.todo) =>
             /\ proc.todo[1] \in on => between
             /\ now /\ proc.todo[1] \notin off => between
             /\ Flow(t, at, on, off, then, between)
  PROVE  Settled(proc'.todo, at, on, off, then)
<1>1. CASE proc' = NoProcess
  <2>1. proc'.todo = <<>>
    BY <1>1 DEF NoProcess
  <2> QED BY <2>1 DEF Settled
<1>2. CASE \E script \in Scripts : Start(script)
  <2>1. PICK script \in Scripts : Start(script)
    BY <1>2
  <2>2. proc'.todo = Program(script)
    BY <2>1 DEF Start, NoProcess
  <2> QED BY <2>1, <2>2
<1>3. CASE Continues
  <2>1. proc.todo \in Seq(Steps)
    BY DEF TInv, Processes
  <2>2. CASE CreatePool \/ UNCHANGED vars
    <3>1. proc'.todo = proc.todo
      BY <2>2 DEF CreatePool, vars, TInv, Processes
    <3>2. now => then
      BY <1>3, <2>2
    <3> QED BY <3>1, <3>2 DEF Settled
  <2>3. CASE ~(CreatePool \/ UNCHANGED vars)
    <3>1. CASE proc.todo # <<>> /\ proc'.todo = Tail(proc.todo)
      BY <1>3, <2>1, <2>3, <3>1, SettledTail DEF Steps1
    <3>2. CASE /\ proc.todo # <<>>
               /\ \E t : Inserts(Head(proc.todo), t) /\ proc'.todo = t \o Tail(proc.todo)
      <4>1. PICK t : Inserts(Head(proc.todo), t) /\ proc'.todo = t \o Tail(proc.todo)
        BY <3>2
      <4>2. /\ proc.todo[1] \in on => between
            /\ now /\ proc.todo[1] \notin off => between
            /\ Flow(t, at, on, off, then, between)
        BY <1>3, <2>3, <3>2, <4>1 DEF Steps1
      <4>3. Settled(t \o Tail(proc.todo), at, on, off, then)
        BY <2>1, <3>2, <4>2, SettledInsert
      <4> QED BY <4>1, <4>3
    <3> QED BY <1>3, <2>3, <3>1, <3>2, TodoChanges DEF Continues
  <2> QED BY <2>2, <2>3
<1> QED BY <1>1, <1>2, <1>3 DEF Continues

\* What a process does that goes on.
LEMMA NextTells ==
  ASSUME TInv, GInv, [Next]_vars, Steps1
  PROVE
  /\ Head(proc.todo) = proc.todo[1] /\ proc.todo[1] \in Steps /\ proc.todo \in Seq(Steps)
  /\ proc.todo[1].kind = "execute" => Execute
  /\ proc.todo[1].kind = "register" => RegisterLazyAccount
  /\ proc.todo[1].kind = "remove" => RemoveLazyAccount
  /\ proc.todo[1].kind = "starknet" => DeployStarknetContracts
  /\ proc.todo[1].kind = "kakarot" => DeployOrUpgradeKakarot
  /\ proc.todo[1].kind = "fund" => FundStep
  /\ proc.todo[1].kind = "eoa" => DeployEoa
  /\ proc.todo[1].kind = "deploy_evm" => DeployEvm
  /\ proc.todo[1].kind = "load_evm" => LoadEvm
  /\ proc.todo[1].kind = "dump_evm" => DumpEvm
  /\ proc.todo[1].kind = "weth" => Weth
  /\ proc.todo[1].kind = "coinbase" => Coinbase
  /\ proc.todo[1].kind = "set_coinbase" => SetCoinbase
  /\ proc.todo[1].kind = "token" => Token
  /\ proc.todo[1].kind = "authorize_caller" => AuthorizeCaller
  /\ proc.todo[1].kind = "check_token" => CheckToken
  /\ proc.todo[1].kind = "sender" => Sender
  /\ proc.todo[1].kind = "send" => Send
<1>1. proc.todo # <<>> /\ ~CreatePool /\ ~UNCHANGED vars /\ ~Crash
  BY DEF Steps1, Continues, Crash, Ends
<1>2. Head(proc.todo) = proc.todo[1] /\ proc.todo[1] \in Steps /\ proc.todo \in Seq(Steps)
  BY <1>1, HeadFacts
<1> QED BY <1>1, <1>2, HeadTells

\* A part where what matters holds at the start and nothing undoes it.
LEMMA FlowTrue ==
  ASSUME NEW s \in Seq(Steps), NEW at, NEW on, NEW off, NEW now, now,
         \A i \in DOMAIN s : s[i] \notin off
  PROVE  Flow(s, at, on, off, now, now)
<1>1. \A i \in DOMAIN s : \A l \in 1..(i - 1) : l \in DOMAIN s
  OBVIOUS
<1> QED BY <1>1 DEF Flow, Settled, Leads

\* What a part of steps without those of at leads to.
LEMMA FlowLate ==
  ASSUME NEW s \in Seq(Steps), NEW at, NEW on, NEW off, NEW now, NEW then,
         \A i \in DOMAIN s : s[i] \notin at, then => FALSE
  PROVE  Flow(s, at, on, off, now, then)
BY DEF Flow, Settled

LEMMA EvmFlow ==
  ASSUME NEW at, NEW on, NEW off, NEW b0, NEW b1, NEW b2, NEW b3, NEW b4, NEW b5,
         Flow(<< Do("check_deployed") >>, at, on, off, b0, b1),
         Flow(DeployAndFund(EvmDeployer), at, on, off, b1, b2),
         Flow(<< Do("register") >>, at, on, off, b2, b3),
         Flow(DeployEvmContracts, at, on, off, b3, b4),
         Flow(<< Do("execute"), Do("remove") >>, at, on, off, b4, b5)
  PROVE  Flow(EvmMain, at, on, off, b0, b5)
<1> DEFINE s1 == << Do("check_deployed") >>
           s2 == s1 \o DeployAndFund(EvmDeployer)
           s3 == s2 \o << Do("register") >>
           s4 == s3 \o DeployEvmContracts
           s5 == s4 \o << Do("execute"), Do("remove") >>
<1>1. Flow(s1, at, on, off, b0, b1)
  OBVIOUS
<1> HIDE DEF s1
<1>2. Flow(s2, at, on, off, b0, b2)
  BY <1>1, FlowConcat
<1> HIDE DEF s2
<1>3. Flow(s3, at, on, off, b0, b3)
  BY <1>2, FlowConcat
<1> HIDE DEF s3
<1>4. Flow(s4, at, on, off, b0, b4)
  BY <1>3, FlowConcat
<1> HIDE DEF s4
<1>5. Flow(s5, at, on, off, b0, b5)
  BY <1>4, FlowConcat
<1> QED BY <1>5 DEF s1, s2, s3, s4, s5, EvmMain

LEMMA DualVmFlow ==
  ASSUME NEW at, NEW on, NEW off, NEW b0, NEW b1, NEW b2, NEW b3,
         Flow(<< Do("check_deployed") >>, at, on, off, b0, b1),
         Flow(DeployAndFund(EvmDeployer), at, on, off, b1, b2),
         Flow(DeployDualVmTokens, at, on, off, b2, b3)
  PROVE  Flow(DualVmMain, at, on, off, b0, b3)
<1> DEFINE s == << Do("check_deployed") >> \o DeployAndFund(EvmDeployer)
<1>1. Flow(s, at, on, off, b0, b2)
  BY FlowConcat
<1> HIDE DEF s
<1>2. Flow(s \o DeployDualVmTokens, at, on, off, b0, b3)
  BY <1>1, FlowConcat
<1> QED BY <1>2 DEF s, DualVmMain

LEMMA PreEip155Flow ==
  ASSUME NEW at, NEW on, NEW off, NEW b0, NEW b1, NEW b2, NEW b3, NEW b4, NEW b5, NEW b6,
         Flow(<< Do("check_deployed"), Do("register") >>, at, on, off, b0, b1),
         Flow(Each("sender"), at, on, off, b1, b2),
         Flow(<< Do("execute") >>, at, on, off, b2, b3),
         Flow(Each("whitelist"), at, on, off, b3, b4),
         Flow(<< Do("execute"), Do("remove") >>, at, on, off, b4, b5),
         Flow(SendTransactions, at, on, off, b5, b6)
  PROVE  Flow(PreEip155Main, at, on, off, b0, b6)
<1> DEFINE s1 == << Do("check_deployed"), Do("register") >>
           s2 == s1 \o Each("sender")
           s3 == s2 \o << Do("execute") >>
           s4 == s3 \o Each("whitelist")
           s5 == s4 \o << Do("execute"), Do("remove") >>
           s6 == s5 \o SendTransactions
<1>1. Flow(s1, at, on, off, b0, b1)
  OBVIOUS
<1> HIDE DEF s1
<1>2. Flow(s2, at, on, off, b0, b2)
  BY <1>1, FlowConcat
<1> HIDE DEF s2
<1>3. Flow(s3, at, on, off, b0, b3)
  BY <1>2, FlowConcat
<1> HIDE DEF s3
<1>4. Flow(s4, at, on, off, b0, b4)
  BY <1>3, FlowConcat
<1> HIDE DEF s4
<1>5. Flow(s5, at, on, off, b0, b5)
  BY <1>4, FlowConcat
<1> HIDE DEF s5
<1>6. Flow(s6, at, on, off, b0, b6)
  BY <1>5, FlowConcat
<1> QED BY <1>6 DEF s1, s2, s3, s4, s5, s6, PreEip155Main

\* A claim that is about parts in which something is deployed, and holds in each by itself.
LEMMA BlockPrograms ==
  ASSUME NEW script \in Scripts, NEW now, NEW on, NEW off,
         NEW at \in SUBSET Of({"load_evm", "dump_evm", "token", "coinbase", "weth", "send"} \cup Inserted),
         Flow(DeployEvmContracts, at, on, off, FALSE, FALSE),
         Flow(DeployDualVmTokens, at, on, off, FALSE, FALSE),
         Flow(SendTransactions, at, on, off, FALSE, FALSE)
  PROVE  Settled(Program(script), at, on, off, now)
<1> DEFINE K == {"load_evm", "dump_evm", "token", "coinbase", "weth", "send"} \cup Inserted
<1>1. ASSUME NEW s \in Seq(Steps), \A i \in DOMAIN s : s[i].kind \notin K
      PROVE  Flow(s, at, on, off, FALSE, FALSE)
  <2>1. \A i \in DOMAIN s : s[i] \notin at
    BY <1>1 DEF Of
  <2> QED BY <2>1, FlowLate
<1>2. /\ Flow(<< Do("register"), Do("starknet"), Do("kakarot"), Do("execute") >>, at, on, off, FALSE, FALSE)
      /\ Flow(<< Do("execute") >>, at, on, off, FALSE, FALSE)
      /\ Flow(<< Do("execute"), Do("remove") >>, at, on, off, FALSE, FALSE)
      /\ Flow(<< Do("teardown") >>, at, on, off, FALSE, FALSE)
      /\ Flow(<< Do("check_deployed") >>, at, on, off, FALSE, FALSE)
      /\ Flow(<< Do("register") >>, at, on, off, FALSE, FALSE)
      /\ Flow(<< Do("check_deployed"), Do("register") >>, at, on, off, FALSE, FALSE)
      /\ Flow(StarknetMain, at, on, off, FALSE, FALSE)
      /\ Flow(KakarotMain, at, on, off, FALSE, FALSE)
  <2>1. ASSUME NEW s, NEW kinds, Made(s, kinds), kinds \cap K = {}
        PROVE  Flow(s, at, on, off, FALSE, FALSE)
    BY <1>1, <2>1 DEF Made
  <2> QED BY <2>1, BlocksMade DEF Inserted
<1>3. /\ Flow(DeployAndFund(EvmDeployer), at, on, off, FALSE, FALSE)
      /\ Flow(DeclareContracts, at, on, off, FALSE, FALSE)
  BY <1>1, BlockTypes, BlockKinds DEF Inserted
<1>4. Flow(Each("whitelist"), at, on, off, FALSE, FALSE) /\ Flow(Each("sender"), at, on, off, FALSE, FALSE)
  BY ZenonT(60), <1>1, EachType, BlockKinds DEF Inserted
<1>5. Flow(Main, at, on, off, FALSE, FALSE)
  BY <1>2, <1>3, <1>4, MainFlow
<1>6. Flow(DeclareContracts \o Main, at, on, off, FALSE, FALSE)
  BY <1>3, <1>5, FlowConcat
<1>7. /\ Flow(EvmMain, at, on, off, FALSE, FALSE)
      /\ Flow(DualVmMain, at, on, off, FALSE, FALSE)
      /\ Flow(PreEip155Main, at, on, off, FALSE, FALSE)
  BY <1>2, <1>3, <1>4, EvmFlow, DualVmFlow, PreEip155Flow
<1>8. Flow(Program(script), at, on, off, FALSE, FALSE)
  BY <1>2, <1>6, <1>7 DEF Program, Scripts
<1>9. Settled(Program(script), at, on, off, FALSE)
  BY <1>8 DEF Flow
<1> QED BY <1>9 DEF Settled

-----------------------------------------------------------------------------
(***************************************************************************)
(* A token that the file names may call Cairo.  The call that allows it is *)
(* made at once, since the account is not lazy then, and before the file   *)
(* is written.                                                             *)
(***************************************************************************)
LazyAt == Of({"token", "authorize_caller"})

LEMMA PromptPrograms ==
  ASSUME NEW script \in Scripts, NEW now
  PROVE  Settled(Program(script), LazyAt, Of({"remove"}), Of({"register"}), now)
<1> DEFINE at == LazyAt
           on == Of({"remove"})
           off == Of({"register"})
<1>1. ASSUME NEW s \in Seq(Steps), \A i \in DOMAIN s : s[i].kind \notin {"token", "authorize_caller"}
      PROVE  Flow(s, at, on, off, FALSE, FALSE)
  BY <1>1 DEF Flow, Settled, LazyAt, Of
<1>2. Flow(DeployDualVmTokens, at, on, off, FALSE, FALSE)
  <2>1. DeployDualVmTokens \in Seq(Steps) /\ DOMAIN DeployDualVmTokens = 1..5
    BY BlockTypes DEF DeployDualVmTokens
  <2>2. /\ DeployDualVmTokens[1].kind = "remove" /\ DeployDualVmTokens[2].kind = "load_evm"
        /\ DeployDualVmTokens[3].kind = "token" /\ DeployDualVmTokens[4].kind = "dump_evm"
        /\ DeployDualVmTokens[5].kind = "register"
    BY StepFields DEF DeployDualVmTokens
  <2>3. /\ DeployDualVmTokens[1] \in on
        /\ \A l \in (1 + 1)..(3 - 1) : DeployDualVmTokens[l] \notin off
        /\ \A i \in 1..5 : DeployDualVmTokens[i] \in at => i = 3
        /\ 1 \in 1..(3 - 1)
    BY SMTT(60), <2>1, <2>2 DEF LazyAt, Of
  <2> QED BY <2>1, <2>3 DEF Flow, Settled
<1>3. Flow(DeployEvmContracts, at, on, off, FALSE, FALSE) /\ Flow(SendTransactions, at, on, off, FALSE, FALSE)
  BY <1>1, BlockTypes, BlockKinds
<1>4. at \in SUBSET Of({"load_evm", "dump_evm", "token", "coinbase", "weth", "send"} \cup Inserted)
  BY DEF LazyAt, Of, Inserted
<1> HIDE DEF at, on, off
<1>5. Settled(Program(script), at, on, off, now)
  BY <1>2, <1>3, <1>4, BlockPrograms
<1> QED BY <1>5 DEF at, on, off

LEMMA OneMore ==
  ASSUME NEW S, NEW u \in Seq(S), NEW d \in S, NEW v, v = u \o << d >>
  PROVE  /\ v \in Seq(S) /\ DOMAIN v = 1..(Len(u) + 1) /\ Len(v) = Len(u) + 1
         /\ \A i \in DOMAIN u : v[i] = u[i]
         /\ v[Len(u) + 1] = d
OBVIOUS

\* A deployment with a step after it, and another one.
LEMMA ThreeSteps ==
  ASSUME NEW S, NEW a \in S, NEW b \in S, NEW c \in S, NEW d \in S, NEW s, NEW u, NEW t,
         s = << a, b >>, u = s \o << c >>, t = u \o << d >>
  PROVE  /\ DOMAIN u = 1..3 /\ u[1] = a /\ u[2] = b /\ u[3] = c
         /\ DOMAIN t = 1..4 /\ t[1] = a /\ t[2] = b /\ t[3] = c /\ t[4] = d
<1>1. s \in Seq(S) /\ DOMAIN s = {1, 2} /\ Len(s) = 2 /\ s[1] = a /\ s[2] = b
  OBVIOUS
<1>2. u \in Seq(S) /\ DOMAIN u = 1..3 /\ Len(u) = 3 /\ u[1] = s[1] /\ u[2] = s[2] /\ u[3] = c
  <2>1. /\ u \in Seq(S) /\ DOMAIN u = 1..(Len(s) + 1) /\ Len(u) = Len(s) + 1
        /\ \A i \in DOMAIN s : u[i] = s[i]
        /\ u[Len(s) + 1] = c
    BY <1>1, OneMore
  <2>2. Len(s) + 1 = 3
    BY <1>1
  <2> QED BY <1>1, <2>1, <2>2
<1>3. DOMAIN t = 1..4 /\ t[1] = u[1] /\ t[2] = u[2] /\ t[3] = u[3] /\ t[4] = d
  <2>1. /\ DOMAIN t = 1..(Len(u) + 1)
        /\ \A i \in DOMAIN u : t[i] = u[i]
        /\ t[Len(u) + 1] = d
    BY <1>2, OneMore
  <2>2. Len(u) + 1 = 4 /\ 1 \in 1..3 /\ 2 \in 1..3 /\ 3 \in 1..3
    BY <1>2
  <2> QED BY <1>2, <2>1, <2>2
<1> QED BY <1>1, <1>2, <1>3

\* The steps that are put in front, one by one.
LEMMA InsertsShape ==
  ASSUME NEW x, NEW t, Inserts(x, t)
  PROVE  \/ /\ x.kind = "weth" /\ DOMAIN t = 1..2 /\ t[1].kind = "eoa"
            /\ t[2].kind = "deploy_evm" /\ t[2].of = "WETH9"
         \/ /\ x.kind = "coinbase" /\ DOMAIN t = 1..3 /\ t[1].kind = "eoa"
            /\ t[2].kind = "deploy_evm" /\ t[2].of = "Coinbase" /\ t[3].kind = "set_coinbase"
         \/ /\ x.kind = "token" /\ (DOMAIN t = 1..3 \/ (DOMAIN t = 1..4 /\ t[4].kind = "check_token"))
            /\ t[1].kind = "eoa" /\ t[2].kind = "deploy_evm" /\ t[2].of = "token"
            /\ t[3].kind = "authorize_caller"
         \/ x.kind = "sender" /\ DOMAIN t = 1..2 /\ t[1].kind = "fund" /\ t[2].kind = "eoa"
<1>1. CASE x.kind = "weth" /\ t = Deploys("WETH9")
  BY <1>1, StepFields DEF Deploys
<1>2. CASE x.kind = "coinbase" /\ t = Deploys("Coinbase") \o << Do("set_coinbase") >>
  <2> DEFINE a == Step("eoa", EvmDeployer)
             b == Step("deploy_evm", "Coinbase")
             c == Do("set_coinbase")
             d == Do("check_token")
             s == << a, b >>
             u == s \o << c >>
             v == u \o << d >>
  <2>1. /\ a.kind = "eoa" /\ b.kind = "deploy_evm" /\ b.of = "Coinbase" /\ c.kind = "set_coinbase"
        /\ d.kind = "check_token"
    BY StepFields
  <2>2. t = u
    BY <1>2 DEF Deploys
  <2> HIDE DEF a, b, c, d
  <2>3. s = << a, b >> /\ u = s \o << c >> /\ v = u \o << d >>
    OBVIOUS
  <2>4. a \in {a, b, c, d} /\ b \in {a, b, c, d} /\ c \in {a, b, c, d} /\ d \in {a, b, c, d}
    OBVIOUS
  <2> HIDE DEF s, u, v
  <2>5. /\ DOMAIN u = 1..3 /\ u[1] = a /\ u[2] = b /\ u[3] = c
        /\ DOMAIN v = 1..4 /\ v[1] = a /\ v[2] = b /\ v[3] = c /\ v[4] = d
    BY <2>3, <2>4, ThreeSteps
  <2> QED BY <1>2, <2>1, <2>2, <2>5
<1>3. CASE x.kind = "token" /\ t = Deploys("token") \o << Do("authorize_caller") >>
  <2> DEFINE a == Step("eoa", EvmDeployer)
             b == Step("deploy_evm", "token")
             c == Do("authorize_caller")
             d == Do("check_token")
             s == << a, b >>
             u == s \o << c >>
             v == u \o << d >>
  <2>1. /\ a.kind = "eoa" /\ b.kind = "deploy_evm" /\ b.of = "token" /\ c.kind = "authorize_caller"
        /\ d.kind = "check_token"
    BY StepFields
  <2>2. t = u
    BY <1>3 DEF Deploys
  <2> HIDE DEF a, b, c, d
  <2>3. s = << a, b >> /\ u = s \o << c >> /\ v = u \o << d >>
    OBVIOUS
  <2>4. a \in {a, b, c, d} /\ b \in {a, b, c, d} /\ c \in {a, b, c, d} /\ d \in {a, b, c, d}
    OBVIOUS
  <2> HIDE DEF s, u, v
  <2>5. /\ DOMAIN u = 1..3 /\ u[1] = a /\ u[2] = b /\ u[3] = c
        /\ DOMAIN v = 1..4 /\ v[1] = a /\ v[2] = b /\ v[3] = c /\ v[4] = d
    BY <2>3, <2>4, ThreeSteps
  <2> QED BY <1>3, <2>1, <2>2, <2>5
<1>4. CASE x.kind = "token" /\ t = (Deploys("token") \o << Do("authorize_caller") >>) \o << Do("check_token") >>
  <2> DEFINE a == Step("eoa", EvmDeployer)
             b == Step("deploy_evm", "token")
             c == Do("authorize_caller")
             d == Do("check_token")
             s == << a, b >>
             u == s \o << c >>
             v == u \o << d >>
  <2>1. /\ a.kind = "eoa" /\ b.kind = "deploy_evm" /\ b.of = "token" /\ c.kind = "authorize_caller"
        /\ d.kind = "check_token"
    BY StepFields
  <2>2. t = v
    BY <1>4 DEF Deploys
  <2> HIDE DEF a, b, c, d
  <2>3. s = << a, b >> /\ u = s \o << c >> /\ v = u \o << d >>
    OBVIOUS
  <2>4. a \in {a, b, c, d} /\ b \in {a, b, c, d} /\ c \in {a, b, c, d} /\ d \in {a, b, c, d}
    OBVIOUS
  <2> HIDE DEF s, u, v
  <2>5. /\ DOMAIN u = 1..3 /\ u[1] = a /\ u[2] = b /\ u[3] = c
        /\ DOMAIN v = 1..4 /\ v[1] = a /\ v[2] = b /\ v[3] = c /\ v[4] = d
    BY <2>3, <2>4, ThreeSteps
  <2> QED BY <1>4, <2>1, <2>2, <2>5
<1>5. CASE x.kind = "sender" /\ t = DeployAndFund(x.of)
  BY <1>5, StepFields DEF DeployAndFund
<1> QED BY <1>1, <1>2, <1>3, <1>4, <1>5 DEF Inserts

\* After the deployment of a token comes its authorization.
TokenFollowed(s) ==
  \A i \in DOMAIN s : s[i].kind = "deploy_evm" /\ s[i].of = "token" =>
    i + 1 \in DOMAIN s /\ s[i + 1].kind = "authorize_caller"

LEMMA FollowedTail ==
  ASSUME NEW s \in Seq(Steps), s # <<>>, TokenFollowed(s)
  PROVE  TokenFollowed(Tail(s))
<1> SUFFICES ASSUME NEW i \in DOMAIN Tail(s), Tail(s)[i].kind = "deploy_evm", Tail(s)[i].of = "token"
             PROVE  i + 1 \in DOMAIN Tail(s) /\ Tail(s)[i + 1].kind = "authorize_caller"
  BY DEF TokenFollowed
<1>1. i \in Nat /\ i + 1 \in DOMAIN s /\ Tail(s)[i] = s[i + 1]
  OBVIOUS
<1>2. (i + 1) + 1 \in DOMAIN s /\ s[(i + 1) + 1].kind = "authorize_caller"
  BY <1>1 DEF TokenFollowed
<1>3. i + 1 \in DOMAIN Tail(s)
  BY <1>1, <1>2
<1>4. Tail(s)[i + 1] = s[(i + 1) + 1]
  BY <1>1, <1>3
<1> QED BY <1>2, <1>3, <1>4

LEMMA FollowedConcat ==
  ASSUME NEW s \in Seq(Steps), NEW t \in Seq(Steps), TokenFollowed(s), TokenFollowed(t)
  PROVE  TokenFollowed(s \o t)
<1> DEFINE u == s \o t
<1>1. /\ DOMAIN u = 1..(Len(s) + Len(t)) /\ DOMAIN s = 1..Len(s) /\ DOMAIN t = 1..Len(t)
      /\ Len(s) \in Nat /\ Len(t) \in Nat
      /\ \A i \in DOMAIN s : u[i] = s[i]
      /\ \A i \in DOMAIN t : u[i + Len(s)] = t[i]
  OBVIOUS
<1> HIDE DEF u
<1> SUFFICES ASSUME NEW i \in DOMAIN u, u[i].kind = "deploy_evm", u[i].of = "token"
             PROVE  i + 1 \in DOMAIN u /\ u[i + 1].kind = "authorize_caller"
  BY DEF TokenFollowed, u
<1>2. CASE i \in DOMAIN s
  <2>1. i + 1 \in DOMAIN s /\ s[i + 1].kind = "authorize_caller"
    BY <1>1, <1>2 DEF TokenFollowed
  <2>2. i + 1 \in DOMAIN u
    BY <1>1, <2>1
  <2> QED BY <1>1, <2>1, <2>2
<1>3. CASE i \notin DOMAIN s
  <2> DEFINE m == i - Len(s)
  <2>1. m \in DOMAIN t /\ m + Len(s) = i
    BY <1>1, <1>3
  <2>2. m + 1 \in DOMAIN t /\ t[m + 1].kind = "authorize_caller"
    BY <1>1, <2>1 DEF TokenFollowed
  <2>3. (m + 1) + Len(s) = i + 1 /\ i + 1 \in DOMAIN u
    BY SMTT(60), <1>1, <2>1, <2>2
  <2> QED BY <1>1, <2>2, <2>3
<1> QED BY <1>2, <1>3

LEMMA FollowedKept ==
  ASSUME TInv, GInv, [Next]_vars, TokenFollowed(proc.todo)
  PROVE  TokenFollowed(proc'.todo)
<1>1. proc.todo \in Seq(Steps)
  BY DEF TInv, Processes
<1>2. CASE proc' = NoProcess
  <2>1. proc'.todo = <<>>
    BY <1>2 DEF NoProcess
  <2> QED BY <2>1 DEF TokenFollowed
<1>3. CASE \E script \in Scripts : Start(script)
  <2>1. PICK script \in Scripts : Start(script)
    BY <1>3
  <2>2. proc'.todo = Program(script)
    BY <2>1 DEF Start, NoProcess
  <2>3. Lacks(Program(script), Inserted)
    BY Programs DEF Entered, Programmed
  <2> QED BY <2>2, <2>3 DEF TokenFollowed, Lacks, Inserted
<1>4. CASE proc'.todo = proc.todo
  BY <1>4
<1>5. CASE proc.todo # <<>> /\ proc'.todo = Tail(proc.todo)
  BY <1>1, <1>5, FollowedTail
<1>6. CASE /\ proc.todo # <<>>
           /\ \E t : Inserts(Head(proc.todo), t) /\ proc'.todo = t \o Tail(proc.todo)
  <2>1. PICK t : Inserts(Head(proc.todo), t) /\ proc'.todo = t \o Tail(proc.todo)
    BY <1>6
  <2>2. t \in Seq(Steps)
    BY <1>6, <2>1, InsertsKinds
  <2>3. TokenFollowed(t)
    <3>1. ASSUME NEW i \in DOMAIN t, t[i].kind = "deploy_evm", t[i].of = "token"
          PROVE  i + 1 \in DOMAIN t /\ t[i + 1].kind = "authorize_caller"
      <4>1. /\ DOMAIN t = 1..2 \/ DOMAIN t = 1..3 \/ DOMAIN t = 1..4
            /\ t[1].kind # "deploy_evm"
            /\ 3 \in DOMAIN t => t[3].kind # "deploy_evm"
            /\ 4 \in DOMAIN t => t[4].kind # "deploy_evm"
            /\ t[2].kind = "deploy_evm" /\ t[2].of = "token" => 3 \in DOMAIN t /\ t[3].kind = "authorize_caller"
        <5>1. 3 \in 1..3 /\ 3 \in 1..4 /\ 3 \notin 1..2 /\ 4 \notin 1..2 /\ 4 \notin 1..3
          OBVIOUS
        <5> QED BY <2>1, <5>1, InsertsShape
      <4>2. i \in Nat /\ (i = 1 \/ i = 2 \/ i = 3 \/ i = 4)
        BY <3>1, <4>1
      <4>3. i = 2
        BY <3>1, <4>1, <4>2
      <4>4. i + 1 = 3
        BY <4>3
      <4> QED BY <3>1, <4>1, <4>3, <4>4
    <3> QED BY <3>1 DEF TokenFollowed
  <2>4. Tail(proc.todo) \in Seq(Steps)
    BY <1>1, <1>6
  <2> QED BY <1>1, <1>6, <2>1, <2>2, <2>3, <2>4, FollowedTail, FollowedConcat
<1> QED BY <1>2, <1>3, <1>4, <1>5, <1>6, TodoChanges

LEMMA LazyChanges ==
  ASSUME TInv, GInv, [Next]_vars, Continues
  PROVE  /\ RegisterLazyAccount \/ RemoveLazyAccount \/ proc'.lazy = proc.lazy
         /\ RegisterLazyAccount => proc'.lazy
         /\ RemoveLazyAccount => ~proc'.lazy
<1>1. RegisterLazyAccount \/ RemoveLazyAccount \/ proc'.lazy = proc.lazy
  BY ProcessKept DEF Continues
<1>2. RegisterLazyAccount => proc'.lazy
  BY HeadAt, DoneFields DEF RegisterLazyAccount, Processes
<1>3. RemoveLazyAccount => ~proc'.lazy
  BY HeadAt, DoneFields DEF RemoveLazyAccount, Processes
<1> QED BY <1>1, <1>2, <1>3

LEMMA PromptKept ==
  ASSUME TInv, GInv, [Next]_vars,
         Settled(proc.todo, LazyAt, Of({"remove"}), Of({"register"}), ~proc.lazy)
  PROVE  Settled(proc'.todo, LazyAt, Of({"remove"}), Of({"register"}), ~proc'.lazy)
<1> DEFINE at == LazyAt
           on == Of({"remove"})
           off == Of({"register"})
           now == ~proc.lazy
           then == ~proc'.lazy
<1>1. \A script \in Scripts : Settled(Program(script), at, on, off, then)
  BY PromptPrograms
<1>2. Continues /\ (CreatePool \/ UNCHANGED vars) /\ now => then
  BY DEF CreatePool, vars, TInv, Processes
<1>3. ASSUME Steps1
      PROVE  /\ proc.todo[1] \in on => then
             /\ now /\ proc.todo[1] \notin off => then
  <2>1. /\ proc.todo[1].kind = "remove" => RemoveLazyAccount
        /\ RegisterLazyAccount => proc.todo[1].kind = "register"
        /\ proc.todo[1] \in Steps
    BY <1>3, NextTells, StepAt, HeadAt
  <2>2. Continues
    BY <1>3 DEF Steps1
  <2> QED BY <2>1, <2>2, LazyChanges DEF Of
<1>4. ASSUME Steps1, NEW t, Inserts(Head(proc.todo), t)
      PROVE  Flow(t, at, on, off, then, then)
  <2>1. proc.todo # <<>> /\ Head(proc.todo) = proc.todo[1] /\ proc.todo[1] \in Steps /\ 1 \in DOMAIN proc.todo
    BY <1>4, NextTells, HeadFacts DEF Steps1
  <2>2. t \in Seq(Steps) /\ \A i \in DOMAIN t : t[i].kind \in InsertedKinds
    BY <1>4, <2>1, InsertsKinds
  <2>3. \A i \in DOMAIN t : t[i] \notin off
    BY <2>2 DEF Of, InsertedKinds
  <2>4. CASE then
    <3> HIDE DEF at, on, off, then
    <3> QED BY <2>2, <2>3, <2>4, FlowTrue
  <2>5. CASE ~then
    <3>1. Head(proc.todo).kind # "token"
      <4>1. SUFFICES ASSUME Head(proc.todo).kind = "token" PROVE FALSE
        OBVIOUS
      <4>2. proc.todo[1] \in at /\ proc.todo[1] \notin off
        BY <2>1, <4>1 DEF LazyAt, Of
      <4>3. now
        <5>1. 1..(1 - 1) = {}
          OBVIOUS
        <5> QED BY <2>1, <4>2, <5>1 DEF Settled
      <4> QED BY <1>3, <1>4, <2>5, <4>2, <4>3
    <3>2. \A i \in DOMAIN t : t[i] \notin at
      <4>1. \A i \in DOMAIN t : t[i].kind \notin {"token", "authorize_caller"}
        BY <1>4, <3>1, InsertsShape
      <4> QED BY <4>1 DEF LazyAt, Of
    <3> HIDE DEF at, on, off, then
    <3> QED BY <2>2, <2>3, <3>2, FlowAside
  <2> QED BY <2>4, <2>5
<1> HIDE DEF at, on, off, now, then
<1>5. Settled(proc.todo, at, on, off, now)
  BY DEF at, on, off, now
<1>6. Settled(proc'.todo, at, on, off, then)
  BY <1>1, <1>2, <1>3, <1>4, <1>5, SettledStep
<1> QED BY <1>6 DEF at, on, off, then

\* What a single call does that the chain accepts.
LEMMA OneExecuted ==
  ASSUME chain \in Chains, NEW c \in Calls, Accepts(chain, c)
  PROVE  Executed(<< c >>) = Effect(chain, c)
<1> DEFINE s == << c >>
<1>1. s \in Seq(Calls) /\ Len(s) = 1 /\ s[1] = c /\ 1 \in 1..Len(s)
  OBVIOUS
<1> HIDE DEF s
<1>2. PICK after \in [0..Len(s) -> Results] :
        /\ after[0] = [ok |-> TRUE, chain |-> chain]
        /\ \A n \in 1..Len(s) : after[n] = After(after[n - 1], s[n])
        /\ Executed(s) = after[Len(s)].chain
  BY <1>1, ExecutedDef
<1>3. after[1] = After(after[0], c)
  <2>1. 1 - 1 = 0
    OBVIOUS
  <2> QED BY <1>1, <1>2, <2>1
<1>4. After(after[0], c) = [ok |-> TRUE, chain |-> Effect(chain, c)]
  BY <1>2 DEF After
<1>5. Executed(s) = Effect(chain, c)
  BY <1>1, <1>2, <1>3, <1>4
<1> QED BY <1>5 DEF s

\* The token of evm may call Cairo, if the instance it was deployed in is there.
Authorized(ch, evm) ==
  "token" \in DOMAIN evm /\ evm["token"].kakarot \in DOMAIN ch.core =>
    evm["token"].address \in ch.core[evm["token"].kakarot].callers

\* The token was just deployed, and its authorization is next.
Authorizing ==
  /\ proc.todo # <<>> /\ Head(proc.todo).kind = "authorize_caller"
  /\ "token" \in DOMAIN proc.evm /\ proc.evm["token"].kakarot = Kakarot

BInv ==
  /\ TokenFollowed(proc.todo)
  /\ Settled(proc.todo, LazyAt, Of({"remove"}), Of({"register"}), ~proc.lazy)
  /\ ~MayRevert => /\ Authorized(chain, files.evm)
                   /\ Authorized(chain, proc.evm) \/ Authorizing

LEMMA AuthorizedKept ==
  ASSUME TInv, GInv, [Next]_vars, NEW evm \in Records, Spent(evm), Authorized(chain, evm)
  PROVE  Authorized(chain', evm)
<1> DEFINE k == evm["token"].kakarot
           a == evm["token"].address
<1> SUFFICES ASSUME "token" \in DOMAIN evm, k \in DOMAIN chain'.core
             PROVE  a \in chain'.core[k].callers
  BY DEF Authorized
<1>1. k \in DOMAIN chain.core
  BY SpentKept
<1>2. a \in chain.core[k].callers
  BY <1>1 DEF Authorized
<1> HIDE DEF k, a
<1>3. ~ResetChain
  BY DEF ResetChain, EmptyChain, Empty
<1> QED BY <1>1, <1>2, <1>3, ChainKept DEF Kept

\* The authorization is sent at once.
LEMMA AuthorizationIsSent ==
  ASSUME TInv, GInv, FInv, [Next]_vars, BInv, ~MayRevert, Steps1, Authorizing
  PROVE  Authorized(chain', proc'.evm)
<1> DEFINE c == Call("authorize_caller", Kakarot, proc.evm["token"].address)
<1>1. /\ AuthorizeCaller /\ proc.todo[1].kind = "authorize_caller" /\ proc.todo[1] \in Steps
      /\ proc.todo # <<>> /\ 1 \in DOMAIN proc.todo
  BY NextTells, HeadFacts DEF Authorizing, Steps1
<1>2. ~proc.lazy
  <2>1. proc.todo[1] \in LazyAt
    BY <1>1 DEF LazyAt, Of
  <2>2. 1..(1 - 1) = {}
    OBVIOUS
  <2> QED BY <1>1, <2>1, <2>2 DEF BInv, Settled
<1>3. Opened /\ Kakarot \in Nat /\ proc.evm["token"].address \in Nat
  BY <1>1, HeadFacts, KakarotType, EvmType DEF Preliminary, UsingKakarot, Authorizing
<1>4. /\ c \in Calls /\ c.op = "authorize_caller" /\ c.to = Kakarot
      /\ c.arg = proc.evm["token"].address /\ Invoke(Done(proc), << c >>)
  BY <1>1, <1>3, CallType, CallFields DEF AuthorizeCaller
<1> HIDE DEF c
<1>5. proc' = Done(proc) /\ chain' = Executed(<< c >>)
  BY <1>1, <1>2, <1>4, DoneFields DEF Invoke, Outcomes
<1>6. proc'.evm = proc.evm
  BY <1>1, <1>5, DoneFields
<1> SUFFICES ASSUME Kakarot \in DOMAIN chain'.core
             PROVE  c.arg \in chain'.core[Kakarot].callers
  BY <1>4, <1>6 DEF Authorized, Authorizing
<1>7. chain \in Chains
  BY DEF TInv
<1>8. Kakarot \in DOMAIN chain.core
  <2>1. Spent(proc.evm) /\ proc.evm \in Records
    BY EvmRecords DEF FInv
  <2> QED BY <2>1, SpentKept DEF Authorizing
<1>9. Accepts(chain, c)
  BY <1>4, <1>8 DEF Accepts
<1>10. chain' = Effect(chain, c)
  BY <1>4, <1>5, <1>7, <1>9, OneExecuted
<1>11. Served(chain.core[Kakarot], chain'.core[Kakarot], Kakarot, c)
  BY <1>4, <1>7, <1>8, <1>9, <1>10, EffectFields
<1> QED BY <1>4, <1>11 DEF Served

LEMMA SecondStep ==
  ASSUME NEW S, NEW s \in Seq(S), 2 \in DOMAIN s
  PROVE  Tail(s) # <<>> /\ Head(Tail(s)) = s[2]
<1>1. Len(s) \in Nat /\ Len(s) >= 2 /\ s # <<>>
  OBVIOUS
<1>2. Tail(s) \in Seq(S) /\ Len(Tail(s)) = Len(s) - 1
  BY <1>1
<1>3. 1 \in DOMAIN Tail(s) /\ Tail(s)[1] = s[2] /\ Tail(s) # <<>>
  <2>1. 1 \in 1..Len(Tail(s)) /\ DOMAIN Tail(s) = 1..Len(Tail(s))
    BY <1>1, <1>2
  <2>2. \A i \in 1..Len(Tail(s)) : Tail(s)[i] = s[i + 1]
    BY <1>1
  <2>3. 1 + 1 = 2
    OBVIOUS
  <2>4. Tail(s)[1] = s[2]
    BY <2>1, <2>2, <2>3
  <2>5. Tail(s) # <<>>
    <3>1. Len(<<>>) = 0 /\ Len(Tail(s)) >= 1
      BY <1>1, <1>2
    <3> DEFINE t == Tail(s)
    <3>2. Len(t) >= 1
      BY <3>1
    <3> HIDE DEF t
    <3>3. t # <<>>
      BY <3>1, <3>2
    <3> QED BY <3>3 DEF t
  <2> QED BY <2>1, <2>4, <2>5
<1> DEFINE t == Tail(s)
<1>4. t \in Seq(S) /\ t # <<>> /\ t[1] = s[2]
  BY <1>2, <1>3
<1> HIDE DEF t
<1>5. Head(t) = t[1]
  BY <1>4
<1> QED BY <1>4, <1>5 DEF t

\* What the running process knows of.
LEMMA AuthorizedProc ==
  ASSUME TInv, GInv, FInv, BInv, [Next]_vars, ~MayRevert
  PROVE  (Authorized(chain, proc.evm) \/ Authorizing)'
<1>1. CASE proc' = NoProcess
  BY <1>1 DEF NoProcess, Empty, Authorized
<1>2. CASE \E script \in Scripts : Start(script)
  <2>1. proc'.evm = Empty
    <3>1. PICK script \in Scripts : proc' = [NoProcess EXCEPT !.script = script, !.todo = Program(script)]
      BY <1>2 DEF Start
    <3>2. NoProcess \in Processes /\ NoProcess.evm = Empty
      BY NoProcessType DEF NoProcess
    <3> QED BY <3>1, <3>2 DEF Processes
  <2> QED BY <2>1 DEF Empty, Authorized
<1>3. CASE Continues
  <2>1. /\ proc.evm \in Records /\ files.evm \in Records /\ Spent(proc.evm) /\ Spent(files.evm)
        /\ Authorized(chain, files.evm)
    BY EvmRecords DEF FInv, BInv
  <2>2. CASE CreatePool \/ UNCHANGED vars
    <3>1. proc'.evm = proc.evm /\ proc'.todo = proc.todo /\ Kakarot' = Kakarot
      BY ZenonT(60), <2>2 DEF CreatePool, vars, TInv, Processes, Kakarot
    <3>2. CASE Authorizing
      BY <3>1, <3>2 DEF Authorizing
    <3>3. CASE Authorized(chain, proc.evm)
      BY <2>1, <3>1, <3>3, AuthorizedKept
    <3> QED BY <3>2, <3>3 DEF BInv
  <2>3. CASE ~(CreatePool \/ UNCHANGED vars)
    <3>1. Steps1
      BY <1>3, <2>3, TodoChanges DEF Steps1, Continues
    <3>2. CASE Authorizing
      BY <3>1, <3>2, AuthorizationIsSent
    <3>3. CASE Authorized(chain, proc.evm)
      <4>1. CASE proc'.evm = proc.evm
        BY <2>1, <3>3, <4>1, AuthorizedKept
      <4>2. CASE LoadEvm
        <5>1. proc.todo # <<>> /\ proc' = [Done(proc) EXCEPT !.evm = files.evm]
          BY <4>2, HeadAt DEF LoadEvm
        <5>2. proc'.evm = files.evm
          BY <5>1, DoneFields DEF Processes
        <5> QED BY <2>1, <5>2, AuthorizedKept
      <4>3. CASE DeployEvm \/ Send
        <5>1. /\ Kakarot' = Kakarot /\ proc.todo # <<>> /\ (Send => Subject # "token")
              /\ \E v : /\ proc'.evm = With(proc.evm, Subject, v) /\ v.kakarot = Kakarot
                        /\ proc' = [Done(proc) EXCEPT !.evm = With(proc.evm, Subject, v)]
          BY <1>3, <4>3, TokenNoted DEF Continues
        <5>2. PICK v : /\ proc'.evm = With(proc.evm, Subject, v) /\ v.kakarot = Kakarot
                       /\ proc' = [Done(proc) EXCEPT !.evm = With(proc.evm, Subject, v)]
          BY <5>1
        <5>3. CASE Subject = "token"
          <6>1. proc'.todo = Tail(proc.todo)
            BY <5>1, <5>2, DoneFields DEF Processes
          <6>2. Head(proc.todo).kind = "deploy_evm"
            BY <4>3, <5>1, <5>3, HeadAt DEF DeployEvm
          <6>3. /\ proc.todo \in Seq(Steps) /\ Head(proc.todo) = proc.todo[1] /\ 1 \in DOMAIN proc.todo
            BY <5>1, HeadFacts
          <6>4. 2 \in DOMAIN proc.todo /\ proc.todo[2].kind = "authorize_caller"
            <7>1. 1 + 1 = 2
              OBVIOUS
            <7> QED BY <5>3, <6>2, <6>3, <7>1 DEF BInv, TokenFollowed, Subject
          <6>5. Tail(proc.todo) # <<>> /\ Head(Tail(proc.todo)) = proc.todo[2]
            BY <6>3, <6>4, SecondStep
          <6>6. "token" \in DOMAIN proc'.evm /\ proc'.evm["token"] = v
            BY <5>2, <5>3 DEF With
          <6> QED BY <5>1, <5>2, <6>1, <6>4, <6>5, <6>6 DEF Authorizing
        <5>4. CASE Subject # "token"
          <6>1. "token" \in DOMAIN proc'.evm =>
                  "token" \in DOMAIN proc.evm /\ proc'.evm["token"] = proc.evm["token"]
            BY <5>2, <5>4 DEF With
          <6>2. Authorized(chain', proc.evm)
            BY <2>1, <3>3, AuthorizedKept
          <6> QED BY <6>1, <6>2 DEF Authorized
        <5> QED BY <5>3, <5>4
      <4> QED BY <1>3, <4>1, <4>2, <4>3, ProcessKept DEF Continues
    <3> QED BY <3>2, <3>3 DEF BInv
  <2> QED BY <2>2, <2>3
<1> QED BY <1>1, <1>2, <1>3 DEF Continues

LEMMA AuthorizedFiles ==
  ASSUME TInv, GInv, FInv, BInv, [Next]_vars, ~MayRevert
  PROVE  Authorized(chain', files'.evm)
<1>1. /\ proc.evm \in Records /\ files.evm \in Records /\ Spent(proc.evm) /\ Spent(files.evm)
      /\ Authorized(chain, files.evm)
  BY EvmRecords DEF FInv, BInv
<1>2. CASE files'.evm = files.evm
  BY <1>1, <1>2, AuthorizedKept
<1>3. CASE DumpEvm
  <2>1. files'.evm = proc.evm
    BY <1>3 DEF DumpEvm, TInv
  <2>2. ~Authorizing
    BY <1>3, HeadAt DEF DumpEvm, Authorizing
  <2>3. Authorized(chain, proc.evm)
    BY <2>2 DEF BInv
  <2> QED BY <1>1, <2>1, <2>3, AuthorizedKept
<1> QED BY <1>2, <1>3, FieldsKept

LEMMA BKeeps ==
  ASSUME TInv, GInv, FInv, BInv, [Next]_vars
  PROVE  BInv'
<1>1. TokenFollowed(proc'.todo)
  BY FollowedKept DEF BInv
<1>2. Settled(proc'.todo, LazyAt, Of({"remove"}), Of({"register"}), ~proc'.lazy)
  BY PromptKept DEF BInv
<1>3. MayRevert' = MayRevert
  BY FieldsKept DEF MayRevert
<1>4. ~MayRevert => Authorized(chain', files'.evm) /\ (Authorized(chain, proc.evm) \/ Authorizing)'
  BY AuthorizedFiles, AuthorizedProc
<1>5. TokenFollowed(proc.todo)'
  BY <1>1 DEF TokenFollowed
<1>6. Settled(proc.todo, LazyAt, Of({"remove"}), Of({"register"}), ~proc.lazy)'
  BY <1>2 DEF Settled, LazyAt, Of
<1>7. Authorized(chain', files'.evm) => Authorized(chain, files.evm)'
  BY DEF Authorized
<1> QED BY <1>3, <1>4, <1>5, <1>6, <1>7 DEF BInv

LEMMA BInitially ==
  ASSUME Init
  PROVE  BInv
<1>1. /\ proc.todo = <<>> /\ proc.evm = Empty /\ files.evm = Empty
  BY DEF Init, NoProcess
<1>2. DOMAIN Empty = {}
  BY DEF Empty
<1> QED BY <1>1, <1>2 DEF BInv, TokenFollowed, Settled, Authorized

\* A DualVM token that kakarot_deployments.json names may call Cairo, in whatever instance of
\* Kakarot it was deployed in that is still there: the authorization follows the deployment of
\* the token, is no queued call, since the account is not lazy, and comes before the file is
\* written (dualvm_token_deployments.py), so that no run that is killed leaves a token that the
\* next one skips and that may not.
THEOREM RecordedTokenIsAuthorizedHolds == Spec => []RecordedTokenIsAuthorized
<1>1. Init => TInv /\ GInv /\ FInv /\ BInv
  BY Initially, FInitially, BInitially
<1>2. (TInv /\ GInv /\ FInv /\ BInv) /\ [Next]_vars => (TInv /\ GInv /\ FInv /\ BInv)'
  BY StepKeeps, FKeeps, BKeeps
<1>3. BInv => RecordedTokenIsAuthorized
  BY DEF BInv, Authorized, RecordedTokenIsAuthorized
<1> QED BY <1>1, <1>2, <1>3, PTL DEF Spec

-----------------------------------------------------------------------------
(***************************************************************************)
(* The coinbase is the deployer or the contract that the file names.  The   *)
(* call that sets it to a new contract waits in the queue until the file    *)
(* is written, since the account is lazy, and no other call changes it.     *)
(***************************************************************************)
LEMMA CoinbaseAfter ==
  ASSUME chain \in Chains, NEW calls \in Seq(Calls), NEW k, k \in DOMAIN Executed(calls).core
  PROVE  LET x == Executed(calls).core[k].coinbase
         IN \/ x = Unset
            \/ k \in DOMAIN chain.core /\ x = chain.core[k].coinbase
            \/ \E c \in Names(calls) : c.op = "set_coinbase" /\ c.arg = x
<1> DEFINE May(x) == \/ x = Unset
                     \/ k \in DOMAIN chain.core /\ x = chain.core[k].coinbase
                     \/ \E c \in Names(calls) : c.op = "set_coinbase" /\ c.arg = x
           P == {ch \in Chains : k \in DOMAIN ch.core => May(ch.core[k].coinbase)}
<1>1. May(Unset)
  OBVIOUS
<1>2. \A c \in Names(calls) : c.op = "set_coinbase" => May(c.arg)
  OBVIOUS
<1>3. chain \in P
  OBVIOUS
<1> HIDE DEF May
<1>4. ASSUME NEW ch \in P \cap Chains, NEW i \in DOMAIN calls, Accepts(ch, calls[i])
      PROVE  Effect(ch, calls[i]) \in P
  <2> DEFINE c == calls[i]
             e == Effect(ch, c)
  <2>1. c \in Calls /\ c \in Names(calls)
    BY DEF Names
  <2>2. Accepts(ch, c)
    BY <1>4
  <2> HIDE DEF c
  <2>3. /\ e \in Chains
        /\ DOMAIN e.core = DOMAIN ch.core \cup (IF Instantiates(c) THEN {c.to} ELSE {})
        /\ Instantiates(c) => c.to \notin DOMAIN ch.core
        /\ \A j \in DOMAIN ch.core : Served(ch.core[j], e.core[j], j, c)
    BY <2>1, <2>2, EffectType, EffectFields
  <2>4. ASSUME k \in DOMAIN e.core PROVE May(e.core[k].coinbase)
    <3>1. CASE k \in DOMAIN ch.core
      <4>1. Served(ch.core[k], e.core[k], k, c) /\ May(ch.core[k].coinbase)
        BY <2>3, <3>1
      <4> QED BY <1>2, <2>1, <4>1 DEF Served
    <3>2. CASE k \notin DOMAIN ch.core
      <4>1. Instantiates(c) /\ k = c.to
        BY <2>3, <2>4, <3>2
      <4>2. ch = [declared |-> ch.declared, code |-> ch.code, core |-> ch.core,
                  evmCoinbase |-> ch.evmCoinbase]
        BY DEF Chains
      <4>3. e.core = With(ch.core, c.to, NewCore(c.class["account_contract"]))
        BY <4>1, <4>2 DEF Effect, Instantiates
      <4>4. e.core[k].coinbase = Unset
        BY <4>1, <4>3 DEF With, NewCore
      <4> QED BY <1>1, <4>4
    <3> QED BY <3>1, <3>2
  <2>5. e \in P
    BY <2>3, <2>4
  <2> QED BY <2>5 DEF c
<1> HIDE DEF P
<1>5. Executed(calls) \in P
  BY <1>3, <1>4, ExecutedKeeps
<1>6. May(Executed(calls).core[k].coinbase)
  BY ZenonT(30), <1>5 DEF P
<1> QED BY <1>6 DEF May

\* Whatever changes a coinbase.
LEMMA CoinbaseChanges ==
  ASSUME TInv, GInv, [Next]_vars, NEW k \in DOMAIN chain'.core
  PROVE  LET x == chain'.core[k].coinbase
         IN \/ k \in DOMAIN chain.core /\ x = chain.core[k].coinbase
            \/ x = Unset
            \/ /\ Execute \/ CreatePool
               /\ \E c \in Names(proc.queue) : c.op = "set_coinbase" /\ c.arg = x
            \/ SetCoinbase /\ ~proc.lazy /\ x = proc.evm["Coinbase"].address
<1> DEFINE x == chain'.core[k].coinbase
<1>1. chain \in Chains /\ proc.queue \in Seq(Calls)
  BY DEF TInv, Processes
<1>2. CASE UNCHANGED chain
  BY <1>2
<1>3. CASE ResetChain
  BY <1>3 DEF ResetChain, EmptyChain, Empty
<1>4. CASE chain' = [chain EXCEPT !.declared = @ \cup {<<Subject, build[Subject]>>}]
  <2>1. chain'.core = chain.core
    BY <1>1, <1>4 DEF Chains
  <2> QED BY <2>1
<1>5. CASE \E calls \in Seq(Calls) :
             /\ chain' \in Outcomes(calls)
             /\ \/ (Execute \/ CreatePool) /\ calls = proc.queue
                \/ SetCoinbase /\ calls = << Call("set_coinbase", Kakarot, proc.evm["Coinbase"].address) >>
                \/ \A i \in DOMAIN calls : calls[i].op # "set_coinbase" /\ ~Instantiates(calls[i])
  <2>1. PICK calls \in Seq(Calls) :
             /\ chain' \in Outcomes(calls)
             /\ \/ (Execute \/ CreatePool) /\ calls = proc.queue
                \/ SetCoinbase /\ calls = << Call("set_coinbase", Kakarot, proc.evm["Coinbase"].address) >>
                \/ \A i \in DOMAIN calls : calls[i].op # "set_coinbase" /\ ~Instantiates(calls[i])
    BY <1>5
  <2>2. chain' = chain \/ chain' = Executed(calls)
    BY <2>1 DEF Outcomes
  <2>3. CASE chain' = Executed(calls) /\ chain' # chain
    <3>1. \/ x = Unset
          \/ k \in DOMAIN chain.core /\ x = chain.core[k].coinbase
          \/ \E c \in Names(calls) : c.op = "set_coinbase" /\ c.arg = x
      BY <1>1, <2>3, CoinbaseAfter
    <3>2. CASE (Execute \/ CreatePool) /\ calls = proc.queue
      BY <3>1, <3>2
    <3>3. CASE SetCoinbase /\ calls = << Call("set_coinbase", Kakarot, proc.evm["Coinbase"].address) >>
      <4>1. \A c \in Names(calls) : c.arg = proc.evm["Coinbase"].address
        BY <3>3, NamesFew, CallFields
      <4>2. ~proc.lazy
        <5>1. proc.todo # <<>> /\ Done(proc).lazy = proc.lazy
          BY <3>3, HeadAt, DoneFields DEF SetCoinbase
        <5> QED BY <2>3, <3>3, <5>1 DEF SetCoinbase, Invoke
      <4> QED BY <3>1, <3>3, <4>1, <4>2
    <3>4. CASE \A i \in DOMAIN calls : calls[i].op # "set_coinbase" /\ ~Instantiates(calls[i])
      <4>1. \A c \in Names(calls) : c.op # "set_coinbase"
        BY <3>4 DEF Names
      <4> QED BY <3>1, <4>1
    <3> QED BY <2>1, <3>2, <3>3, <3>4
  <2> QED BY <1>2, <2>2, <2>3
<1>6. CASE /\ KakarotAnswers
           /\ chain' = [chain EXCEPT !.core[Kakarot].contracts = @ \cup {NewContract}]
  <2>1. /\ DOMAIN chain'.core = DOMAIN chain.core
        /\ chain'.core[Kakarot] = [Core EXCEPT !.contracts = Core.contracts \cup {NewContract}]
        /\ \A j \in DOMAIN chain.core : j # Kakarot => chain'.core[j] = chain.core[j]
    BY <1>6, Created
  <2>2. Core \in CoreState
    BY <1>6, KakarotType
  <2>3. chain'.core[Kakarot].coinbase = Core.coinbase
    BY <2>1, <2>2 DEF CoreState
  <2> QED BY <2>1, <2>3 DEF Core
<1>7. CASE /\ Send /\ KakarotAnswers
           /\ \E created \in {{Subject}} \cup (IF MayRevert THEN {{}} ELSE {}) :
                chain' = [chain EXCEPT !.core[Kakarot].sent = @ \cup {Subject},
                                       !.core[Kakarot].created = @ \cup created]
  <2>1. Subject \in Subjects /\ Core \in CoreState
    BY <1>7, HeadAt, HeadFacts, KakarotType DEF Send
  <2>2. PICK created \in {{Subject}, {}} :
          chain' = [chain EXCEPT !.core[Kakarot].sent = @ \cup {Subject},
                                 !.core[Kakarot].created = @ \cup created]
    BY <1>7
  <2>3. created \in SUBSET Subjects
    BY ZenonT(30), <2>1
  <2>4. /\ DOMAIN chain'.core = DOMAIN chain.core
        /\ chain'.core[Kakarot] = [Core EXCEPT !.sent = Core.sent \cup {Subject},
                                               !.created = Core.created \cup created]
        /\ \A j \in DOMAIN chain.core : j # Kakarot => chain'.core[j] = chain.core[j]
    BY <1>7, <2>1, <2>2, <2>3, SentType
  <2>5. chain'.core[Kakarot].coinbase = Core.coinbase
    BY <2>1, <2>4 DEF CoreState
  <2> QED BY <2>4, <2>5 DEF Core
<1> QED BY <1>2, <1>3, <1>4, <1>5, <1>6, <1>7, ChainBy

\* Kakarot answers after a step only where it did, or where a queued call instantiates it.
LEMMA SameKakarotStill ==
  ASSUME TInv, GInv, FInv, [Next]_vars, KakarotAnswers'
  PROVE  Recorded("kakarot") /\ Kakarot' = Kakarot
<1>1. Recorded("kakarot")' /\ Kakarot' \in DOMAIN chain'.core
  BY DEF KakarotAnswers
<1>2. CASE ~DeployOrUpgradeKakarot
  BY <1>1, <1>2, KakarotStays
<1>3. CASE DeployOrUpgradeKakarot
  <2>1. UNCHANGED chain
    BY <1>3 DEF DeployOrUpgradeKakarot
  <2>2. \/ UNCHANGED files
        \/ \E k : /\ files' = [files EXCEPT !.starknet = With(files.starknet, "kakarot", k)]
                  /\ IF Skips("kakarot") THEN k = Kakarot ELSE k = fresh
    BY <1>3 DEF DeployOrUpgradeKakarot
  <2>3. CASE UNCHANGED files
    BY <1>1, <2>3 DEF Recorded, Kakarot
  <2>4. CASE \E k : /\ files' = [files EXCEPT !.starknet = With(files.starknet, "kakarot", k)]
                    /\ IF Skips("kakarot") THEN k = Kakarot ELSE k = fresh
    <3>1. PICK k : /\ files' = [files EXCEPT !.starknet = With(files.starknet, "kakarot", k)]
                   /\ IF Skips("kakarot") THEN k = Kakarot ELSE k = fresh
      BY <2>4
    <3>2. files'.starknet = With(files.starknet, "kakarot", k)
      BY <3>1 DEF TInv
    <3>3. Kakarot' = k
      BY <3>2 DEF Kakarot, With
    <3>4. k # fresh
      <4>1. k \in DOMAIN chain.core
        BY <1>1, <2>1, <3>3
      <4> QED BY <4>1 DEF FInv, TInv
    <3> QED BY <3>1, <3>3, <3>4 DEF Skips
  <2> QED BY <2>2, <2>3, <2>4
<1> QED BY <1>2, <1>3

\* The coinbases that are known to someone who has evm, and the coinbases to come.
Good(evm) == {Deployer} \cup (IF "Coinbase" \in DOMAIN evm THEN {evm["Coinbase"].address} ELSE {})
Pays(coinbases) == \A c \in Names(proc.queue) : c.op = "set_coinbase" => c.arg \in coinbases
KnownIn(evm) == KakarotAnswers => Core.coinbase \in Good(evm)
DeployerPaid == KakarotAnswers => Core.coinbase = Deployer

KnownAt == Of({"dump_evm", "coinbase"})
PayAt == Of({"execute", "eoa", "deploy_evm", "send", "coinbase", "load_evm", "weth", "token", "sender"})
PayOff == Of({"coinbase", "set_coinbase"})
CoinbaseDeployment == {x \in Of({"deploy_evm"}) : x.of = "Coinbase"}
FirstOff == Of({"coinbase", "set_coinbase", "weth", "token", "sender"})

KInv ==
  /\ KnownIn(files.evm) /\ Pays(Good(proc.evm))
  /\ Settled(proc.todo, KnownAt, Of({"load_evm"}), {}, KnownIn(proc.evm))
  /\ Settled(proc.todo, PayAt, Of({"dump_evm"}), PayOff, Pays(Good(files.evm)))
  /\ Settled(proc.todo, Of({"coinbase"}), {}, PayOff, Pays({Deployer}))
  /\ Settled(proc.todo, CoinbaseDeployment, {}, FirstOff, Pays({Deployer}) /\ DeployerPaid)
  /\ Settled(proc.todo, PayOff, Of({"register"}), Of({"remove"}), proc.lazy)

\* A part that loads the file before what it is needed for.
LEMMA LoadedFlow ==
  ASSUME NEW s \in Seq(Steps), NEW m \in DOMAIN s, s[m].kind = "load_evm",
         \A l \in 1..(m - 1) : s[l].kind \notin {"dump_evm", "coinbase"}
  PROVE  Flow(s, KnownAt, Of({"load_evm"}), {}, FALSE, FALSE)
<1> SUFFICES ASSUME NEW i \in DOMAIN s, s[i] \in KnownAt
             PROVE  \E j \in 1..(i - 1) : s[j] \in Of({"load_evm"})
  BY DEF Flow, Settled
<1>1. s[i].kind \in {"dump_evm", "coinbase"} /\ s[m] \in Of({"load_evm"})
  BY DEF KnownAt, Of
<1>2. i # m /\ i \notin 1..(m - 1) /\ i \in Nat /\ m \in Nat /\ i >= 1 /\ m >= 1
  BY <1>1
<1>3. m \in 1..(i - 1)
  BY <1>2
<1> QED BY <1>1, <1>3

LEMMA KnownPrograms ==
  ASSUME NEW script \in Scripts, NEW now
  PROVE  Settled(Program(script), KnownAt, Of({"load_evm"}), {}, now)
<1>1. Flow(DeployEvmContracts, KnownAt, Of({"load_evm"}), {}, FALSE, FALSE)
  <2>1. DeployEvmContracts[1].kind = "load_evm" /\ 1 \in DOMAIN DeployEvmContracts
    BY StepFields DEF DeployEvmContracts
  <2>2. 1..(1 - 1) = {}
    OBVIOUS
  <2> QED BY <2>1, <2>2, BlockTypes, LoadedFlow
<1>2. Flow(DeployDualVmTokens, KnownAt, Of({"load_evm"}), {}, FALSE, FALSE)
  <2>1. /\ DeployDualVmTokens[1].kind = "remove" /\ DeployDualVmTokens[2].kind = "load_evm"
        /\ 2 \in DOMAIN DeployDualVmTokens
    BY StepFields DEF DeployDualVmTokens
  <2>2. 1..(2 - 1) = {1}
    OBVIOUS
  <2> QED BY <2>1, <2>2, BlockTypes, LoadedFlow
<1>3. Flow(SendTransactions, KnownAt, Of({"load_evm"}), {}, FALSE, FALSE)
  <2>1. SendTransactions[1].kind = "load_evm" /\ 1 \in DOMAIN SendTransactions
    <3> DEFINE s == << Do("load_evm") >>
               t == Each("send")
               u == << Do("dump_evm") >>
    <3>1. Do("load_evm") \in Steps /\ Do("dump_evm") \in Steps /\ Do("load_evm").kind = "load_evm"
      BY DoType, StepFields DEF Plain, Kinds
    <3>2. s \in Seq(Steps) /\ t \in Seq(Steps) /\ u \in Seq(Steps) /\ s[1].kind = "load_evm" /\ Len(s) = 1
      BY <3>1, EachType
    <3> HIDE DEF s, t, u
    <3>3. \A x, y \in Seq(Steps) :
            /\ x \o y \in Seq(Steps)
            /\ 1 \in DOMAIN x => (x \o y)[1] = x[1] /\ 1 \in DOMAIN (x \o y)
      OBVIOUS
    <3>4. 1 \in DOMAIN s
      BY <3>2
    <3>5. ((s \o t) \o u)[1] = s[1] /\ 1 \in DOMAIN ((s \o t) \o u)
      BY <3>2, <3>3, <3>4
    <3> QED BY <3>2, <3>3, <3>5 DEF SendTransactions, s, t, u
  <2>2. 1..(1 - 1) = {}
    OBVIOUS
  <2> QED BY <2>1, <2>2, BlockTypes, LoadedFlow
<1>4. KnownAt \in SUBSET Of({"load_evm", "dump_evm", "token", "coinbase", "weth", "send"} \cup Inserted)
  BY DEF KnownAt, Of
<1> QED BY <1>1, <1>2, <1>3, <1>4, BlockPrograms

\* The parts of DeployEvmContracts.
LEMMA EvmContractsSteps ==
  /\ DeployEvmContracts \in Seq(Steps) /\ DOMAIN DeployEvmContracts = 1..5 /\ Len(DeployEvmContracts) = 5
  /\ DeployEvmContracts[1].kind = "load_evm" /\ DeployEvmContracts[2].kind = "weth"
  /\ DeployEvmContracts[3].kind = "coinbase" /\ DeployEvmContracts[4].kind = "fund"
  /\ DeployEvmContracts[5].kind = "dump_evm"
<1>1. DeployEvmContracts \in Seq(Steps)
  BY BlockTypes
<1>2. DOMAIN DeployEvmContracts = 1..5 /\ Len(DeployEvmContracts) = 5
  BY DEF DeployEvmContracts
<1>3. /\ DeployEvmContracts[1].kind = "load_evm" /\ DeployEvmContracts[2].kind = "weth"
      /\ DeployEvmContracts[3].kind = "coinbase" /\ DeployEvmContracts[4].kind = "fund"
      /\ DeployEvmContracts[5].kind = "dump_evm"
  BY StepFields DEF DeployEvmContracts
<1> QED BY <1>1, <1>2, <1>3

LEMMA PayPrograms ==
  ASSUME NEW script \in Scripts
  PROVE  Settled(Program(script), PayAt, Of({"dump_evm"}), PayOff, TRUE)
<1> DEFINE at == PayAt
           on == Of({"dump_evm"})
           off == PayOff
<1>1. ASSUME NEW s \in Seq(Steps), \A i \in DOMAIN s : s[i].kind # "coinbase" /\ s[i].kind # "set_coinbase"
      PROVE  Flow(s, at, on, off, TRUE, TRUE)
  <2>1. \A i \in DOMAIN s : s[i] \notin off
    BY <1>1 DEF PayOff, Of
  <2> HIDE DEF at, on, off
  <2> QED BY <2>1, FlowTrue
<1>2. Flow(DeployEvmContracts, at, on, off, TRUE, TRUE)
  <2> DEFINE s == DeployEvmContracts
  <2>1. /\ s \in Seq(Steps) /\ DOMAIN s = 1..5 /\ Len(s) = 5
        /\ s[1].kind = "load_evm" /\ s[2].kind = "weth" /\ s[3].kind = "coinbase"
        /\ s[4].kind = "fund" /\ s[5].kind = "dump_evm"
    BY EvmContractsSteps
  <2> HIDE DEF s
  <2>2. /\ s[1] \notin off /\ s[2] \notin off /\ s[4] \notin at /\ s[5] \notin at
    BY <2>1 DEF PayAt, PayOff, Of
  <2>3. s[5] \in on
    <3>1. s[5] \in Steps
      BY SMTT(60), <2>1
    <3> QED BY <2>1, <3>1 DEF Of
  <2> HIDE DEF at, on, off
  <2>4. Settled(s, at, on, off, TRUE)
    <3> SUFFICES ASSUME NEW i \in DOMAIN s, s[i] \in at
                 PROVE  \A l \in 1..(i - 1) : s[l] \notin off
      BY DEF Settled
    <3>1. i = 1 \/ i = 2 \/ i = 3
      BY <2>1, <2>2
    <3>2. 1..(1 - 1) = {} /\ 1..(2 - 1) = {1} /\ 1..(3 - 1) = {1, 2}
      OBVIOUS
    <3> QED BY <2>2, <3>1, <3>2
  <2>5. Leads(s, on, off, TRUE)
    <3>1. 5 \in DOMAIN s /\ (5 + 1)..Len(s) = {}
      BY <2>1
    <3> QED BY <2>3, <3>1 DEF Leads
  <2>6. Flow(s, at, on, off, TRUE, TRUE)
    BY <2>1, <2>4, <2>5 DEF Flow
  <2> QED BY <2>6 DEF s
<1>3. /\ Flow(<< Do("register"), Do("starknet"), Do("kakarot"), Do("execute") >>, at, on, off, TRUE, TRUE)
      /\ Flow(<< Do("execute") >>, at, on, off, TRUE, TRUE)
      /\ Flow(<< Do("execute"), Do("remove") >>, at, on, off, TRUE, TRUE)
      /\ Flow(<< Do("teardown") >>, at, on, off, TRUE, TRUE)
      /\ Flow(<< Do("check_deployed") >>, at, on, off, TRUE, TRUE)
      /\ Flow(<< Do("register") >>, at, on, off, TRUE, TRUE)
      /\ Flow(<< Do("check_deployed"), Do("register") >>, at, on, off, TRUE, TRUE)
      /\ Flow(StarknetMain, at, on, off, TRUE, TRUE)
      /\ Flow(KakarotMain, at, on, off, TRUE, TRUE)
  <2>1. ASSUME NEW s, NEW kinds, Made(s, kinds), "coinbase" \notin kinds, "set_coinbase" \notin kinds
        PROVE  Flow(s, at, on, off, TRUE, TRUE)
    BY <1>1, <2>1 DEF Made
  <2> HIDE DEF at, on, off
  <2> QED BY <2>1, BlocksMade
<1>4. /\ Flow(DeployAndFund(EvmDeployer), at, on, off, TRUE, TRUE)
      /\ Flow(DeclareContracts, at, on, off, TRUE, TRUE)
      /\ Flow(DeployDualVmTokens, at, on, off, TRUE, TRUE)
      /\ Flow(SendTransactions, at, on, off, TRUE, TRUE)
  BY <1>1, BlockTypes, BlockKinds
<1>5. Flow(Each("whitelist"), at, on, off, TRUE, TRUE) /\ Flow(Each("sender"), at, on, off, TRUE, TRUE)
  BY <1>1, EachType, BlockKinds
<1> HIDE DEF at, on, off
<1>6. Flow(Main, at, on, off, TRUE, TRUE)
  BY <1>2, <1>3, <1>4, <1>5, MainFlow
<1>7. Flow(DeclareContracts \o Main, at, on, off, TRUE, TRUE)
  BY <1>4, <1>6, FlowConcat
<1>8. /\ Flow(EvmMain, at, on, off, TRUE, TRUE)
      /\ Flow(DualVmMain, at, on, off, TRUE, TRUE)
      /\ Flow(PreEip155Main, at, on, off, TRUE, TRUE)
  BY <1>2, <1>3, <1>4, <1>5, EvmFlow, DualVmFlow, PreEip155Flow
<1>9. Flow(Program(script), at, on, off, TRUE, TRUE)
  BY <1>3, <1>7, <1>8 DEF Program, Scripts
<1> QED BY <1>9 DEF Flow, at, on, off

\* A claim about the coinbase step, which stands after register and in one part only.
LEMMA CoinbasePrograms ==
  ASSUME NEW script \in Scripts, NEW b \in BOOLEAN, NEW on,
         NEW at \in SUBSET Of({"coinbase", "set_coinbase"}),
         NEW off \in SUBSET Of({"coinbase", "set_coinbase", "remove"}),
         Flow(<< Do("register"), Do("starknet"), Do("kakarot"), Do("execute") >>, at, on, off, b, TRUE),
         Flow(<< Do("register") >>, at, on, off, b, TRUE)
  PROVE  Settled(Program(script), at, on, off, b)
<1>1. ASSUME NEW s \in Seq(Steps), NEW c \in BOOLEAN,
             \A i \in DOMAIN s : s[i].kind \notin {"coinbase", "set_coinbase", "remove"}
      PROVE  Flow(s, at, on, off, c, c)
  <2>1. \A i \in DOMAIN s : s[i] \notin at /\ s[i] \notin off
    BY <1>1 DEF Of
  <2> QED BY <2>1, FlowAside
<1>2. ASSUME NEW s \in Seq(Steps), NEW c \in BOOLEAN,
             \A i \in DOMAIN s : s[i].kind \notin {"coinbase", "set_coinbase"}
      PROVE  Flow(s, at, on, off, c, FALSE)
  <2>1. \A i \in DOMAIN s : s[i] \notin at
    BY <1>2 DEF Of
  <2> QED BY <2>1, FlowLate
<1>3. Flow(DeployEvmContracts, at, on, off, TRUE, FALSE)
  <2> DEFINE s == DeployEvmContracts
  <2>1. /\ s \in Seq(Steps) /\ DOMAIN s = 1..5
        /\ s[1].kind = "load_evm" /\ s[2].kind = "weth" /\ s[3].kind = "coinbase"
        /\ s[4].kind = "fund" /\ s[5].kind = "dump_evm"
    BY EvmContractsSteps
  <2> HIDE DEF s
  <2>2. /\ s[1] \notin off /\ s[2] \notin off
        /\ s[1] \notin at /\ s[2] \notin at /\ s[4] \notin at /\ s[5] \notin at
    BY <2>1 DEF Of
  <2>3. Settled(s, at, on, off, TRUE)
    <3> SUFFICES ASSUME NEW i \in DOMAIN s, s[i] \in at
                 PROVE  \A l \in 1..(i - 1) : s[l] \notin off
      BY DEF Settled
    <3>1. i = 3
      BY <2>1, <2>2
    <3>2. 1..(3 - 1) = {1, 2}
      OBVIOUS
    <3> QED BY <2>2, <3>1, <3>2
  <2>4. Flow(s, at, on, off, TRUE, FALSE)
    BY <2>1, <2>3 DEF Flow
  <2> QED BY <2>4 DEF s
<1>4. ASSUME NEW s, NEW kinds, Made(s, kinds),
             "coinbase" \notin kinds, "set_coinbase" \notin kinds, "remove" \notin kinds
      PROVE  Flow(s, at, on, off, b, b) /\ Flow(s, at, on, off, TRUE, TRUE)
  BY <1>1, <1>4 DEF Made
<1>5. ASSUME NEW s, NEW kinds, Made(s, kinds), "coinbase" \notin kinds, "set_coinbase" \notin kinds
      PROVE  Flow(s, at, on, off, b, FALSE) /\ Flow(s, at, on, off, FALSE, FALSE)
  BY <1>2, <1>5 DEF Made
<1>6. /\ Flow(<< Do("execute") >>, at, on, off, TRUE, TRUE)
      /\ Flow(<< Do("execute"), Do("remove") >>, at, on, off, FALSE, FALSE)
      /\ Flow(<< Do("execute") >>, at, on, off, FALSE, FALSE)
      /\ Flow(<< Do("teardown") >>, at, on, off, FALSE, FALSE)
      /\ Flow(<< Do("check_deployed") >>, at, on, off, b, b)
      /\ Flow(<< Do("check_deployed"), Do("register") >>, at, on, off, b, FALSE)
      /\ Flow(StarknetMain, at, on, off, b, FALSE)
      /\ Flow(KakarotMain, at, on, off, b, FALSE)
  <2>1. Flow(<< Do("execute") >>, at, on, off, TRUE, TRUE)
    BY <1>4, BlocksMade
  <2>2. Flow(<< Do("execute"), Do("remove") >>, at, on, off, FALSE, FALSE)
    BY <1>5, BlocksMade
  <2>3. Flow(<< Do("execute") >>, at, on, off, FALSE, FALSE)
    BY <1>5, BlocksMade
  <2>4. Flow(<< Do("teardown") >>, at, on, off, FALSE, FALSE)
    BY <1>5, BlocksMade
  <2>5. Flow(<< Do("check_deployed") >>, at, on, off, b, b)
    BY <1>4, BlocksMade
  <2>6. Flow(<< Do("check_deployed"), Do("register") >>, at, on, off, b, FALSE)
    BY <1>5, BlocksMade
  <2>7. Flow(StarknetMain, at, on, off, b, FALSE)
    BY <1>5, BlocksMade
  <2>8. Flow(KakarotMain, at, on, off, b, FALSE)
    BY <1>5, BlocksMade
  <2> QED BY <2>1, <2>2, <2>3, <2>4, <2>5, <2>6, <2>7, <2>8
<1>7. /\ Flow(DeployAndFund(EvmDeployer), at, on, off, b, b)
      /\ Flow(DeployAndFund(EvmDeployer), at, on, off, TRUE, TRUE)
      /\ Flow(DeclareContracts, at, on, off, b, b)
      /\ Flow(DeployDualVmTokens, at, on, off, FALSE, FALSE)
      /\ Flow(DeployDualVmTokens, at, on, off, b, FALSE)
      /\ Flow(SendTransactions, at, on, off, FALSE, FALSE)
  <2>1. Flow(DeployAndFund(EvmDeployer), at, on, off, b, b)
    BY <1>4, BlocksMade
  <2>2. Flow(DeployAndFund(EvmDeployer), at, on, off, TRUE, TRUE)
    BY <1>4, BlocksMade
  <2>3. Flow(DeclareContracts, at, on, off, b, b)
    BY <1>4, BlocksMade
  <2>4. Flow(DeployDualVmTokens, at, on, off, FALSE, FALSE)
    BY <1>5, BlocksMade
  <2>5. Flow(DeployDualVmTokens, at, on, off, b, FALSE)
    BY <1>5, BlocksMade
  <2>6. Flow(SendTransactions, at, on, off, FALSE, FALSE)
    BY <1>5, BlocksMade
  <2> QED BY <2>1, <2>2, <2>3, <2>4, <2>5, <2>6
<1>8. /\ Flow(Each("whitelist"), at, on, off, FALSE, FALSE)
      /\ Flow(Each("sender"), at, on, off, TRUE, TRUE)
      /\ Flow(Each("sender"), at, on, off, FALSE, FALSE)
  BY <1>1, EachType, BlockKinds
<1>9. Flow(Main, at, on, off, b, FALSE)
  BY ZenonT(60), <1>3, <1>6, <1>7, <1>8, MainFlow
<1>10. Flow(DeclareContracts \o Main, at, on, off, b, FALSE)
  BY <1>7, <1>9, FlowConcat
<1>11. /\ Flow(EvmMain, at, on, off, b, FALSE)
      /\ Flow(DualVmMain, at, on, off, b, FALSE)
      /\ Flow(PreEip155Main, at, on, off, b, FALSE)
  BY <1>3, <1>6, <1>7, <1>8, EvmFlow, DualVmFlow, PreEip155Flow
<1>12. Flow(Program(script), at, on, off, b, FALSE)
  BY <1>6, <1>10, <1>11 DEF Program, Scripts
<1> QED BY <1>12 DEF Flow

LEMMA FirstPrograms ==
  ASSUME NEW script \in Scripts
  PROVE  Settled(Program(script), Of({"coinbase"}), {}, PayOff, TRUE)
<1>1. ASSUME NEW s \in Seq(Steps), \A i \in DOMAIN s : s[i].kind # "coinbase" /\ s[i].kind # "set_coinbase"
      PROVE  Flow(s, Of({"coinbase"}), {}, PayOff, TRUE, TRUE)
  <2>1. \A i \in DOMAIN s : s[i] \notin PayOff
    BY <1>1 DEF PayOff, Of
  <2> QED BY <2>1, FlowTrue
<1>2. /\ Flow(<< Do("register"), Do("starknet"), Do("kakarot"), Do("execute") >>, Of({"coinbase"}), {}, PayOff, TRUE, TRUE)
      /\ Flow(<< Do("register") >>, Of({"coinbase"}), {}, PayOff, TRUE, TRUE)
  BY <1>1, ShortBlocks
<1>3. /\ Of({"coinbase"}) \in SUBSET Of({"coinbase", "set_coinbase"})
      /\ PayOff \in SUBSET Of({"coinbase", "set_coinbase", "remove"})
  BY DEF PayOff, Of
<1> QED BY <1>2, <1>3, CoinbasePrograms

LEMMA LazyPrograms ==
  ASSUME NEW script \in Scripts, NEW now
  PROVE  Settled(Program(script), PayOff, Of({"register"}), Of({"remove"}), now)
<1> DEFINE at == PayOff
           on == Of({"register"})
           off == Of({"remove"})
<1>1. ASSUME NEW s \in Seq(Steps), 1 \in DOMAIN s, s[1].kind = "register",
             \A i \in DOMAIN s : s[i].kind \notin {"coinbase", "set_coinbase", "remove"}
      PROVE  Flow(s, at, on, off, FALSE, TRUE)
  <2>1. \A i \in DOMAIN s : s[i] \notin at /\ s[i] \notin off
    BY <1>1 DEF PayOff, Of
  <2>2. s[1] \in on
    BY <1>1 DEF Of
  <2>3. \A l \in (1 + 1)..Len(s) : l \in DOMAIN s
    OBVIOUS
  <2> HIDE DEF at, on, off
  <2> QED BY <1>1, <2>1, <2>2, <2>3 DEF Flow, Settled, Leads
<1>2. /\ Flow(<< Do("register"), Do("starknet"), Do("kakarot"), Do("execute") >>, at, on, off, FALSE, TRUE)
      /\ Flow(<< Do("register") >>, at, on, off, FALSE, TRUE)
  <2>1. /\ 1 \in DOMAIN << Do("register"), Do("starknet"), Do("kakarot"), Do("execute") >>
        /\ 1 \in DOMAIN << Do("register") >>
        /\ << Do("register"), Do("starknet"), Do("kakarot"), Do("execute") >>[1].kind = "register"
        /\ << Do("register") >>[1].kind = "register"
    BY StepFields
  <2> HIDE DEF at, on, off
  <2> QED BY <1>1, <2>1, ShortBlocks
<1>3. /\ at \in SUBSET Of({"coinbase", "set_coinbase"})
      /\ off \in SUBSET Of({"coinbase", "set_coinbase", "remove"})
  BY DEF PayOff, Of
<1> HIDE DEF at, on, off
<1>4. Settled(Program(script), at, on, off, FALSE)
  BY <1>2, <1>3, CoinbasePrograms
<1> QED BY <1>4 DEF Settled, at, on, off

LEMMA AtOnce ==
  ASSUME NEW s, NEW at, NEW on, NEW off, NEW now, Settled(s, at, on, off, now),
         1 \in DOMAIN s, s[1] \in at
  PROVE  now
<1>1. 1..(1 - 1) = {}
  OBVIOUS
<1> QED BY <1>1 DEF Settled

\* What holds when the next step is one that relies on it.
LEMMA Due ==
  ASSUME TInv, GInv, KInv, proc.todo # <<>>
  PROVE
  LET kind == Head(proc.todo).kind
  IN /\ kind \in {"dump_evm", "coinbase"} => KnownIn(proc.evm)
     /\ kind \in {"execute", "eoa", "deploy_evm", "send", "coinbase", "load_evm", "weth", "token", "sender"} =>
          Pays(Good(files.evm))
     /\ kind = "coinbase" => Pays({Deployer})
     /\ kind = "deploy_evm" /\ Subject = "Coinbase" => Pays({Deployer}) /\ DeployerPaid
     /\ kind \in {"coinbase", "set_coinbase"} => proc.lazy
<1> DEFINE x == proc.todo[1]
<1>1. Head(proc.todo) = x /\ x \in Steps /\ 1 \in DOMAIN proc.todo
  BY HeadFacts
<1>2. /\ x.kind \in {"dump_evm", "coinbase"} => x \in KnownAt
      /\ x.kind \in {"execute", "eoa", "deploy_evm", "send", "coinbase", "load_evm", "weth", "token", "sender"} =>
           x \in PayAt
      /\ x.kind = "coinbase" => x \in Of({"coinbase"})
      /\ x.kind = "deploy_evm" /\ x.of = "Coinbase" => x \in CoinbaseDeployment
      /\ x.kind \in {"coinbase", "set_coinbase"} => x \in PayOff
  BY <1>1 DEF KnownAt, PayAt, PayOff, CoinbaseDeployment, Of
<1>3. /\ x \in KnownAt => KnownIn(proc.evm)
      /\ x \in PayAt => Pays(Good(files.evm))
      /\ x \in Of({"coinbase"}) => Pays({Deployer})
      /\ x \in CoinbaseDeployment => Pays({Deployer}) /\ DeployerPaid
      /\ x \in PayOff => proc.lazy
  <2>1. x \in KnownAt => KnownIn(proc.evm)
    BY <1>1, AtOnce DEF KInv
  <2>2. x \in PayAt => Pays(Good(files.evm))
    BY <1>1, AtOnce DEF KInv
  <2>3. x \in Of({"coinbase"}) => Pays({Deployer})
    BY <1>1, AtOnce DEF KInv
  <2>4. x \in CoinbaseDeployment => Pays({Deployer}) /\ DeployerPaid
    <3> DEFINE now == Pays({Deployer}) /\ DeployerPaid
    <3>1. Settled(proc.todo, CoinbaseDeployment, {}, FirstOff, now)
      BY DEF KInv
    <3> HIDE DEF now
    <3>2. x \in CoinbaseDeployment => now
      BY <1>1, <3>1, AtOnce
    <3> QED BY <3>2 DEF now
  <2>5. x \in PayOff => proc.lazy
    <3>1. Settled(proc.todo, PayOff, Of({"register"}), Of({"remove"}), proc.lazy)
      BY DEF KInv
    <3>2. x \in PayOff => proc.lazy
      BY <1>1, <3>1, AtOnce
    <3> QED BY <3>2
  <2> QED BY <2>1, <2>2, <2>3, <2>4, <2>5
<1> QED BY <1>1, <1>2, <1>3 DEF Subject

\* Where a coinbase may come from.
LEMMA CoinbaseComesFrom ==
  ASSUME TInv, GInv, CInv, FInv, KInv, [Next]_vars, KakarotAnswers'
  PROVE  /\ Kakarot' = Kakarot /\ Core' = chain'.core[Kakarot]
         /\ \/ KakarotAnswers /\ Core'.coinbase = Core.coinbase
            \/ /\ Execute \/ CreatePool
               /\ \E c \in Names(proc.queue) : c.op = "set_coinbase" /\ c.arg = Core'.coinbase
<1>1. Recorded("kakarot") /\ Kakarot' = Kakarot /\ Kakarot \in DOMAIN chain'.core
  BY SameKakarotStill DEF KakarotAnswers
<1>2. Core' = chain'.core[Kakarot]
  BY <1>1 DEF Core
<1>3. Core'.coinbase # Unset
  BY <1>1, <1>2, StepProvides DEF CInv, Provided
<1>4. ~(SetCoinbase /\ ~proc.lazy)
  BY HeadAt, Due DEF SetCoinbase
<1> QED BY <1>1, <1>2, <1>3, <1>4, CoinbaseChanges DEF KakarotAnswers, Core

LEMMA KnownFiles ==
  ASSUME TInv, GInv, CInv, FInv, KInv, [Next]_vars
  PROVE  KnownIn(files.evm)'
<1> SUFFICES ASSUME KakarotAnswers'
             PROVE  Core'.coinbase \in Good(files'.evm)
  BY DEF KnownIn, Good
<1>1. CASE KakarotAnswers /\ Core'.coinbase = Core.coinbase
  <2>1. CASE files'.evm = files.evm
    BY <1>1, <2>1 DEF KInv, KnownIn
  <2>2. CASE DumpEvm
    <3>1. files'.evm = proc.evm
      BY <2>2 DEF DumpEvm, TInv
    <3>2. KnownIn(proc.evm)
      BY <2>2, HeadAt, Due DEF DumpEvm
    <3> QED BY <1>1, <3>1, <3>2 DEF KnownIn
  <2> QED BY <2>1, <2>2, FieldsKept
<1>2. CASE /\ Execute \/ CreatePool
           /\ \E c \in Names(proc.queue) : c.op = "set_coinbase" /\ c.arg = Core'.coinbase
  <2>1. files'.evm = files.evm
    BY <1>2 DEF Execute, CreatePool
  <2>2. Pays(Good(files.evm))
    BY <1>2, HeadAt, Due DEF Execute, CreatePool
  <2> QED BY <1>2, <2>1, <2>2 DEF Pays
<1> QED BY <1>1, <1>2, CoinbaseComesFrom

\* Noting a contract changes what is known of the coinbase where Coinbase is deployed.
LEMMA NotedGood ==
  ASSUME TInv, GInv, KInv, [Next]_vars, Continues, DeployEvm \/ Send
  PROVE  \/ Pays({Deployer}) /\ DeployerPaid
         \/ Good(proc'.evm) = Good(proc.evm)
<1>1. /\ proc.todo # <<>>
      /\ \E v : proc'.evm = With(proc.evm, Subject, v)
  BY TokenNoted DEF Continues
<1>2. CASE Subject = "Coinbase"
  <2>1. Head(proc.todo).kind = "deploy_evm"
    <3>1. Send => Head(proc.todo).kind = "send" /\ Head(proc.todo) \in Steps
      BY <1>1, HeadAt, HeadFacts DEF Send
    <3>2. Send => Subject \in Names(PreEip155)
      BY <3>1 DEF Steps, Subject
    <3>3. ~Send
      BY <1>2, <3>2, NamesApart DEF EvmContracts
    <3> QED BY ZenonT(30), <3>3, HeadAt DEF DeployEvm
  <2> QED BY <1>1, <1>2, <2>1, Due
<1>3. CASE Subject # "Coinbase"
  <2>1. PICK v : proc'.evm = With(proc.evm, Subject, v)
    BY <1>1
  <2>2. /\ "Coinbase" \in DOMAIN proc'.evm <=> "Coinbase" \in DOMAIN proc.evm
        /\ "Coinbase" \in DOMAIN proc.evm => proc'.evm["Coinbase"] = proc.evm["Coinbase"]
    BY <1>3, <2>1 DEF With
  <2> QED BY <2>2 DEF Good
<1> QED BY <1>2, <1>3

LEMMA LoadedEvm ==
  ASSUME TInv, LoadEvm
  PROVE  /\ proc'.evm = files.evm /\ proc.todo # <<>> /\ Head(proc.todo).kind = "load_evm"
         /\ UNCHANGED files
<1>1. /\ proc.todo # <<>> /\ Head(proc.todo).kind = "load_evm" /\ UNCHANGED files
      /\ proc' = [Done(proc) EXCEPT !.evm = files.evm]
  BY HeadAt DEF LoadEvm
<1> QED BY <1>1, DoneFields DEF Processes

\* The queue of a new process, and of one that ends, is empty.
LEMMA QueueStarts ==
  ASSUME TInv, ~Continues
  PROVE  Names(proc'.queue) = {}
<1>1. NoProcess.queue = <<>> /\ NoProcess \in Processes
  BY NoProcessType DEF NoProcess
<1>2. CASE proc' = NoProcess
  BY <1>1, <1>2, NamesFew
<1>3. CASE \E script \in Scripts : Start(script)
  <2>1. PICK script \in Scripts : proc' = [NoProcess EXCEPT !.script = script, !.todo = Program(script)]
    BY <1>3 DEF Start
  <2>2. proc'.queue = <<>>
    BY <1>1, <2>1 DEF Processes
  <2> QED BY <2>2, NamesFew
<1> QED BY <1>2, <1>3 DEF Continues

\* The calls that set a coinbase pay the deployer, or what the process has noted.
LEMMA PaysNoted ==
  ASSUME TInv, GInv, KInv, [Next]_vars
  PROVE  Pays(Good(proc.evm))'
<1> SUFFICES ASSUME NEW c \in Names(proc'.queue), c.op = "set_coinbase"
             PROVE  c.arg \in Good(proc'.evm)
  BY DEF Pays, Good
<1>1. Continues
  BY QueueStarts
<1>2. CASE c \in Names(proc.queue)
  <2>1. CASE proc'.evm = proc.evm
    BY <1>2, <2>1 DEF KInv, Pays
  <2>2. CASE LoadEvm
    <3>1. proc'.evm = files.evm /\ Pays(Good(files.evm))
      BY <2>2, LoadedEvm, Due
    <3> QED BY <1>2, <3>1 DEF Pays
  <2>3. CASE DeployEvm \/ Send
    <3>1. CASE Pays({Deployer})
      BY <1>2, <3>1 DEF Pays, Good
    <3>2. CASE Good(proc'.evm) = Good(proc.evm)
      BY <1>2, <3>2 DEF KInv, Pays
    <3> QED BY <1>1, <2>3, <3>1, <3>2, NotedGood
  <2> QED BY <1>1, <2>1, <2>2, <2>3, ProcessKept DEF Continues
<1>3. CASE DeployOrUpgradeKakarot /\ c.arg = Deployer
  BY <1>3 DEF Good
<1>4. CASE SetCoinbase /\ c.arg = proc.evm["Coinbase"].address
  <2>1. proc.todo # <<>> /\ Head(proc.todo).kind = "set_coinbase"
    BY <1>4, HeadAt DEF SetCoinbase
  <2>2. "Coinbase" \in DOMAIN proc.evm
    BY <2>1, HeadFacts
  <2>3. proc'.evm = proc.evm
    <3>1. ~LoadEvm /\ ~DeployEvm /\ ~Send
      BY <2>1, StepAt, HeadAt
    <3> QED BY <1>1, <3>1, ProcessKept DEF Continues
  <2> QED BY <1>4, <2>2, <2>3 DEF Good
<1> QED BY <1>2, <1>3, <1>4, QueueBy DEF Added

\* What the process knows stays known.
LEMMA KnownKept ==
  ASSUME TInv, GInv, CInv, FInv, KInv, [Next]_vars, Continues
  PROVE  /\ KnownIn(proc.evm) => KnownIn(proc.evm)'
         /\ LoadEvm => KnownIn(proc.evm)'
<1>1. ASSUME LoadEvm PROVE KnownIn(proc.evm)'
  <2>1. proc'.evm = files'.evm
    BY <1>1, LoadedEvm
  <2>2. KnownIn(files.evm)'
    BY KnownFiles
  <2> QED BY <2>1, <2>2 DEF KnownIn, Good
<1>2. ASSUME KnownIn(proc.evm), ~LoadEvm PROVE KnownIn(proc.evm)'
  <2> SUFFICES ASSUME KakarotAnswers'
               PROVE  Core'.coinbase \in Good(proc'.evm)
    BY DEF KnownIn, Good
  <2>1. CASE KakarotAnswers /\ Core'.coinbase = Core.coinbase
    <3>1. CASE proc'.evm = proc.evm
      BY <1>2, <2>1, <3>1 DEF KnownIn
    <3>2. CASE DeployEvm \/ Send
      <4>1. CASE DeployerPaid
        BY <2>1, <4>1 DEF DeployerPaid, Good
      <4>2. CASE Good(proc'.evm) = Good(proc.evm)
        BY <1>2, <2>1, <4>2 DEF KnownIn
      <4> QED BY <3>2, <4>1, <4>2, NotedGood
    <3> QED BY <1>2, <3>1, <3>2, ProcessKept DEF Continues
  <2>2. CASE /\ Execute \/ CreatePool
             /\ \E c \in Names(proc.queue) : c.op = "set_coinbase" /\ c.arg = Core'.coinbase
    <3>1. proc'.evm = proc.evm
      <4>1. CASE CreatePool
        BY <4>1 DEF CreatePool, TInv, Processes
      <4>2. CASE Execute
        <5>1. ~LoadEvm /\ ~DeployEvm /\ ~Send
          BY <4>2, StepAt, HeadAt
        <5> QED BY <5>1, ProcessKept DEF Continues
      <4> QED BY <2>2, <4>1, <4>2
    <3> QED BY <2>2, <3>1 DEF KInv, Pays
  <2> QED BY <2>1, <2>2, CoinbaseComesFrom
<1> QED BY <1>1, <1>2

\* The deployer stays the coinbase, and the only one to come.
LEMMA DeployerKept ==
  ASSUME TInv, GInv, CInv, FInv, KInv, [Next]_vars, Continues, ~SetCoinbase, Pays({Deployer})
  PROVE  /\ Pays({Deployer})'
         /\ DeployerPaid => DeployerPaid'
<1>1. Pays({Deployer})'
  BY QueueBy DEF Pays, Added
<1>2. ASSUME DeployerPaid, KakarotAnswers'
      PROVE  Core'.coinbase = Deployer
  BY <1>2, CoinbaseComesFrom DEF DeployerPaid, Pays
<1> QED BY <1>1, <1>2 DEF DeployerPaid

\* The calls stay payments to what the file names.
LEMMA PaysKept ==
  ASSUME TInv, GInv, KInv, [Next]_vars, ~SetCoinbase
  PROVE  /\ Pays(Good(files.evm)) => Pays(Good(files.evm))'
         /\ DumpEvm => Pays(Good(files.evm))'
<1>1. \A c \in Names(proc'.queue) : c.op = "set_coinbase" => c \in Names(proc.queue) \/ c.arg = Deployer
  BY QueueBy DEF Added
<1>2. CASE DumpEvm
  <2>1. files'.evm = proc.evm
    BY <1>2 DEF DumpEvm, TInv
  <2> QED BY <1>1, <1>2, <2>1 DEF KInv, Pays, Good
<1>3. CASE ~DumpEvm
  <2>1. files'.evm = files.evm
    BY <1>3, FieldsKept
  <2> QED BY <1>1, <1>3, <2>1 DEF Pays, Good
<1> QED BY <1>2, <1>3

\* The steps that are put in front, as far as the coinbase is concerned.
LEMMA InsertsCoinbase ==
  ASSUME TInv, GInv, proc.todo # <<>>, NEW t, Inserts(Head(proc.todo), t)
  PROVE  /\ t \in Seq(Steps) /\ t # <<>>
         /\ Head(proc.todo).kind \in {"weth", "coinbase", "token", "sender"}
         /\ \A i \in DOMAIN t : t[i].kind \in InsertedKinds
         /\ Head(proc.todo).kind = "coinbase" =>
              /\ DOMAIN t = 1..3 /\ t[1].kind = "eoa" /\ t[3].kind = "set_coinbase"
              /\ t[2].kind = "deploy_evm" /\ t[2].of = "Coinbase"
         /\ Head(proc.todo).kind # "coinbase" =>
              \A i \in DOMAIN t : t[i].kind # "set_coinbase" /\ t[i] \notin CoinbaseDeployment
<1>1. t \in Seq(Steps) /\ \A i \in DOMAIN t : t[i].kind \in InsertedKinds
  BY InsertsKinds
<1>2. /\ Head(proc.todo).kind \in {"weth", "coinbase", "token", "sender"}
      /\ Head(proc.todo).kind = "coinbase" =>
           /\ DOMAIN t = 1..3 /\ t[1].kind = "eoa" /\ t[3].kind = "set_coinbase"
           /\ t[2].kind = "deploy_evm" /\ t[2].of = "Coinbase"
  BY InsertsShape
<1>3. 1 \in DOMAIN t
  <2>1. 1 \in 1..2 /\ 1 \in 1..3 /\ 1 \in 1..4
    OBVIOUS
  <2> QED BY <2>1, InsertsShape
<1>4. ASSUME Head(proc.todo).kind # "coinbase", NEW i \in DOMAIN t
      PROVE  t[i].kind # "set_coinbase" /\ ~(t[i].kind = "deploy_evm" /\ t[i].of = "Coinbase")
  <2>1. i = 1 \/ i = 2 \/ i = 3 \/ i = 4
    BY <1>4, InsertsShape
  <2>2. /\ t[1].kind # "set_coinbase" /\ t[1].kind # "deploy_evm"
        /\ t[2].kind # "set_coinbase" /\ (t[2].kind = "deploy_evm" => t[2].of # "Coinbase")
        /\ 3 \in DOMAIN t => t[3].kind # "set_coinbase" /\ t[3].kind # "deploy_evm"
        /\ 4 \in DOMAIN t => t[4].kind # "set_coinbase" /\ t[4].kind # "deploy_evm"
    <3>1. 3 \notin 1..2 /\ 4 \notin 1..2 /\ 4 \notin 1..3
      OBVIOUS
    <3> QED BY <1>4, <3>1, InsertsShape
  <2> QED BY <1>4, <2>1, <2>2
<1>5. t # <<>>
  BY <1>1, <1>3
<1> QED BY <1>1, <1>2, <1>4, <1>5 DEF CoinbaseDeployment, Of

\* What a process may do at its next step.
LEMMA NextIsHead ==
  ASSUME TInv, GInv, [Next]_vars, Steps1
  PROVE  /\ Continues /\ proc.todo # <<>> /\ Head(proc.todo) = proc.todo[1]
         /\ 1 \in DOMAIN proc.todo /\ proc.todo[1] \in Steps
         /\ SetCoinbase => Head(proc.todo).kind = "set_coinbase"
         /\ Head(proc.todo).kind = "dump_evm" => DumpEvm
         /\ Head(proc.todo).kind = "load_evm" => LoadEvm
         /\ Head(proc.todo).kind = "coinbase" => Coinbase
BY NextTells, HeadFacts, HeadAt, StepAt DEF Steps1

LEMMA KnownSettled ==
  ASSUME TInv, GInv, CInv, FInv, KInv, [Next]_vars
  PROVE  Settled(proc'.todo, KnownAt, Of({"load_evm"}), {}, KnownIn(proc.evm)')
<1> DEFINE at == KnownAt
           on == Of({"load_evm"})
           now == KnownIn(proc.evm)
           then == KnownIn(proc.evm)'
<1>1. \A script \in Scripts : Settled(Program(script), at, on, {}, then)
  BY KnownPrograms
<1>2. Continues /\ now => then
  BY KnownKept
<1>3. ASSUME Steps1 PROVE proc.todo[1] \in on => then
  BY <1>3, NextIsHead, KnownKept DEF Of
<1>4. ASSUME Steps1, NEW t, Inserts(Head(proc.todo), t)
      PROVE  Flow(t, at, on, {}, then, then)
  <2>1. t \in Seq(Steps) /\ \A i \in DOMAIN t : t[i].kind \in InsertedKinds
    BY <1>4, NextIsHead, InsertsCoinbase
  <2>2. \A i \in DOMAIN t : t[i] \notin at
    BY <2>1 DEF KnownAt, Of, InsertedKinds
  <2> HIDE DEF at, on, then
  <2> QED BY <2>1, <2>2, FlowAside
<1>5. Settled(proc.todo, at, on, {}, now)
  BY DEF KInv
<1> HIDE DEF at, on, now, then
<1>6. Steps1 => Continues
  BY DEF Steps1
<1>7. Settled(proc'.todo, at, on, {}, then)
  BY <1>1, <1>2, <1>3, <1>4, <1>5, <1>6, SettledStep
<1> QED BY <1>7 DEF at, on, then

LEMMA PaySettled ==
  ASSUME TInv, GInv, CInv, FInv, KInv, [Next]_vars
  PROVE  Settled(proc'.todo, PayAt, Of({"dump_evm"}), PayOff, Pays(Good(files.evm))')
<1> DEFINE at == PayAt
           on == Of({"dump_evm"})
           off == PayOff
           now == Pays(Good(files.evm))
           then == Pays(Good(files.evm))'
           between == then /\ Head(proc.todo).kind # "coinbase"
<1>1. \A script \in Scripts : Start(script) => Settled(Program(script), at, on, off, then)
  <2> SUFFICES ASSUME NEW script \in Scripts, Start(script)
               PROVE  Settled(Program(script), at, on, off, then)
    OBVIOUS
  <2>1. then
    BY QueueStarts DEF Continues, Pays
  <2>2. Settled(Program(script), at, on, off, TRUE)
    BY PayPrograms
  <2> HIDE DEF at, on, off, then
  <2> QED BY <2>1, <2>2 DEF Settled
<1>2. Continues /\ (CreatePool \/ UNCHANGED vars) /\ now => then
  <2>1. ASSUME CreatePool PROVE then
    <3>1. proc'.queue = <<>>
      BY <2>1 DEF CreatePool, TInv, Processes
    <3> QED BY <3>1, NamesFew DEF Pays
  <2>2. ASSUME UNCHANGED vars, now PROVE then
    BY <2>2 DEF vars, Pays, Good
  <2> QED BY <2>1, <2>2
<1>3. ASSUME Steps1
      PROVE  /\ proc.todo[1] \in on => then
             /\ now /\ proc.todo[1] \notin off => then /\ Head(proc.todo).kind # "coinbase"
             /\ Head(proc.todo).kind \in {"weth", "coinbase", "token", "sender"} => then
  <2>1. /\ proc.todo[1] \in on => DumpEvm /\ ~SetCoinbase
        /\ proc.todo[1] \notin off => ~SetCoinbase /\ Head(proc.todo).kind # "coinbase"
        /\ Head(proc.todo).kind \in {"weth", "coinbase", "token", "sender"} => ~SetCoinbase /\ now
    BY <1>3, NextIsHead, Due DEF PayOff, Of
  <2> QED BY <2>1, PaysKept
<1>4. ASSUME Steps1, NEW t, Inserts(Head(proc.todo), t)
      PROVE  Flow(t, at, on, off, then, between)
  <2>1. /\ t \in Seq(Steps)
        /\ Head(proc.todo).kind \in {"weth", "coinbase", "token", "sender"}
        /\ \A i \in DOMAIN t : t[i].kind \in InsertedKinds
        /\ Head(proc.todo).kind = "coinbase" =>
             /\ DOMAIN t = 1..3 /\ t[1].kind = "eoa" /\ t[3].kind = "set_coinbase"
             /\ t[2].kind = "deploy_evm" /\ t[2].of = "Coinbase"
        /\ Head(proc.todo).kind # "coinbase" =>
             \A i \in DOMAIN t : t[i].kind # "set_coinbase"
    BY <1>4, NextIsHead, InsertsCoinbase
  <2>2. then
    BY <1>3, <1>4, <2>1
  <2>3. CASE Head(proc.todo).kind # "coinbase"
    <3>1. \A i \in DOMAIN t : t[i] \notin off
      BY <2>1, <2>3 DEF PayOff, Of, InsertedKinds
    <3>2. Flow(t, at, on, off, then, then)
      <4> HIDE DEF at, on, off, then
      <4> QED BY <2>1, <2>2, <3>1, FlowTrue
    <3> HIDE DEF at, on, off, then
    <3> QED BY <2>2, <2>3, <3>2
  <2>4. CASE Head(proc.todo).kind = "coinbase"
    <3>1. t[1] \notin off /\ t[3] \notin at /\ DOMAIN t = 1..3
      BY <2>1, <2>4 DEF PayAt, PayOff, Of
    <3> HIDE DEF at, on, off, then
    <3>2. Settled(t, at, on, off, then)
      <4> SUFFICES ASSUME NEW i \in DOMAIN t, t[i] \in at
                   PROVE  \A l \in 1..(i - 1) : t[l] \notin off
        BY <2>2 DEF Settled
      <4>1. i = 1 \/ i = 2
        BY <3>1
      <4>2. 1..(1 - 1) = {} /\ 1..(2 - 1) = {1}
        OBVIOUS
      <4> QED BY <3>1, <4>1, <4>2
    <3> QED BY <2>1, <2>4, <3>2 DEF Flow
  <2> QED BY <2>3, <2>4
<1>5. Settled(proc.todo, at, on, off, now)
  BY DEF KInv
<1>6. ASSUME Steps1, NEW t, Inserts(Head(proc.todo), t)
      PROVE  proc.todo[1] \notin on
  <2>1. Head(proc.todo).kind # "dump_evm"
    BY <1>6, NextIsHead, InsertsCoinbase
  <2> QED BY <1>6, <2>1, NextIsHead DEF Of
<1> HIDE DEF at, on, off, now, then
<1>7. /\ \A t : Steps1 /\ Inserts(Head(proc.todo), t) =>
           /\ proc.todo[1] \in on => between
           /\ now /\ proc.todo[1] \notin off => between
           /\ Flow(t, at, on, off, then, between)
      /\ Steps1 => /\ proc.todo[1] \in on => then
                   /\ now /\ proc.todo[1] \notin off => then
  BY <1>3, <1>4, <1>6
<1> HIDE DEF between
<1>8. Settled(proc'.todo, at, on, off, then)
  BY <1>1, <1>2, <1>5, <1>7, SettledStep
<1> QED BY <1>8 DEF at, on, off, then

LEMMA FirstSettled ==
  ASSUME TInv, GInv, CInv, FInv, KInv, [Next]_vars
  PROVE  Settled(proc'.todo, Of({"coinbase"}), {}, PayOff, Pays({Deployer})')
<1> DEFINE at == Of({"coinbase"})
           off == PayOff
           now == Pays({Deployer})
           then == Pays({Deployer})'
           between == then /\ Head(proc.todo).kind # "coinbase"
<1>1. \A script \in Scripts : Start(script) => Settled(Program(script), at, {}, off, then)
  <2> SUFFICES ASSUME NEW script \in Scripts, Start(script)
               PROVE  Settled(Program(script), at, {}, off, then)
    OBVIOUS
  <2>1. then
    BY QueueStarts DEF Continues, Pays
  <2>2. Settled(Program(script), at, {}, off, TRUE)
    BY FirstPrograms
  <2> HIDE DEF at, off, then
  <2> QED BY <2>1, <2>2 DEF Settled
<1>2. Continues /\ (CreatePool \/ UNCHANGED vars) /\ now => then
  <2>1. ASSUME CreatePool PROVE then
    <3>1. proc'.queue = <<>>
      BY <2>1 DEF CreatePool, TInv, Processes
    <3> QED BY <3>1, NamesFew DEF Pays
  <2>2. ASSUME UNCHANGED vars, now PROVE then
    BY <2>2 DEF vars, Pays
  <2> QED BY <2>1, <2>2
<1>3. ASSUME Steps1
      PROVE  now /\ proc.todo[1] \notin off => then /\ Head(proc.todo).kind # "coinbase"
  <2>1. proc.todo[1] \notin off => ~SetCoinbase /\ Head(proc.todo).kind # "coinbase"
    BY <1>3, NextIsHead DEF PayOff, Of
  <2> QED BY <1>3, <2>1, DeployerKept, NextIsHead
<1>4. ASSUME Steps1, NEW t, Inserts(Head(proc.todo), t)
      PROVE  Flow(t, at, {}, off, then, between)
  <2>1. /\ t \in Seq(Steps)
        /\ \A i \in DOMAIN t : t[i].kind \in InsertedKinds
        /\ Head(proc.todo).kind # "coinbase" =>
             \A i \in DOMAIN t : t[i].kind # "set_coinbase"
    BY <1>4, NextIsHead, InsertsCoinbase
  <2>2. /\ \A i \in DOMAIN t : t[i] \notin at
        /\ Head(proc.todo).kind # "coinbase" => \A i \in DOMAIN t : t[i] \notin off
    BY <2>1 DEF PayOff, Of, InsertedKinds
  <2> HIDE DEF at, off, then
  <2>3. CASE Head(proc.todo).kind = "coinbase"
    BY <2>1, <2>2, <2>3, FlowLate
  <2>4. CASE Head(proc.todo).kind # "coinbase"
    <3>1. Flow(t, at, {}, off, then, then)
      BY <2>1, <2>2, <2>4, FlowAside
    <3> QED BY <3>1 DEF Flow
  <2> QED BY <2>3, <2>4
<1>5. Settled(proc.todo, at, {}, off, now)
  BY DEF KInv
<1> HIDE DEF at, off, now, then
<1>6. /\ \A t : Steps1 /\ Inserts(Head(proc.todo), t) =>
           /\ now /\ proc.todo[1] \notin off => between
           /\ Flow(t, at, {}, off, then, between)
      /\ Steps1 /\ now /\ proc.todo[1] \notin off => then
  BY <1>3, <1>4
<1> HIDE DEF between
<1>7. Settled(proc'.todo, at, {}, off, then)
  BY <1>1, <1>2, <1>5, <1>6, SettledStep
<1> QED BY <1>7 DEF at, off, then

\* What is put in front of a list with something in it is seen.
LEMMA FrontIsSeen ==
  ASSUME NEW t \in Seq(Steps), NEW u \in Seq(Steps), t # <<>>
  PROVE  t \o u # <<>> \o u
<1>1. Len(t) > 0 /\ Len(t) \in Nat /\ Len(u) \in Nat
  OBVIOUS
<1>2. Len(t \o u) = Len(t) + Len(u)
  OBVIOUS
<1>3. Len(<<>> \o u) = Len(u)
  OBVIOUS
<1> QED BY <1>1, <1>2, <1>3

\* Coinbase deploys only where the deployer is paid.
LEMMA CoinbaseDeploys ==
  ASSUME TInv, GInv, KInv, Coinbase, Continues, NEW t \in Seq(Steps), t # <<>>,
         proc'.todo = t \o Tail(proc.todo)
  PROVE  DeployerPaid
<1>1. proc.todo # <<>> /\ Head(proc.todo).kind = "coinbase"
  BY HeadAt, StepAt
<1>2. proc.todo \in Seq(Steps) /\ Tail(proc.todo) \in Seq(Steps)
  BY <1>1 DEF TInv, Processes
<1>3. KakarotAnswers
  <2> SUFFICES ASSUME ~KakarotAnswers PROVE FALSE
    OBVIOUS
  <2>1. proc' = NoProcess
    BY DEF Coinbase, Raise, Ends
  <2> QED BY <2>1 DEF Continues
<1>4. ~CoinbaseIsRecorded
  <2> SUFFICES ASSUME CoinbaseIsRecorded PROVE FALSE
    OBVIOUS
  <2>1. proc' = [proc EXCEPT !.todo = <<>> \o Tail(proc.todo)]
    BY <1>3 DEF Coinbase
  <2>2. proc'.todo = <<>> \o Tail(proc.todo)
    BY <2>1 DEF TInv, Processes
  <2> QED BY <1>2, <2>2, FrontIsSeen
<1>5. Core.coinbase \in Good(proc.evm)
  BY <1>1, <1>3, Due DEF KnownIn
<1>6. Core.coinbase = Deployer
  BY <1>4, <1>5 DEF Good, CoinbaseIsRecorded
<1> QED BY <1>6 DEF DeployerPaid

LEMMA DeployerSettled ==
  ASSUME TInv, GInv, CInv, FInv, KInv, [Next]_vars
  PROVE  Settled(proc'.todo, CoinbaseDeployment, {}, FirstOff, (Pays({Deployer}) /\ DeployerPaid)')
<1> DEFINE at == CoinbaseDeployment
           off == FirstOff
           now == Pays({Deployer}) /\ DeployerPaid
           then == (Pays({Deployer}) /\ DeployerPaid)'
<1>1. \A script \in Scripts : Settled(Program(script), at, {}, off, then)
  <2> SUFFICES ASSUME NEW script \in Scripts
               PROVE  Settled(Program(script), at, {}, off, then)
    OBVIOUS
  <2>1. Lacks(Program(script), Inserted)
    BY Programs DEF Entered, Programmed
  <2>2. \A i \in DOMAIN Program(script) : Program(script)[i] \notin at
    BY <2>1 DEF Lacks, Inserted, CoinbaseDeployment, Of
  <2> QED BY <2>2 DEF Settled
<1>2. ASSUME Continues, now, ~SetCoinbase
      PROVE  then
  BY <1>2, DeployerKept
<1>3. Continues /\ (CreatePool \/ UNCHANGED vars) /\ now => then
  <2>1. ASSUME UNCHANGED vars, now PROVE then
    BY <2>1 DEF vars, Pays, DeployerPaid, KakarotAnswers, Recorded, Core, Kakarot
  <2>2. ASSUME CreatePool PROVE ~SetCoinbase
    BY <2>2, HeadAt, StepAt DEF CreatePool
  <2> QED BY <1>2, <2>1, <2>2
<1>4. ASSUME Steps1
      PROVE  now /\ proc.todo[1] \notin off => then
  <2>1. proc.todo[1] \notin off => ~SetCoinbase
    BY <1>4, NextIsHead DEF FirstOff, Of
  <2> QED BY <1>2, <1>4, <2>1, NextIsHead
<1>5. ASSUME Steps1, NEW t, Inserts(Head(proc.todo), t), proc'.todo = t \o Tail(proc.todo)
      PROVE  proc.todo[1] \in off /\ Flow(t, at, {}, off, then, FALSE)
  <2>1. /\ t \in Seq(Steps) /\ t # <<>>
        /\ Head(proc.todo).kind \in {"weth", "coinbase", "token", "sender"}
        /\ Head(proc.todo).kind = "coinbase" =>
             /\ DOMAIN t = 1..3 /\ t[1].kind = "eoa" /\ t[3].kind = "set_coinbase"
             /\ t[2].kind = "deploy_evm" /\ t[2].of = "Coinbase"
        /\ Head(proc.todo).kind # "coinbase" => \A i \in DOMAIN t : t[i] \notin at
    BY <1>5, NextIsHead, InsertsCoinbase
  <2>2. proc.todo[1] \in off
    BY <1>5, <2>1, NextIsHead DEF FirstOff, Of
  <2>3. CASE Head(proc.todo).kind # "coinbase"
    <3> HIDE DEF at, off, then
    <3> QED BY <2>1, <2>2, <2>3, FlowLate
  <2>4. CASE Head(proc.todo).kind = "coinbase"
    <3>1. Coinbase /\ Continues /\ ~SetCoinbase
      BY <1>5, <2>4, NextIsHead
    <3>2. Pays({Deployer})
      BY <1>5, <2>4, NextIsHead, Due
    <3>3. DeployerPaid
      BY <1>5, <2>1, <3>1, CoinbaseDeploys
    <3>4. then
      BY <1>2, <3>1, <3>2, <3>3
    <3>5. t[1] \notin off /\ t[1] \notin at /\ t[3] \notin at /\ DOMAIN t = 1..3
      BY <2>1, <2>4 DEF FirstOff, CoinbaseDeployment, Of
    <3> HIDE DEF at, off, then
    <3>6. Settled(t, at, {}, off, then)
      <4> SUFFICES ASSUME NEW i \in DOMAIN t, t[i] \in at
                   PROVE  \A l \in 1..(i - 1) : t[l] \notin off
        BY <3>4 DEF Settled
      <4>1. i = 2
        BY <3>5
      <4>2. 1..(2 - 1) = {1}
        OBVIOUS
      <4> QED BY <3>5, <4>1, <4>2
    <3> QED BY <2>1, <2>2, <3>6 DEF Flow
  <2> QED BY <2>3, <2>4
<1>6. Settled(proc.todo, at, {}, off, now)
  BY DEF KInv
<1> HIDE DEF at, off, now, then
<1>7. Settled(proc'.todo, at, {}, off, then)
  BY <1>1, <1>3, <1>4, <1>5, <1>6, SettledStep
<1> QED BY <1>7 DEF at, off, then

LEMMA LazySettled ==
  ASSUME TInv, GInv, KInv, [Next]_vars
  PROVE  Settled(proc'.todo, PayOff, Of({"register"}), Of({"remove"}), proc'.lazy)
<1> DEFINE at == PayOff
           on == Of({"register"})
           off == Of({"remove"})
           now == proc.lazy
           then == proc'.lazy
<1>1. \A script \in Scripts : Settled(Program(script), at, on, off, then)
  BY LazyPrograms
<1>2. Continues /\ (CreatePool \/ UNCHANGED vars) /\ now => then
  BY DEF CreatePool, vars, TInv, Processes
<1>3. ASSUME Steps1
      PROVE  /\ proc.todo[1] \in on => then
             /\ now /\ proc.todo[1] \notin off => then
  <2>1. /\ proc.todo[1].kind = "register" => RegisterLazyAccount
        /\ RemoveLazyAccount => proc.todo[1].kind = "remove"
        /\ proc.todo[1] \in Steps
    BY <1>3, NextTells, StepAt, HeadAt
  <2>2. Continues
    BY <1>3 DEF Steps1
  <2> QED BY <2>1, <2>2, LazyChanges DEF Of
<1>4. ASSUME Steps1, NEW t, Inserts(Head(proc.todo), t)
      PROVE  Flow(t, at, on, off, then, then)
  <2>1. /\ proc.todo # <<>> /\ Head(proc.todo) = proc.todo[1] /\ proc.todo[1] \in Steps
        /\ t \in Seq(Steps) /\ \A i \in DOMAIN t : t[i].kind \in InsertedKinds
        /\ Head(proc.todo).kind # "coinbase" => \A i \in DOMAIN t : t[i].kind # "set_coinbase"
    BY <1>4, NextIsHead, InsertsCoinbase
  <2>2. \A i \in DOMAIN t : t[i] \notin off
    BY <2>1 DEF Of, InsertedKinds
  <2>3. CASE Head(proc.todo).kind = "coinbase"
    <3>1. proc.todo[1] \notin off
      BY <2>1, <2>3 DEF Of
    <3>2. now
      BY <2>1, <2>3, Due
    <3>3. then
      BY <1>3, <1>4, <3>1, <3>2
    <3> HIDE DEF at, on, off, then
    <3> QED BY <2>1, <2>2, <3>3, FlowTrue
  <2>4. CASE Head(proc.todo).kind # "coinbase"
    <3>1. \A i \in DOMAIN t : t[i] \notin at
      BY <2>1, <2>4 DEF PayOff, Of, InsertedKinds
    <3> HIDE DEF at, on, off, then
    <3> QED BY <2>1, <2>2, <3>1, FlowAside
  <2> QED BY <2>3, <2>4
<1>5. Settled(proc.todo, at, on, off, now)
  BY DEF KInv
<1> HIDE DEF at, on, off, now, then
<1>6. Settled(proc'.todo, at, on, off, then)
  BY <1>1, <1>2, <1>3, <1>4, <1>5, SettledStep
<1> QED BY <1>6 DEF at, on, off, then

LEMMA KKeeps ==
  ASSUME TInv, GInv, CInv, FInv, KInv, [Next]_vars
  PROVE  KInv'
<1>1. KnownIn(files.evm)' /\ Pays(Good(proc.evm))'
  BY KnownFiles, PaysNoted
<1>2. Settled(proc.todo, KnownAt, Of({"load_evm"}), {}, KnownIn(proc.evm))'
  BY KnownSettled DEF Settled, KnownAt, Of
<1>3. Settled(proc.todo, PayAt, Of({"dump_evm"}), PayOff, Pays(Good(files.evm)))'
  BY PaySettled DEF Settled, PayAt, PayOff, Of
<1>4. Settled(proc.todo, Of({"coinbase"}), {}, PayOff, Pays({Deployer}))'
  BY FirstSettled DEF Settled, PayOff, Of
<1>5. Settled(proc.todo, CoinbaseDeployment, {}, FirstOff, Pays({Deployer}) /\ DeployerPaid)'
  BY DeployerSettled DEF Settled, CoinbaseDeployment, FirstOff, Of
<1>6. Settled(proc.todo, PayOff, Of({"register"}), Of({"remove"}), proc.lazy)'
  BY LazySettled DEF Settled, PayOff, Of
<1> QED BY <1>1, <1>2, <1>3, <1>4, <1>5, <1>6 DEF KInv

LEMMA KInitially ==
  ASSUME Init
  PROVE  KInv
<1>1. proc.todo = <<>> /\ Names(proc.queue) = {}
  <2>1. proc.queue = <<>> /\ proc.todo = <<>>
    BY DEF Init, NoProcess
  <2> QED BY <2>1, NamesFew
<1>2. ~KakarotAnswers
  <2>1. DOMAIN chain.core = {}
    BY DEF Init, EmptyChain, Empty
  <2> QED BY <2>1 DEF KakarotAnswers
<1> QED BY <1>1, <1>2 DEF KInv, KnownIn, Pays, Settled

\* When no script runs, the coinbase of the Kakarot that the files name is the deployer's or the
\* contract of kakarot_deployments.json: whatever run is killed, no call pays the fees to a
\* contract that the file does not name, since set_coinbase is queued, the account being lazy,
\* and the queue is sent only once the file is written (kakarot_deployment.py,
\* evm_deployments.py), and since a run that finds the coinbase it has loaded deploys no other.
THEOREM CoinbaseIsKnownHolds == Spec => []CoinbaseIsKnown
<1>1. Init => TInv /\ GInv /\ CInv /\ FInv /\ KInv
  BY Initially, ProvidedInitially, FInitially, KInitially
<1>2. (TInv /\ GInv /\ CInv /\ FInv /\ KInv) /\ [Next]_vars => (TInv /\ GInv /\ CInv /\ FInv /\ KInv)'
  BY StepKeeps, StepProvides, FKeeps, KKeeps
<1>3. KInv => CoinbaseIsKnown
  BY DEF KInv, KnownIn, Good, CoinbaseIsKnown
<1> QED BY <1>1, <1>2, <1>3, PTL DEF Spec

=============================================================================
