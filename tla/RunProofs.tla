----------------------------- MODULE RunProofs -----------------------------
(***************************************************************************)
(* No run of the deployment scripts raises, unless a class is missing on    *)
(* the chain.                                                              *)
(*                                                                         *)
(* The proof is that of a sequential program: the steps of each script are  *)
(* annotated with facts about the chain, the queue and the accounts, and a  *)
(* step may rely on those that stand before it.  Ready says what a kind of  *)
(* step relies on, Brings and Loses what it does to the facts.  That the    *)
(* steps of every script, and those that a step puts in its place, carry    *)
(* their facts along is a claim about constants (Carried); that the facts   *)
(* hold when a step is reached is the invariant (RInv): some facts are in   *)
(* force that the steps still to be done are carried from.                  *)
(*                                                                         *)
(* What a queued call is to achieve is a fact as well (coming, paid,        *)
(* listed), until the queue is executed.  It is then achieved only if no    *)
(* call of the queue is refused, since one that is reverts them all: Sound  *)
(* says that each is accepted behind those that stand before it.  It rests  *)
(* on AInv: nothing but Kakarot is deployed at the address that is recorded *)
(* for it, and no address is used twice.                                    *)
(***************************************************************************)
EXTENDS DeploymentProofs

-----------------------------------------------------------------------------
(***************************************************************************)
(* What a step may rely on.  The steps of a script are annotated with facts *)
(* about the chain, the queue and the accounts that stand before each of    *)
(* them, as the assertions of a program are.                               *)
(***************************************************************************)
\* No transaction fails for reasons of its own, and the classes are there.
Fine == ~MayRevert /\ Network = "dev" /\ ClassesDeclared

\* Facts about the process and Kakarot, and about an account.
General == {"quiet", "eager", "coming", "there", "token"}
Personal == {"eoa", "paid", "funded", "listed", "authorized", "unsent"}

Fact(topic, of) == [topic |-> topic, of |-> of]
That(topic) == Fact(topic, "all")
About(topics, ws) == [topic : topics, of : ws]

\* The account of a transaction that was sent before is not used.
Wanted(w) == w \in Names(PreEip155) => w \in proc.should

\* A call that is to be sent to Kakarot.
Asked(op, w) == \E c \in Names(proc.queue) : c.op = op /\ c.to = Kakarot /\ c.arg = w

InForce(f) ==
  /\ f.topic = "quiet" => proc.queue = <<>>
  /\ f.topic = "eager" => ~proc.lazy
  /\ Fine =>
       /\ f.topic = "coming" => Recorded("kakarot") /\ (KakarotAnswers \/ Coming(Kakarot))
       /\ f.topic \notin {"quiet", "eager", "coming"} => KakarotAnswers
       /\ f.topic = "token" => Exists(proc.token)
       /\ Wanted(f.of) =>
            /\ f.topic = "eoa" => f.of \in Core.eoas
            /\ f.topic = "paid" => f.of \in Core.funded \/ Asked("fund", f.of)
            /\ f.topic = "funded" => f.of \in Core.funded
            /\ f.topic = "listed" => f.of \in Core.authorized \/ Asked("authorize", f.of)
            /\ f.topic = "authorized" => f.of \in Core.authorized
            /\ f.topic = "unsent" => f.of \notin Core.sent

\* The facts that the step x relies on are among those of a.
Ready(x, a) ==
  /\ x.kind \in {"declare", "dump_declarations"} => That("quiet") \in a
  /\ x.kind \in {"fund", "eoa", "weth", "coinbase", "set_coinbase", "token", "authorize_caller", "sender"} =>
       That("there") \in a
  /\ x.kind = "deploy_evm" => Fact("eoa", EvmDeployer) \in a
  /\ x.kind \in {"deploy_evm", "weth", "coinbase", "token"} => Fact("funded", EvmDeployer) \in a
  /\ x.kind = "token" => That("eager") \in a
  /\ x.kind = "check_token" => That("token") \in a
  /\ x.kind \in {"whitelist", "send"} => Fact("eoa", x.of) \in a
  /\ x.kind = "send" => {Fact("funded", x.of), Fact("authorized", x.of), Fact("unsent", x.of)} \subseteq a
  /\ x.kind = "teardown" => Fact("funded", Precompiles) \in a

\* What holds after the step, with the steps that it puts in its place, if a holds before it.
Brings(x, a, f) ==
  \/ x.kind = "check_deployed" /\ f.topic = "there"
  \/ x.kind = "remove" /\ f.topic = "eager"
  \/ x.kind = "kakarot" /\ f.topic = "coming"
  \/ x.kind = "execute" /\ \/ f.topic = "there" /\ That("coming") \in a
                           \/ f.topic = "funded" /\ Fact("paid", f.of) \in a
                           \/ f.topic = "authorized" /\ Fact("listed", f.of) \in a
  \/ x.kind = "fund" /\ f.of = x.of /\ (f.topic = "paid" \/ (f.topic = "funded" /\ That("eager") \in a))
  \/ x.kind = "eoa" /\ f.of = x.of /\ f.topic = "eoa"
  \/ x.kind = "sender" /\ f \in About({"unsent", "paid", "eoa"}, {x.of})
  \/ x.kind = "whitelist" /\ f.of = x.of /\ f.topic = "listed"

\* What the step may undo.
Loses(x, f) ==
  \/ f.topic = "quiet" /\ x.kind \notin {"declare", "dump_declarations"}
  \/ f.topic = "eager" /\ x.kind = "register"
  \/ f.topic \notin {"quiet", "eager"} /\ x.kind \in {"declare", "dump_declarations", "kakarot"}
  \/ f.topic = "token" /\ x.kind = "token"
  \/ f.topic \in Personal /\ f.of = x.of /\ x.kind = "sender"
  \/ f.topic = "unsent" /\ f.of = x.of /\ x.kind = "send"

\* The step may be done where a holds, and leads to where b holds.
Ok(x, a, b) ==
  /\ Ready(x, a)
  /\ \A f \in b : Brings(x, a, f) \/ (f \in a /\ ~Loses(x, f))

\* The assertions of at stand before, between and behind the steps of s.
Along(s, at) == \A i \in 1..Len(s) : Ok(s[i], at[i], at[i + 1])

\* The steps may be done from where a holds, and lead to where b holds.
Carried(s, a, b) ==
  /\ s \in Seq(Steps)
  /\ \E at : at[1] \subseteq a /\ b \subseteq at[Len(s) + 1] /\ Along(s, at)

LEMMA OkMore ==
  ASSUME NEW x, NEW a, NEW b, Ok(x, a, b), NEW c, a \subseteq c, NEW d, d \subseteq b
  PROVE  Ok(x, c, d)
<1>1. Ready(x, c)
  BY DEF Ok, Ready
<1>2. ASSUME NEW f \in d
      PROVE  Brings(x, c, f) \/ (f \in c /\ ~Loses(x, f))
  <2>1. Brings(x, a, f) \/ (f \in a /\ ~Loses(x, f))
    BY <1>2 DEF Ok
  <2>2. Brings(x, a, f) => Brings(x, c, f)
    BY DEF Brings
  <2> QED BY <2>1, <2>2
<1> QED BY <1>1, <1>2 DEF Ok

LEMMA CarriedMore ==
  ASSUME NEW s, NEW a, NEW b, Carried(s, a, b), NEW c, a \subseteq c, NEW d, d \subseteq b
  PROVE  Carried(s, c, d)
<1>1. PICK at : at[1] \subseteq a /\ b \subseteq at[Len(s) + 1] /\ Along(s, at)
  BY DEF Carried
<1>2. at[1] \subseteq c /\ d \subseteq at[Len(s) + 1]
  BY <1>1
<1> QED BY <1>1, <1>2 DEF Carried

LEMMA CarriedNone ==
  ASSUME NEW a
  PROVE  Carried(<<>>, a, a)
<1> DEFINE at == [i \in {1} |-> a]
<1>1. at[1] = a /\ Len(<<>>) + 1 = 1 /\ << >> \in Seq(Steps)
  OBVIOUS
<1>2. Along(<<>>, at)
  BY DEF Along
<1> HIDE DEF at
<1>3. at[1] \subseteq a /\ a \subseteq at[Len(<<>>) + 1]
  BY <1>1
<1> QED BY <1>1, <1>2, <1>3 DEF Carried

LEMMA CarriedConcat ==
  ASSUME NEW s, NEW t, NEW a, NEW b, NEW c, Carried(s, a, b), Carried(t, b, c)
  PROVE  Carried(s \o t, a, c)
<1>1. s \in Seq(Steps) /\ t \in Seq(Steps)
  BY DEF Carried
<1>2. PICK u : u[1] \subseteq a /\ b \subseteq u[Len(s) + 1] /\ Along(s, u)
  BY DEF Carried
<1>3. PICK v : v[1] \subseteq b /\ c \subseteq v[Len(t) + 1] /\ Along(t, v)
  BY DEF Carried
<1> DEFINE m == Len(s)
           n == Len(t)
           at == [i \in 1..(m + n + 1) |-> IF i <= m THEN u[i] ELSE v[i - m]]
<1>4. /\ m \in Nat /\ n \in Nat /\ s \o t \in Seq(Steps) /\ Len(s \o t) = m + n
      /\ \A i \in 1..m : (s \o t)[i] = s[i]
      /\ \A i \in (m + 1)..(m + n) : (s \o t)[i] = t[i - m]
  BY <1>1
<1>5. /\ \A i \in 1..m : at[i] = u[i]
      /\ \A i \in (m + 1)..(m + n + 1) : at[i] = v[i - m]
  BY <1>4
<1> HIDE DEF at
<1>6. at[1] \subseteq a
  <2>1. CASE m = 0
    <3>1. 1 \in (m + 1)..(m + n + 1) /\ 1 - m = 1
      BY <1>4, <2>1
    <3>3. at[1] = v[1]
      BY <1>5, <3>1
    <3>2. b \subseteq u[1]
      BY <1>2, <2>1
    <3> QED BY <1>2, <1>3, <3>2, <3>3
  <2>2. CASE m > 0
    <3>1. at[1] = u[1]
      BY <1>4, <1>5, <2>2
    <3> QED BY <1>2, <3>1
  <2> QED BY <1>4, <2>1, <2>2
<1>7. c \subseteq at[m + n + 1]
  <2>1. at[m + n + 1] = v[n + 1]
    BY <1>4, <1>5
  <2> QED BY <1>3, <2>1
<1>8. ASSUME NEW i \in 1..(m + n)
      PROVE  Ok((s \o t)[i], at[i], at[i + 1])
  <2>1. CASE i < m
    <3>1. i \in 1..m /\ i + 1 \in 1..m
      BY <1>4, <2>1
    <3>2. (s \o t)[i] = s[i] /\ at[i] = u[i] /\ at[i + 1] = u[i + 1]
      BY <1>4, <1>5, <3>1
    <3>3. Ok(s[i], u[i], u[i + 1])
      BY <1>2, <3>1 DEF Along
    <3> QED BY <3>2, <3>3
  <2>2. CASE i = m
    <3>1. i \in 1..m /\ i + 1 \in (m + 1)..(m + n + 1) /\ i + 1 - m = 1
      BY <1>4, <2>2
    <3>2. (s \o t)[i] = s[i] /\ at[i] = u[i] /\ at[i + 1] = v[1]
      BY <1>4, <1>5, <3>1
    <3>3. Ok(s[i], u[i], u[m + 1])
      BY <1>2, <2>2, <3>1 DEF Along
    <3>4. v[1] \subseteq u[m + 1]
      BY <1>2, <1>3
    <3> QED BY <3>2, <3>3, <3>4, OkMore
  <2>3. CASE i > m
    <3>1. /\ i \in (m + 1)..(m + n) /\ i \in (m + 1)..(m + n + 1) /\ i + 1 \in (m + 1)..(m + n + 1)
          /\ i - m \in 1..n /\ i + 1 - m = (i - m) + 1
      BY <1>4, <2>3
    <3>2. (s \o t)[i] = t[i - m] /\ at[i] = v[i - m] /\ at[i + 1] = v[(i - m) + 1]
      BY <1>4, <1>5, <3>1
    <3>3. Ok(t[i - m], v[i - m], v[(i - m) + 1])
      BY <1>3, <3>1 DEF Along
    <3> QED BY <3>2, <3>3
  <2> QED BY <1>4, <2>1, <2>2, <2>3
<1>9. Along(s \o t, at)
  BY <1>4, <1>8 DEF Along
<1> QED BY <1>4, <1>6, <1>7, <1>9 DEF Carried

\* What the first step may rely on, and what it leaves to the others.
LEMMA CarriedHead ==
  ASSUME NEW s, s # <<>>, NEW a, NEW b, Carried(s, a, b)
  PROVE  /\ Ready(s[1], a)
         /\ \E m : Ok(s[1], a, m) /\ Carried(Tail(s), m, b)
<1>1. s \in Seq(Steps)
  BY DEF Carried
<1>2. PICK at : at[1] \subseteq a /\ b \subseteq at[Len(s) + 1] /\ Along(s, at)
  BY DEF Carried
<1>3. /\ Len(s) \in Nat /\ Len(s) >= 1 /\ Tail(s) \in Seq(Steps) /\ Len(Tail(s)) = Len(s) - 1
      /\ \A i \in 1..(Len(s) - 1) : Tail(s)[i] = s[i + 1]
  BY <1>1
<1> DEFINE rest == [i \in 1..Len(s) |-> at[i + 1]]
<1>4. Ok(s[1], at[1], at[2])
  BY <1>2, <1>3 DEF Along
<1>5. Ok(s[1], a, at[2])
  <2>1. at[1] \subseteq a /\ at[2] \subseteq at[2]
    BY <1>2
  <2> QED BY <1>4, <2>1, OkMore, Zenon
<1>6. rest[1] = at[2] /\ rest[Len(Tail(s)) + 1] = at[Len(s) + 1]
  BY <1>3
<1>7. ASSUME NEW i \in 1..Len(Tail(s))
      PROVE  Ok(Tail(s)[i], rest[i], rest[i + 1])
  <2>1. i \in 1..(Len(s) - 1) /\ i \in 1..Len(s) /\ i + 1 \in 1..Len(s)
    BY <1>3
  <2>2. Tail(s)[i] = s[i + 1] /\ rest[i] = at[i + 1] /\ rest[i + 1] = at[(i + 1) + 1]
    BY <1>3, <2>1
  <2>3. Ok(s[i + 1], at[i + 1], at[(i + 1) + 1])
    BY <1>2, <2>1 DEF Along
  <2> QED BY <2>2, <2>3
<1> HIDE DEF rest
<1>8. Along(Tail(s), rest)
  BY <1>7 DEF Along
<1>9. rest[1] \subseteq at[2] /\ b \subseteq rest[Len(Tail(s)) + 1]
  BY <1>2, <1>6
<1>10. Carried(Tail(s), at[2], b)
  BY <1>3, <1>8, <1>9 DEF Carried
<1>11. Ready(s[1], a)
  BY <1>5 DEF Ok
<1> HIDE DEF rest
<1> QED BY <1>5, <1>10, <1>11, Zenon

-----------------------------------------------------------------------------
(***************************************************************************)
(* The programs                                                            *)
(***************************************************************************)
LEMMA CarriedOne ==
  ASSUME NEW x \in Steps, NEW a, NEW b, Ok(x, a, b)
  PROVE  Carried(<< x >>, a, b)
<1> DEFINE at == <<a, b>>
<1>1. << x >> \in Seq(Steps) /\ Len(<< x >>) = 1 /\ << x >>[1] = x
  OBVIOUS
<1>2. at[1] = a /\ at[2] = b
  OBVIOUS
<1> HIDE DEF at
<1>3. Along(<< x >>, at)
  BY <1>1, <1>2 DEF Along
<1>4. at[1] \subseteq a /\ b \subseteq at[Len(<< x >>) + 1]
  BY <1>1, <1>2
<1> QED BY <1>1, <1>3, <1>4 DEF Carried

LEMMA CarriedTwo ==
  ASSUME NEW x \in Steps, NEW y \in Steps, NEW a, NEW b, NEW c, Ok(x, a, b), Ok(y, b, c)
  PROVE  Carried(<< x, y >>, a, c)
<1> DEFINE at == <<a, b, c>>
           s == << x, y >>
<1>1. s \in Seq(Steps) /\ Len(s) = 2 /\ s[1] = x /\ s[2] = y
  OBVIOUS
<1>2. at[1] = a /\ at[2] = b /\ at[3] = c
  OBVIOUS
<1> HIDE DEF at, s
<1>3. Along(s, at)
  BY <1>1, <1>2 DEF Along
<1>4. at[1] \subseteq a /\ c \subseteq at[Len(s) + 1]
  BY <1>1, <1>2
<1>5. Carried(s, a, c)
  BY <1>1, <1>3, <1>4 DEF Carried
<1> QED BY <1>5 DEF s

LEMMA CarriedFour ==
  ASSUME NEW x1 \in Steps, NEW x2 \in Steps, NEW x3 \in Steps, NEW x4 \in Steps,
         NEW a0, NEW a1, NEW a2, NEW a3, NEW a4,
         Ok(x1, a0, a1), Ok(x2, a1, a2), Ok(x3, a2, a3), Ok(x4, a3, a4)
  PROVE  Carried(<< x1, x2, x3, x4 >>, a0, a4)
<1> DEFINE at == <<a0, a1, a2, a3, a4>>
           s == << x1, x2, x3, x4 >>
<1>1. s \in Seq(Steps) /\ Len(s) = 4 /\ s[1] = x1 /\ s[2] = x2 /\ s[3] = x3 /\ s[4] = x4
  OBVIOUS
<1>2. at[1] = a0 /\ at[2] = a1 /\ at[3] = a2 /\ at[4] = a3 /\ at[5] = a4
  OBVIOUS
<1> HIDE DEF at, s
<1>3. Along(s, at)
  BY <1>1, <1>2 DEF Along
<1>4. at[1] \subseteq a0 /\ a4 \subseteq at[Len(s) + 1]
  BY <1>1, <1>2
<1>5. Carried(s, a0, a4)
  BY <1>1, <1>3, <1>4 DEF Carried
<1> QED BY <1>5 DEF s

LEMMA CarriedFive ==
  ASSUME NEW x1 \in Steps, NEW x2 \in Steps, NEW x3 \in Steps, NEW x4 \in Steps, NEW x5 \in Steps,
         NEW a0, NEW a1, NEW a2, NEW a3, NEW a4, NEW a5,
         Ok(x1, a0, a1), Ok(x2, a1, a2), Ok(x3, a2, a3), Ok(x4, a3, a4), Ok(x5, a4, a5)
  PROVE  Carried(<< x1, x2, x3, x4, x5 >>, a0, a5)
<1> DEFINE at == <<a0, a1, a2, a3, a4, a5>>
           s == << x1, x2, x3, x4, x5 >>
<1>1. /\ s \in Seq(Steps) /\ Len(s) = 5 /\ s[1] = x1 /\ s[2] = x2 /\ s[3] = x3 /\ s[4] = x4
      /\ s[5] = x5
  OBVIOUS
<1>2. at[1] = a0 /\ at[2] = a1 /\ at[3] = a2 /\ at[4] = a3 /\ at[5] = a4 /\ at[6] = a5
  OBVIOUS
<1> HIDE DEF at, s
<1>3. Along(s, at)
  BY <1>1, <1>2 DEF Along
<1>4. at[1] \subseteq a0 /\ a5 \subseteq at[Len(s) + 1]
  BY <1>1, <1>2
<1>5. Carried(s, a0, a5)
  BY <1>1, <1>3, <1>4 DEF Carried
<1> QED BY <1>5 DEF s

\* Steps that keep an assertion.
LEMMA CarriedSame ==
  ASSUME NEW s \in Seq(Steps), NEW a, \A i \in 1..Len(s) : Ok(s[i], a, a)
  PROVE  Carried(s, a, a)
<1> DEFINE at == [i \in 1..(Len(s) + 1) |-> a]
<1>1. Len(s) \in Nat
  OBVIOUS
<1>2. \A i \in 1..(Len(s) + 1) : at[i] = a
  OBVIOUS
<1> HIDE DEF at
<1>3. \A i \in 1..Len(s) : i \in 1..(Len(s) + 1) /\ i + 1 \in 1..(Len(s) + 1)
  BY <1>1
<1>4. Along(s, at)
  BY <1>2, <1>3 DEF Along
<1>5. at[1] \subseteq a /\ a \subseteq at[Len(s) + 1]
  BY <1>1, <1>2
<1> QED BY <1>4, <1>5 DEF Carried

\* A loop over PRE_EIP155_TX.
LEMMA CarriedEach ==
  ASSUME NEW kind \in {"sender", "whitelist", "send"}, NEW at,
         \A i \in 1..Len(PreEip155) : Ok(Step(kind, PreEip155[i]), at[i], at[i + 1])
  PROVE  Carried(Each(kind), at[1], at[Len(PreEip155) + 1])
<1>1. /\ Each(kind) \in Seq(Steps) /\ Len(Each(kind)) = Len(PreEip155)
      /\ \A i \in 1..Len(PreEip155) : Each(kind)[i] = Step(kind, PreEip155[i])
  BY EachType
<1>2. Along(Each(kind), at)
  BY <1>1 DEF Along
<1>3. at[1] \subseteq at[1] /\ at[Len(PreEip155) + 1] \subseteq at[Len(Each(kind)) + 1]
  BY <1>1
<1> QED BY <1>1, <1>2, <1>3 DEF Carried

Begun == {That("quiet"), That("eager")}
There == {That("there")}
Funder == About({"eoa", "funded"}, {EvmDeployer})

\* Facts about Kakarot and the accounts, which few steps undo.
Lasting(a) == \A f \in a : f.topic \in {"there"} \cup Personal

\* The parts of PRE_EIP155_TX before and from i.
Before(i) == {PreEip155[j] : j \in 1..(i - 1)}
Since(i) == {PreEip155[j] : j \in i..Len(PreEip155)}

LEMMA PartsOf ==
  ASSUME NEW i \in 1..Len(PreEip155)
  PROVE  /\ Before(i + 1) = Before(i) \cup {PreEip155[i]} /\ PreEip155[i] \notin Before(i)
         /\ Since(i) = Since(i + 1) \cup {PreEip155[i]} /\ PreEip155[i] \notin Since(i + 1)
         /\ PreEip155[i] \in Names(PreEip155)
<1>1. Len(PreEip155) \in Nat /\ DOMAIN PreEip155 = 1..Len(PreEip155)
  BY EachType
<1>2. \A j \in DOMAIN PreEip155 : PreEip155[i] = PreEip155[j] => i = j
  BY <1>1, PreEip155Assumption
<1>3. \A j : j \in 1..(i + 1 - 1) <=> j \in 1..(i - 1) \/ j = i
  BY <1>1
<1>4. \A j : j \in i..Len(PreEip155) <=> j \in (i + 1)..Len(PreEip155) \/ j = i
  BY <1>1
<1>5. PreEip155[i] \notin Before(i)
  BY <1>1, <1>2 DEF Before
<1>6. PreEip155[i] \notin Since(i + 1)
  BY <1>1, <1>2 DEF Since
<1>7. Before(i + 1) = Before(i) \cup {PreEip155[i]}
  BY <1>3 DEF Before
<1>8. Since(i) = Since(i + 1) \cup {PreEip155[i]}
  BY <1>4 DEF Since
<1> QED BY <1>1, <1>5, <1>6, <1>7, <1>8 DEF Names

LEMMA PartsEnd ==
  /\ Before(1) = {} /\ Before(Len(PreEip155) + 1) = Names(PreEip155)
  /\ Since(1) = Names(PreEip155) /\ Since(Len(PreEip155) + 1) = {}
<1>1. Len(PreEip155) \in Nat /\ DOMAIN PreEip155 = 1..Len(PreEip155)
  BY EachType
<1>2. 1..(1 - 1) = {} /\ (Len(PreEip155) + 1)..Len(PreEip155) = {} /\ Len(PreEip155) + 1 - 1 = Len(PreEip155)
  BY <1>1
<1>3. Before(1) = {} /\ Since(Len(PreEip155) + 1) = {}
  BY <1>2 DEF Before, Since
<1>4. Before(Len(PreEip155) + 1) = Names(PreEip155)
  BY <1>1, <1>2 DEF Before, Names
<1>5. Since(1) = Names(PreEip155)
  BY <1>1 DEF Since, Names
<1> QED BY <1>3, <1>4, <1>5

\* What the senders leave behind.
Prepared == There \cup About({"unsent", "paid", "eoa"}, Names(PreEip155))

LEMMA SendersCarried == Carried(Each("sender"), There, Prepared)
<1> DEFINE at == [i \in 1..(Len(PreEip155) + 1) |-> There \cup About({"unsent", "paid", "eoa"}, Before(i))]
<1>1. Len(PreEip155) \in Nat
  BY EachType
<1>2. \A i \in 1..(Len(PreEip155) + 1) : at[i] = There \cup About({"unsent", "paid", "eoa"}, Before(i))
  OBVIOUS
<1>3. 1 \in 1..(Len(PreEip155) + 1) /\ Len(PreEip155) + 1 \in 1..(Len(PreEip155) + 1)
  BY <1>1
<1> HIDE DEF at
<1>4. at[1] = There
  <2>1. at[1] = There \cup About({"unsent", "paid", "eoa"}, {})
    BY <1>2, <1>3, PartsEnd
  <2> QED BY <2>1 DEF About
<1>5. at[Len(PreEip155) + 1] = Prepared
  BY <1>2, <1>3, PartsEnd DEF Prepared
<1>6. ASSUME NEW i \in 1..Len(PreEip155)
      PROVE  Ok(Step("sender", PreEip155[i]), at[i], at[i + 1])
  <2> DEFINE n == PreEip155[i]
             x == Step("sender", n)
             B == Before(i)
  <2>1. at[i] = There \cup About({"unsent", "paid", "eoa"}, B)
    BY <1>1, <1>2
  <2>2. at[i + 1] = There \cup About({"unsent", "paid", "eoa"}, B \cup {n})
    <3>1. i + 1 \in 1..(Len(PreEip155) + 1)
      BY <1>1
    <3> QED BY <1>2, <3>1, PartsOf
  <2>3. n \notin B
    BY PartsOf
  <2>4. x.kind = "sender" /\ x.of = n
    BY StepFields
  <2> HIDE DEF x, B, n
  <2>5. Ready(x, at[i])
    BY <2>1, <2>4 DEF Ready, There
  <2>6. ASSUME NEW f \in at[i + 1]
        PROVE  Brings(x, at[i], f) \/ (f \in at[i] /\ ~Loses(x, f))
    <3>1. CASE f = That("there")
      BY <2>1, <2>4, <3>1 DEF There, That, Fact, Loses, Personal
    <3>2. CASE f \in About({"unsent", "paid", "eoa"}, {n})
      BY <2>4, <3>2 DEF About, Brings
    <3>3. CASE f \in About({"unsent", "paid", "eoa"}, B)
      BY <2>1, <2>3, <2>4, <3>3 DEF About, Loses
    <3> QED BY <2>2, <2>6, <3>1, <3>2, <3>3 DEF There, About
  <2>7. Ok(x, at[i], at[i + 1])
    BY <2>5, <2>6 DEF Ok
  <2> QED BY <2>7 DEF x, n
<1> QED BY <1>4, <1>5, <1>6, CarriedEach

LEMMA WhitelistCarried ==
  ASSUME NEW a, Lasting(a), About({"eoa"}, Names(PreEip155)) \subseteq a
  PROVE  Carried(Each("whitelist"), a, a \cup About({"listed"}, Names(PreEip155)))
<1> DEFINE at == [i \in 1..(Len(PreEip155) + 1) |-> a \cup About({"listed"}, Before(i))]
<1>1. Len(PreEip155) \in Nat
  BY EachType
<1>2. \A i \in 1..(Len(PreEip155) + 1) : at[i] = a \cup About({"listed"}, Before(i))
  OBVIOUS
<1>3. 1 \in 1..(Len(PreEip155) + 1) /\ Len(PreEip155) + 1 \in 1..(Len(PreEip155) + 1)
  BY <1>1
<1> HIDE DEF at
<1>4. at[1] = a
  <2>1. at[1] = a \cup About({"listed"}, {})
    BY <1>2, <1>3, PartsEnd
  <2> QED BY <2>1 DEF About
<1>5. at[Len(PreEip155) + 1] = a \cup About({"listed"}, Names(PreEip155))
  BY <1>2, <1>3, PartsEnd
<1>6. ASSUME NEW i \in 1..Len(PreEip155)
      PROVE  Ok(Step("whitelist", PreEip155[i]), at[i], at[i + 1])
  <2> DEFINE n == PreEip155[i]
             x == Step("whitelist", n)
             B == Before(i)
  <2>1. at[i] = a \cup About({"listed"}, B)
    BY <1>1, <1>2
  <2>2. at[i + 1] = a \cup About({"listed"}, B \cup {n})
    <3>1. i + 1 \in 1..(Len(PreEip155) + 1)
      BY <1>1
    <3> QED BY <1>2, <3>1, PartsOf
  <2>3. n \in Names(PreEip155)
    BY PartsOf
  <2>4. x.kind = "whitelist" /\ x.of = n
    BY StepFields
  <2> HIDE DEF x, B, n
  <2>5. Fact("eoa", n) \in at[i]
    BY <2>1, <2>3 DEF About, Fact
  <2>6. Ready(x, at[i])
    BY <2>4, <2>5 DEF Ready
  <2>7. ASSUME NEW f \in at[i + 1]
        PROVE  Brings(x, at[i], f) \/ (f \in at[i] /\ ~Loses(x, f))
    <3>1. CASE f \in a
      BY <2>1, <2>4, <3>1 DEF Loses, Lasting, Personal
    <3>2. CASE f \in About({"listed"}, {n})
      BY <2>4, <3>2 DEF About, Brings
    <3>3. CASE f \in About({"listed"}, B)
      BY <2>1, <2>4, <3>3 DEF About, Loses
    <3> QED BY <2>2, <2>7, <3>1, <3>2, <3>3 DEF About
  <2>8. Ok(x, at[i], at[i + 1])
    BY <2>6, <2>7 DEF Ok
  <2> QED BY <2>8 DEF x, n
<1> QED BY <1>4, <1>5, <1>6, CarriedEach

\* What the transactions need.
Sendables == About({"eoa", "funded", "authorized"}, Names(PreEip155))

LEMMA SendsCarried ==
  ASSUME NEW a, Lasting(a), Sendables \subseteq a, \A f \in a : f.topic # "unsent"
  PROVE  Carried(Each("send"), a \cup About({"unsent"}, Names(PreEip155)), a)
<1> DEFINE at == [i \in 1..(Len(PreEip155) + 1) |-> a \cup About({"unsent"}, Since(i))]
<1>1. Len(PreEip155) \in Nat
  BY EachType
<1>2. \A i \in 1..(Len(PreEip155) + 1) : at[i] = a \cup About({"unsent"}, Since(i))
  OBVIOUS
<1>3. 1 \in 1..(Len(PreEip155) + 1) /\ Len(PreEip155) + 1 \in 1..(Len(PreEip155) + 1)
  BY <1>1
<1> HIDE DEF at
<1>4. at[Len(PreEip155) + 1] = a
  <2>1. at[Len(PreEip155) + 1] = a \cup About({"unsent"}, {})
    BY <1>2, <1>3, PartsEnd
  <2> QED BY <2>1 DEF About
<1>5. at[1] = a \cup About({"unsent"}, Names(PreEip155))
  BY <1>2, <1>3, PartsEnd
<1>6. ASSUME NEW i \in 1..Len(PreEip155)
      PROVE  Ok(Step("send", PreEip155[i]), at[i], at[i + 1])
  <2> DEFINE n == PreEip155[i]
             x == Step("send", n)
             S == Since(i + 1)
  <2>1. at[i] = a \cup About({"unsent"}, S \cup {n})
    <3>1. at[i] = a \cup About({"unsent"}, Since(i))
      BY <1>1, <1>2
    <3> QED BY <3>1, PartsOf
  <2>2. at[i + 1] = a \cup About({"unsent"}, S)
    <3>1. i + 1 \in 1..(Len(PreEip155) + 1)
      BY <1>1
    <3> QED BY <1>2, <3>1
  <2>3. n \in Names(PreEip155) /\ n \notin S
    BY PartsOf
  <2>4. x.kind = "send" /\ x.of = n
    BY StepFields
  <2> HIDE DEF x, S, n
  <2>5. /\ Fact("eoa", n) \in at[i] /\ Fact("funded", n) \in at[i] /\ Fact("authorized", n) \in at[i]
        /\ Fact("unsent", n) \in at[i]
    BY <2>1, <2>3 DEF About, Fact, Sendables
  <2>6. Ready(x, at[i])
    BY <2>4, <2>5 DEF Ready
  <2>7. ASSUME NEW f \in at[i + 1]
        PROVE  f \in at[i] /\ ~Loses(x, f)
    <3>1. CASE f \in a
      BY <2>1, <2>4, <3>1 DEF Loses, Lasting, Personal
    <3>2. CASE f \in About({"unsent"}, S)
      BY <2>1, <2>3, <2>4, <3>2 DEF About, Loses
    <3> QED BY <2>2, <2>7, <3>1, <3>2
  <2>8. Ok(x, at[i], at[i + 1])
    BY <2>6, <2>7 DEF Ok
  <2> QED BY <2>8 DEF x, n
<1> QED BY <1>4, <1>5, <1>6, CarriedEach

\* The parts of the scripts, from the facts that they need.
LEMMA DeclareCarried == Carried(DeclareContracts, Begun, Begun)
<1>1. DeclareContracts \in Seq(Steps)
  BY BlockTypes
<1>2. \A i \in 1..Len(DeclareContracts) : DeclareContracts[i].kind \in {"declare", "dump_declarations"}
  BY <1>1, BlockKinds
<1>3. ASSUME NEW x, x.kind \in {"declare", "dump_declarations"}
      PROVE  Ok(x, Begun, Begun)
  BY <1>3 DEF Ok, Ready, Loses, Begun, That, Fact
<1> QED BY <1>1, <1>2, <1>3, CarriedSame

LEMMA FundCarried ==
  ASSUME NEW a, That("there") \in a, \A f \in a : f.topic # "quiet", NEW w \in Subjects
  PROVE  Carried(DeployAndFund(w), a, a \cup About({"paid", "eoa"} \cup (IF That("eager") \in a THEN {"funded"} ELSE {}), {w}))
<1> DEFINE x == Step("fund", w)
           y == Step("eoa", w)
           topics == {"paid"} \cup (IF That("eager") \in a THEN {"funded"} ELSE {})
           b == a \cup About(topics, {w})
           c == a \cup About({"paid", "eoa"} \cup (IF That("eager") \in a THEN {"funded"} ELSE {}), {w})
<1>1. x \in Steps /\ y \in Steps
  BY StepType DEF Plain, Kinds
<1>2. x.kind = "fund" /\ x.of = w /\ y.kind = "eoa" /\ y.of = w
  BY StepFields
<1> HIDE DEF x, y
<1>3. Ok(x, a, b)
  <2>1. Ready(x, a)
    BY <1>2 DEF Ready
  <2>2. ASSUME NEW f \in About(topics, {w})
        PROVE  Brings(x, a, f)
    BY <1>2, <2>2 DEF About, Brings
  <2>3. \A f \in a : ~Loses(x, f)
    BY <1>2 DEF Loses
  <2> QED BY <2>1, <2>2, <2>3 DEF Ok
<1>4. Ok(y, b, c)
  <2>1. Ready(y, b)
    BY <1>2 DEF Ready
  <2>2. ASSUME NEW f \in c
        PROVE  f \in b \/ (f.of = w /\ f.topic = "eoa")
    BY <2>2 DEF About
  <2>3. \A f \in b : ~Loses(y, f)
    BY <1>2 DEF Loses, About
  <2>4. \A f \in c : f.of = w /\ f.topic = "eoa" => Brings(y, b, f)
    BY <1>2 DEF Brings
  <2> QED BY <2>1, <2>2, <2>3, <2>4 DEF Ok
<1> HIDE DEF b, c
<1>5. Carried(<< x, y >>, a, c)
  BY <1>1, <1>3, <1>4, CarriedTwo
<1> QED BY <1>5 DEF DeployAndFund, x, y, c

\* A step without effect on what lasts.
Tame(x) ==
  x.kind \in {"register", "remove", "execute", "load_evm", "weth", "coinbase", "set_coinbase", "dump_evm",
              "token", "deploy_evm", "authorize_caller", "check_token", "fund", "eoa", "whitelist", "teardown"}

LEMMA TameOk ==
  ASSUME NEW x, Tame(x), NEW a, Ready(x, a), Lasting(a)
  PROVE  Ok(x, a, a)
BY DEF Ok, Tame, Lasting, Loses, Personal

LEMMA EvmContractsCarried ==
  ASSUME NEW a, Lasting(a), There \cup Funder \subseteq a
  PROVE  Carried(DeployEvmContracts, a, a \cup About({"paid"}, {Precompiles}))
<1> DEFINE b == a \cup About({"paid"}, {Precompiles})
           x == Step("fund", Precompiles)
<1>1. That("there") \in a /\ Fact("funded", EvmDeployer) \in a
  BY DEF There, Funder, About, Fact
<1>2. Lasting(b)
  BY DEF Lasting, About, Personal
<1>3. /\ Do("load_evm").kind = "load_evm" /\ Do("weth").kind = "weth" /\ Do("coinbase").kind = "coinbase"
      /\ Do("dump_evm").kind = "dump_evm" /\ x.kind = "fund" /\ x.of = Precompiles
  BY StepFields
<1>4. /\ Do("load_evm") \in Steps /\ Do("weth") \in Steps /\ Do("coinbase") \in Steps
      /\ Do("dump_evm") \in Steps /\ x \in Steps
  BY StepType, DoType, SubjectsHold DEF Plain, Kinds
<1> HIDE DEF x, b
<1>5. Ok(Do("load_evm"), a, a) /\ Ok(Do("weth"), a, a) /\ Ok(Do("coinbase"), a, a)
  <2>1. Ready(Do("load_evm"), a) /\ Ready(Do("weth"), a) /\ Ready(Do("coinbase"), a)
    BY <1>1, <1>3 DEF Ready
  <2>2. Tame(Do("load_evm")) /\ Tame(Do("weth")) /\ Tame(Do("coinbase"))
    BY <1>3 DEF Tame
  <2> QED BY <2>1, <2>2, TameOk
<1>6. Ok(Do("dump_evm"), b, b)
  <2>1. Ready(Do("dump_evm"), b) /\ Tame(Do("dump_evm"))
    BY <1>3 DEF Ready, Tame
  <2> QED BY <1>2, <2>1, TameOk
<1>7. Ok(x, a, b)
  <2>1. Ready(x, a)
    BY <1>1, <1>3 DEF Ready
  <2>2. \A f \in a : ~Loses(x, f)
    BY <1>3 DEF Loses, Lasting, Personal
  <2>3. \A f \in About({"paid"}, {Precompiles}) : Brings(x, a, f)
    BY <1>3 DEF Brings, About
  <2> QED BY <2>1, <2>2, <2>3 DEF Ok, b
<1>8. Carried(<< Do("load_evm"), Do("weth"), Do("coinbase"), x, Do("dump_evm") >>, a, b)
  BY <1>4, <1>5, <1>6, <1>7, CarriedFive
<1> QED BY <1>8 DEF DeployEvmContracts, x, b

LEMMA TokensCarried ==
  ASSUME NEW a, Lasting(a), There \cup Funder \subseteq a
  PROVE  Carried(DeployDualVmTokens, a, a)
<1> DEFINE b == a \cup {That("eager")}
<1>1. That("there") \in a /\ Fact("funded", EvmDeployer) \in a
  BY DEF There, Funder, About, Fact
<1>2. /\ Do("remove").kind = "remove" /\ Do("load_evm").kind = "load_evm" /\ Do("token").kind = "token"
      /\ Do("dump_evm").kind = "dump_evm" /\ Do("register").kind = "register"
  BY StepFields
<1>3. /\ Do("remove") \in Steps /\ Do("load_evm") \in Steps /\ Do("token") \in Steps
      /\ Do("dump_evm") \in Steps /\ Do("register") \in Steps
  BY DoType DEF Plain, Kinds
<1>4. Ok(Do("remove"), a, b)
  <2>1. Ready(Do("remove"), a)
    BY <1>2 DEF Ready
  <2>2. \A f \in a : ~Loses(Do("remove"), f)
    BY <1>2 DEF Loses, Lasting, Personal
  <2>3. Brings(Do("remove"), a, That("eager"))
    BY <1>2 DEF Brings, That, Fact
  <2> QED BY <2>1, <2>2, <2>3 DEF Ok
<1>5. ASSUME NEW x, x.kind \in {"load_evm", "token", "dump_evm"}
      PROVE  Ok(x, b, b)
  <2>1. Ready(x, b)
    BY <1>1, <1>5 DEF Ready
  <2>2. \A f \in b : ~Loses(x, f)
    BY <1>5 DEF Loses, Lasting, Personal, That, Fact
  <2> QED BY <2>1, <2>2 DEF Ok
<1>6. Ok(Do("register"), b, a)
  <2>1. Ready(Do("register"), b)
    BY <1>2 DEF Ready
  <2>2. \A f \in a : f \in b /\ ~Loses(Do("register"), f)
    BY <1>2 DEF Loses, Lasting, Personal
  <2> QED BY <2>1, <2>2 DEF Ok
<1> HIDE DEF b
<1>7. Ok(Do("load_evm"), b, b) /\ Ok(Do("token"), b, b) /\ Ok(Do("dump_evm"), b, b)
  BY <1>2, <1>5
<1>8. Carried(<< Do("remove"), Do("load_evm"), Do("token"), Do("dump_evm"), Do("register") >>, a, a)
  BY <1>3, <1>4, <1>6, <1>7, CarriedFive
<1> QED BY <1>8 DEF DeployDualVmTokens

LEMMA TransactionsCarried ==
  ASSUME NEW a, Lasting(a), Sendables \subseteq a, \A f \in a : f.topic # "unsent"
  PROVE  Carried(SendTransactions, a \cup About({"unsent"}, Names(PreEip155)), a)
<1> DEFINE b == a \cup About({"unsent"}, Names(PreEip155))
<1>1. Lasting(b)
  BY DEF Lasting, About, Personal
<1>2. Do("load_evm").kind = "load_evm" /\ Do("dump_evm").kind = "dump_evm"
  BY StepFields
<1>3. Do("load_evm") \in Steps /\ Do("dump_evm") \in Steps
  BY DoType DEF Plain, Kinds
<1> HIDE DEF b
<1>4. Carried(<< Do("load_evm") >>, b, b)
  <2>1. Ready(Do("load_evm"), b) /\ Tame(Do("load_evm"))
    BY <1>2 DEF Ready, Tame
  <2> QED BY <1>1, <1>3, <2>1, TameOk, CarriedOne
<1>5. Carried(<< Do("dump_evm") >>, a, a)
  <2>1. Ready(Do("dump_evm"), a) /\ Tame(Do("dump_evm"))
    BY <1>2 DEF Ready, Tame
  <2> QED BY <1>3, <2>1, TameOk, CarriedOne
<1>6. Carried(Each("send"), b, a)
  BY SendsCarried DEF b
<1>7. Carried(<< Do("load_evm") >> \o Each("send"), b, a)
  BY <1>4, <1>6, CarriedConcat
<1>8. Carried(<< Do("load_evm") >> \o Each("send") \o << Do("dump_evm") >>, b, a)
  BY <1>5, <1>7, CarriedConcat
<1> QED BY <1>8 DEF SendTransactions, b

\* The queue is sent, where a holds of which no fact is about the queue being empty.
LEMMA ExecuteOk ==
  ASSUME NEW a, NEW b,
         \A f \in b : \/ f \in a /\ f.topic # "quiet"
                      \/ f.topic = "there" /\ That("coming") \in a
                      \/ f.topic = "funded" /\ Fact("paid", f.of) \in a
                      \/ f.topic = "authorized" /\ Fact("listed", f.of) \in a
  PROVE  Ok(Do("execute"), a, b)
<1>1. Do("execute").kind = "execute"
  BY StepFields
<1>2. Ready(Do("execute"), a)
  BY <1>1 DEF Ready
<1>3. ASSUME NEW f \in b
      PROVE  Brings(Do("execute"), a, f) \/ (f \in a /\ ~Loses(Do("execute"), f))
  BY <1>1, <1>3 DEF Brings, Loses
<1> QED BY <1>2, <1>3 DEF Ok

LEMMA SentCarried ==
  ASSUME NEW a, NEW b, Ok(Do("execute"), a, b)
  PROVE  /\ Carried(<< Do("execute") >>, a, b)
         /\ Lasting(b) => Carried(<< Do("execute"), Do("remove") >>, a, b)
<1>1. Do("execute") \in Steps /\ Do("remove") \in Steps /\ Do("remove").kind = "remove"
  BY DoType, StepFields DEF Plain, Kinds
<1>2. ASSUME Lasting(b)
      PROVE  Ok(Do("remove"), b, b)
  <2>1. Ready(Do("remove"), b) /\ Tame(Do("remove"))
    BY <1>1 DEF Ready, Tame
  <2> QED BY <1>2, <2>1, TameOk
<1>3. Carried(<< Do("execute") >>, a, b)
  BY <1>1, CarriedOne
<1>4. Lasting(b) => Carried(<< Do("execute"), Do("remove") >>, a, b)
  BY <1>1, <1>2, CarriedTwo
<1> QED BY <1>3, <1>4

\* Kakarot is there from the first transaction on.
LEMMA FirstCarried ==
  Carried(<< Do("register"), Do("starknet"), Do("kakarot"), Do("execute") >>, Begun, There)
<1>1. /\ Do("register").kind = "register" /\ Do("starknet").kind = "starknet"
      /\ Do("kakarot").kind = "kakarot"
  BY StepFields
<1>2. Do("register") \in Steps /\ Do("starknet") \in Steps /\ Do("kakarot") \in Steps /\ Do("execute") \in Steps
  BY DoType DEF Plain, Kinds
<1>3. Ok(Do("register"), Begun, {}) /\ Ok(Do("starknet"), {}, {})
  BY <1>1 DEF Ok, Ready
<1>4. Ok(Do("kakarot"), {}, {That("coming")})
  BY <1>1 DEF Ok, Ready, Brings, That, Fact
<1>5. Ok(Do("execute"), {That("coming")}, There)
  <2>1. \A f \in There : f.topic = "there"
    BY DEF There, That, Fact
  <2> QED BY <2>1, ExecuteOk
<1> QED BY <1>2, <1>3, <1>4, <1>5, CarriedFour

\* The accounts of the transactions, when their funds have arrived.
Filled == There \cup About({"unsent", "eoa", "funded"}, Names(PreEip155))

LEMMA FilledOk ==
  /\ Ok(Do("execute"), Prepared, Filled)
  /\ Ok(Do("execute"), Prepared \cup About({"paid", "eoa"}, {EvmDeployer}), Filled \cup Funder)
<1>1. ASSUME NEW f \in Filled
      PROVE  \/ f \in Prepared /\ f.topic # "quiet"
             \/ f.topic = "funded" /\ Fact("paid", f.of) \in Prepared
  BY <1>1 DEF Filled, Prepared, There, That, Fact, About
<1>2. ASSUME NEW f \in Funder
      PROVE  \/ f \in About({"paid", "eoa"}, {EvmDeployer}) /\ f.topic # "quiet"
             \/ f.topic = "funded" /\ Fact("paid", f.of) \in About({"paid", "eoa"}, {EvmDeployer})
  BY <1>2 DEF Funder, Fact, About
<1>3. Ok(Do("execute"), Prepared, Filled)
  BY <1>1, ExecuteOk
<1> DEFINE a == Prepared \cup About({"paid", "eoa"}, {EvmDeployer})
           b == Filled \cup Funder
<1>4. \A f \in b : \/ f \in a /\ f.topic # "quiet"
                   \/ f.topic = "funded" /\ Fact("paid", f.of) \in a
  BY <1>1, <1>2
<1> HIDE DEF a, b
<1>5. Ok(Do("execute"), a, b)
  BY <1>4, ExecuteOk
<1> QED BY <1>3, <1>5 DEF a, b

\* The transactions may be sent, and the precompiles are funded, once the second queue is sent.
Unsent == About({"unsent"}, Names(PreEip155))
Last == There \cup Sendables \cup About({"funded"}, {Precompiles})

LEMMA LastOk ==
  /\ Ok(Do("execute"), Filled \cup About({"listed"}, Names(PreEip155)), (There \cup Sendables) \cup Unsent)
  /\ Ok(Do("execute"), ((Filled \cup Funder) \cup About({"paid"}, {Precompiles})) \cup About({"listed"}, Names(PreEip155)),
        Last \cup Unsent)
<1> DEFINE a == Filled \cup About({"listed"}, Names(PreEip155))
           b == (There \cup Sendables) \cup Unsent
           c == ((Filled \cup Funder) \cup About({"paid"}, {Precompiles})) \cup About({"listed"}, Names(PreEip155))
           d == Last \cup Unsent
<1>1. ASSUME NEW f \in b
      PROVE  \/ f \in a /\ f.topic # "quiet"
             \/ f.topic = "authorized" /\ Fact("listed", f.of) \in a
  BY <1>1 DEF Filled, Sendables, Unsent, There, That, Fact, About
<1>2. a \subseteq c
  OBVIOUS
<1>3. ASSUME NEW f \in d
      PROVE  \/ f \in c /\ f.topic # "quiet"
             \/ f.topic = "funded" /\ Fact("paid", f.of) \in c
             \/ f.topic = "authorized" /\ Fact("listed", f.of) \in c
  <2>1. CASE f \in b
    BY <1>1, <1>2, <2>1
  <2>2. CASE f \in About({"funded"}, {Precompiles})
    BY <2>2 DEF About, Fact
  <2> QED BY <1>3, <2>1, <2>2 DEF Last
<1> HIDE DEF a, b, c, d
<1>4. Ok(Do("execute"), a, b) /\ Ok(Do("execute"), c, d)
  BY <1>1, <1>3, ExecuteOk
<1> QED BY <1>4 DEF a, b, c, d

LEMMA AssertionsLast ==
  /\ Lasting(There) /\ Lasting(Prepared) /\ Lasting(Filled) /\ Lasting(Filled \cup Funder)
  /\ Lasting((Filled \cup Funder) \cup About({"paid"}, {Precompiles}))
  /\ Lasting(There \cup Funder) /\ Lasting(There \cup Sendables)
  /\ Lasting(Last) /\ Lasting(Last \cup Unsent) /\ Lasting((There \cup Sendables) \cup Unsent)
<1>1. /\ Lasting(There) /\ Lasting(Funder) /\ Lasting(Sendables) /\ Lasting(Unsent)
      /\ \A topics, ws : topics \subseteq Personal => Lasting(About(topics, ws))
  BY DEF Lasting, There, Funder, Sendables, Unsent, That, Fact, About, Personal
<1>2. /\ \A a, b : Lasting(a) /\ Lasting(b) => Lasting(a \cup b)
  BY DEF Lasting
<1>3. Lasting(About({"paid"}, {Precompiles})) /\ Lasting(About({"funded"}, {Precompiles}))
  BY <1>1 DEF Personal
<1>4. Lasting(Prepared) /\ Lasting(Filled)
  <2>1. /\ Lasting(About({"unsent", "paid", "eoa"}, Names(PreEip155)))
        /\ Lasting(About({"unsent", "eoa", "funded"}, Names(PreEip155)))
    BY <1>1 DEF Personal
  <2> QED BY <1>1, <1>2, <2>1 DEF Prepared, Filled
<1> QED BY <1>1, <1>2, <1>3, <1>4 DEF Last

LEMMA DeployerFunded ==
  /\ Carried(DeployAndFund(EvmDeployer), Prepared, Prepared \cup About({"paid", "eoa"}, {EvmDeployer}))
  /\ Carried(DeployAndFund(EvmDeployer), {That("there"), That("eager")}, There \cup Funder)
<1>1. EvmDeployer \in Subjects
  BY SubjectsHold
<1>2. That("there") \in Prepared /\ \A f \in Prepared : f.topic # "quiet"
  BY AssertionsLast DEF Prepared, There, Lasting, Personal
<1>3. Carried(DeployAndFund(EvmDeployer), Prepared, Prepared \cup About({"paid", "eoa"}, {EvmDeployer}))
  <2> DEFINE topics == {"paid", "eoa"} \cup (IF That("eager") \in Prepared THEN {"funded"} ELSE {})
  <2>1. Carried(DeployAndFund(EvmDeployer), Prepared, Prepared \cup About(topics, {EvmDeployer}))
    BY <1>1, <1>2, FundCarried
  <2>2. Prepared \cup About({"paid", "eoa"}, {EvmDeployer}) \subseteq Prepared \cup About(topics, {EvmDeployer})
    BY DEF About
  <2> QED BY <2>1, <2>2, CarriedMore
<1>4. Carried(DeployAndFund(EvmDeployer), {That("there"), That("eager")}, There \cup Funder)
  <2> DEFINE a == {That("there"), That("eager")}
             topics == {"paid", "eoa"} \cup (IF That("eager") \in a THEN {"funded"} ELSE {})
  <2>1. That("there") \in a /\ \A f \in a : f.topic # "quiet"
    BY DEF That, Fact
  <2>2. Carried(DeployAndFund(EvmDeployer), a, a \cup About(topics, {EvmDeployer}))
    <3> HIDE DEF a
    <3> QED BY <1>1, <2>1, FundCarried
  <2>3. There \cup Funder \subseteq a \cup About(topics, {EvmDeployer})
    BY DEF There, Funder, About
  <2> HIDE DEF a, topics
  <2>4. a \subseteq a
    OBVIOUS
  <2>5. Carried(DeployAndFund(EvmDeployer), a, There \cup Funder)
    BY <2>2, <2>3, <2>4, CarriedMore
  <2> QED BY <2>5 DEF a
<1> QED BY <1>3, <1>4

LEMMA MainCarried == Carried(Main, Begun, {})
<1> DEFINE a3 == Prepared \cup About({"paid", "eoa"}, {EvmDeployer})
           a4 == Filled \cup Funder
           a5 == a4 \cup About({"paid"}, {Precompiles})
           a7 == a5 \cup About({"listed"}, Names(PreEip155))
           a8 == Last \cup Unsent
           s1 == << Do("register"), Do("starknet"), Do("kakarot"), Do("execute") >>
           s2 == s1 \o Each("sender")
           s3 == s2 \o DeployAndFund(EvmDeployer)
           s4 == s3 \o << Do("execute") >>
           s5 == s4 \o DeployEvmContracts
           s6 == s5 \o DeployDualVmTokens
           s7 == s6 \o Each("whitelist")
           s8 == s7 \o << Do("execute"), Do("remove") >>
           s9 == s8 \o SendTransactions
           s10 == s9 \o << Do("teardown") >>
<1>1. /\ Lasting(a4) /\ Lasting(a5) /\ Lasting(Last) /\ Lasting(a8)
      /\ There \cup Funder \subseteq a4 /\ There \cup Funder \subseteq a5
      /\ About({"eoa"}, Names(PreEip155)) \subseteq a5
      /\ Sendables \subseteq Last /\ \A f \in Last : f.topic # "unsent"
  <2>1. About({"eoa"}, Names(PreEip155)) \subseteq Filled /\ There \subseteq Filled
    BY DEF About, Filled
  <2>2. Sendables \subseteq Last /\ \A f \in Last : f.topic # "unsent"
    BY DEF Last, Sendables, There, That, Fact, About
  <2> QED BY <2>1, <2>2, AssertionsLast
<1>2. Ok(Do("execute"), a3, a4) /\ Ok(Do("execute"), a7, a8)
  BY FilledOk, LastOk
<1>3. Carried(<< Do("teardown") >>, Last, {})
  <2>1. Do("teardown") \in Steps /\ Do("teardown").kind = "teardown"
    BY DoType, StepFields DEF Plain, Kinds
  <2>2. Fact("funded", Precompiles) \in Last
    BY DEF Last, About, Fact
  <2>3. Ok(Do("teardown"), Last, {})
    BY <2>1, <2>2 DEF Ok, Ready
  <2> QED BY <2>1, <2>3, CarriedOne
<1>4. Carried(DeployAndFund(EvmDeployer), Prepared, a3)
  BY DeployerFunded
<1>5. Carried(DeployEvmContracts, a4, a5)
  <2> HIDE DEF a4
  <2> QED BY <1>1, EvmContractsCarried
<1>6. Carried(DeployDualVmTokens, a5, a5) /\ Carried(Each("whitelist"), a5, a7)
  <2> HIDE DEF a5
  <2> QED BY <1>1, TokensCarried, WhitelistCarried
<1>7. Carried(SendTransactions, a8, Last)
  BY <1>1, TransactionsCarried DEF Unsent
<1> HIDE DEF a3, a4, a5, a7, a8
<1>8. Carried(<< Do("execute") >>, a3, a4) /\ Carried(<< Do("execute"), Do("remove") >>, a7, a8)
  BY <1>1, <1>2, SentCarried
<1>9. Carried(s1, Begun, There)
  BY FirstCarried
<1> HIDE DEF s1
<1>10. Carried(s2, Begun, Prepared)
  BY <1>9, SendersCarried, CarriedConcat
<1> HIDE DEF s2
<1>11. Carried(s3, Begun, a3)
  BY <1>4, <1>10, CarriedConcat
<1> HIDE DEF s3
<1>12. Carried(s4, Begun, a4)
  BY <1>8, <1>11, CarriedConcat
<1> HIDE DEF s4
<1>13. Carried(s5, Begun, a5)
  BY <1>5, <1>12, CarriedConcat
<1> HIDE DEF s5
<1>14. Carried(s6, Begun, a5)
  BY <1>6, <1>13, CarriedConcat
<1> HIDE DEF s6
<1>15. Carried(s7, Begun, a7)
  BY <1>6, <1>14, CarriedConcat
<1> HIDE DEF s7
<1>16. Carried(s8, Begun, a8)
  BY <1>8, <1>15, CarriedConcat
<1> HIDE DEF s8
<1>17. Carried(s9, Begun, Last)
  BY <1>7, <1>16, CarriedConcat
<1> HIDE DEF s9
<1>18. Carried(s10, Begun, {})
  BY <1>3, <1>17, CarriedConcat
<1> QED BY <1>18 DEF s1, s2, s3, s4, s5, s6, s7, s8, s9, s10, Main

\* The scripts that are run alone.
LEMMA AloneCarried ==
  /\ Carried(<< Do("check_deployed") >>, Begun, {That("there"), That("eager")})
  /\ Carried(<< Do("check_deployed"), Do("register") >>, Begun, There)
  /\ Carried(StarknetMain, Begun, {}) /\ Carried(KakarotMain, Begun, {})
<1>1. /\ Do("check_deployed").kind = "check_deployed" /\ Do("register").kind = "register"
      /\ Do("check_declared").kind = "check_declared" /\ Do("starknet").kind = "starknet"
      /\ Do("kakarot").kind = "kakarot" /\ Do("execute").kind = "execute" /\ Do("remove").kind = "remove"
  BY StepFields
<1>2. /\ Do("check_deployed") \in Steps /\ Do("register") \in Steps /\ Do("check_declared") \in Steps
      /\ Do("starknet") \in Steps /\ Do("kakarot") \in Steps /\ Do("execute") \in Steps
      /\ Do("remove") \in Steps
  BY DoType DEF Plain, Kinds
<1> DEFINE a == {That("there"), That("eager")}
<1>3. Ok(Do("check_deployed"), Begun, a)
  <2>1. Ready(Do("check_deployed"), Begun)
    BY <1>1 DEF Ready
  <2>2. Brings(Do("check_deployed"), Begun, That("there"))
    BY <1>1 DEF Brings, That, Fact
  <2>3. That("eager") \in Begun /\ ~Loses(Do("check_deployed"), That("eager"))
    BY <1>1 DEF Begun, Loses, That, Fact, Personal
  <2> QED BY <2>1, <2>2, <2>3 DEF Ok
<1>4. Ok(Do("register"), a, There)
  <2>1. Ready(Do("register"), a)
    BY <1>1 DEF Ready
  <2>2. That("there") \in a /\ ~Loses(Do("register"), That("there"))
    BY <1>1 DEF Loses, That, Fact, Personal
  <2> QED BY <2>1, <2>2 DEF Ok, There
<1>5. ASSUME NEW x, NEW b, x.kind \in {"check_declared", "register", "starknet", "kakarot", "execute", "remove"}
      PROVE  Ok(x, b, {})
  BY <1>5 DEF Ok, Ready
<1> HIDE DEF a
<1>6. Carried(<< Do("check_deployed") >>, Begun, a) /\ Carried(<< Do("check_deployed"), Do("register") >>, Begun, There)
  BY <1>2, <1>3, <1>4, CarriedOne, CarriedTwo
<1>7. Carried(StarknetMain, Begun, {})
  <2>1. Ok(Do("check_declared"), Begun, {}) /\ Ok(Do("register"), {}, {}) /\ Ok(Do("starknet"), {}, {})
        /\ Ok(Do("execute"), {}, {}) /\ Ok(Do("remove"), {}, {})
    BY <1>1, <1>5
  <2> QED BY <1>2, <2>1, CarriedFive DEF StarknetMain
<1>8. Carried(KakarotMain, Begun, {})
  <2>1. Ok(Do("check_declared"), Begun, {}) /\ Ok(Do("register"), {}, {}) /\ Ok(Do("kakarot"), {}, {})
        /\ Ok(Do("execute"), {}, {}) /\ Ok(Do("remove"), {}, {})
    BY <1>1, <1>5
  <2> QED BY <1>2, <2>1, CarriedFive DEF KakarotMain
<1> QED BY <1>6, <1>7, <1>8 DEF a

LEMMA EvmCarried == Carried(EvmMain, Begun, {}) /\ Carried(DualVmMain, Begun, {})
<1> DEFINE a == {That("there"), That("eager")}
           b == There \cup Funder
           c == b \cup About({"paid"}, {Precompiles})
           s1 == << Do("check_deployed") >>
           s2 == s1 \o DeployAndFund(EvmDeployer)
           s3 == s2 \o << Do("register") >>
           s4 == s3 \o DeployEvmContracts
           s5 == s4 \o << Do("execute"), Do("remove") >>
           s6 == s2 \o DeployDualVmTokens
<1>1. Lasting(b) /\ There \cup Funder \subseteq b
  BY AssertionsLast
<1>2. Carried(<< Do("register") >>, b, b)
  <2>1. Do("register") \in Steps /\ Do("register").kind = "register"
    BY DoType, StepFields DEF Plain, Kinds
  <2>2. Ready(Do("register"), b) /\ Tame(Do("register"))
    BY <2>1 DEF Ready, Tame
  <2> HIDE DEF b
  <2> QED BY <1>1, <2>1, <2>2, TameOk, CarriedOne
<1>3. Carried(DeployEvmContracts, b, c) /\ Carried(DeployDualVmTokens, b, b)
  <2> HIDE DEF b
  <2> QED BY <1>1, EvmContractsCarried, TokensCarried
<1>4. Carried(<< Do("execute"), Do("remove") >>, c, {})
  <2>1. Ok(Do("execute"), c, {})
    BY ExecuteOk
  <2>2. Lasting({})
    BY DEF Lasting
  <2> QED BY <2>1, <2>2, SentCarried
<1>5. Carried(s1, Begun, a) /\ Carried(DeployAndFund(EvmDeployer), a, b)
  BY AloneCarried, DeployerFunded
<1> HIDE DEF a, b, c, s1
<1>6. Carried(s2, Begun, b)
  BY <1>5, CarriedConcat
<1> HIDE DEF s2
<1>7. Carried(s3, Begun, b)
  BY <1>2, <1>6, CarriedConcat
<1> HIDE DEF s3
<1>8. Carried(s4, Begun, c)
  BY <1>3, <1>7, CarriedConcat
<1> HIDE DEF s4
<1>9. Carried(s5, Begun, {})
  BY <1>4, <1>8, CarriedConcat
<1>10. Carried(s6, Begun, b)
  BY <1>3, <1>6, CarriedConcat
<1>11. Carried(s6, Begun, {})
  <2> HIDE DEF s6
  <2>1. Begun \subseteq Begun /\ {} \subseteq b
    OBVIOUS
  <2> QED BY <1>10, <2>1, CarriedMore
<1> QED BY <1>9, <1>11 DEF s1, s2, s3, s4, s5, s6, EvmMain, DualVmMain

LEMMA PreEip155Carried == Carried(PreEip155Main, Begun, {})
<1> DEFINE a == Filled \cup About({"listed"}, Names(PreEip155))
           b == There \cup Sendables
           c == b \cup Unsent
           s1 == << Do("check_deployed"), Do("register") >>
           s2 == s1 \o Each("sender")
           s3 == s2 \o << Do("execute") >>
           s4 == s3 \o Each("whitelist")
           s5 == s4 \o << Do("execute"), Do("remove") >>
           s6 == s5 \o SendTransactions
<1>1. Lasting(Filled) /\ Lasting(b) /\ Lasting(c)
  BY AssertionsLast
<1>2. About({"eoa"}, Names(PreEip155)) \subseteq Filled
  BY DEF About, Filled
<1>3. Sendables \subseteq b /\ \A f \in b : f.topic # "unsent"
  BY DEF Sendables, There, That, Fact, About
<1>4. Carried(Each("whitelist"), Filled, a)
  BY <1>1, <1>2, WhitelistCarried
<1>5. Ok(Do("execute"), Prepared, Filled) /\ Ok(Do("execute"), a, c)
  BY FilledOk, LastOk
<1>6. Carried(SendTransactions, c, b)
  <2> HIDE DEF b
  <2> QED BY <1>1, <1>3, TransactionsCarried DEF Unsent
<1> HIDE DEF a, b, c
<1>7. Carried(<< Do("execute") >>, Prepared, Filled) /\ Carried(<< Do("execute"), Do("remove") >>, a, c)
  BY <1>1, <1>5, SentCarried
<1>8. Carried(s1, Begun, There)
  BY AloneCarried
<1> HIDE DEF s1
<1>9. Carried(s2, Begun, Prepared)
  BY <1>8, SendersCarried, CarriedConcat
<1> HIDE DEF s2
<1>10. Carried(s3, Begun, Filled)
  BY <1>7, <1>9, CarriedConcat
<1> HIDE DEF s3
<1>11. Carried(s4, Begun, a)
  BY <1>4, <1>10, CarriedConcat
<1> HIDE DEF s4
<1>12. Carried(s5, Begun, c)
  BY <1>7, <1>11, CarriedConcat
<1> HIDE DEF s5
<1>13. Carried(s6, Begun, b)
  BY <1>6, <1>12, CarriedConcat
<1>14. Carried(s6, Begun, {})
  <2> HIDE DEF s6
  <2>1. Begun \subseteq Begun /\ {} \subseteq b
    OBVIOUS
  <2> QED BY <1>13, <2>1, CarriedMore
<1> QED BY <1>14 DEF s1, s2, s3, s4, s5, s6, PreEip155Main

\* Every script can be done from where a process starts.
LEMMA ProgramsCarried ==
  ASSUME NEW script \in Scripts
  PROVE  Carried(Program(script), Begun, {})
<1>1. Carried(DeclareContracts \o Main, Begun, {})
  BY DeclareCarried, MainCarried, CarriedConcat
<1> QED BY <1>1, AloneCarried, EvmCarried, PreEip155Carried DEF Program, Scripts

\* What holds once steps are put in the place of x.
Remains(x, a) ==
  {f \in a : ~Loses(x, f)} \cup (IF x.kind = "token" THEN {That("token")} ELSE {})
                          \cup (IF x.kind = "sender" THEN {Fact("unsent", x.of)} ELSE {})

\* A contract is deployed where Kakarot is there and the deployer is funded.
LEMMA DeploysCarried ==
  ASSUME NEW a, That("there") \in a, Fact("funded", EvmDeployer) \in a, \A f \in a : f.topic # "quiet",
         NEW name \in EvmContracts
  PROVE  Carried(Deploys(name), a, a)
<1> DEFINE x == Step("eoa", EvmDeployer)
           y == Step("deploy_evm", name)
           b == a \cup {Fact("eoa", EvmDeployer)}
<1>1. x \in Steps /\ y \in Steps
  BY StepType, SubjectsHold DEF Plain, Kinds
<1>2. x.kind = "eoa" /\ x.of = EvmDeployer /\ y.kind = "deploy_evm" /\ y.of = name
  BY StepFields
<1> HIDE DEF x, y
<1>3. Ok(x, a, b)
  <2>1. Ready(x, a)
    BY <1>2 DEF Ready
  <2>2. \A f \in a : ~Loses(x, f)
    BY <1>2 DEF Loses
  <2>3. Brings(x, a, Fact("eoa", EvmDeployer))
    BY <1>2 DEF Brings, Fact
  <2> QED BY <2>1, <2>2, <2>3 DEF Ok
<1>4. Ok(y, b, a)
  <2>1. Ready(y, b)
    BY <1>2 DEF Ready
  <2>2. \A f \in a : ~Loses(y, f)
    BY <1>2 DEF Loses
  <2> QED BY <2>1, <2>2 DEF Ok
<1> HIDE DEF b
<1>5. Carried(<< x, y >>, a, a)
  BY <1>1, <1>3, <1>4, CarriedTwo
<1> QED BY <1>5, DeploysType DEF x, y

\* A step that needs no more than Kakarot, and changes no fact.
LEMMA PlainCarried ==
  ASSUME NEW a, That("there") \in a, \A f \in a : f.topic # "quiet",
         NEW kind \in {"set_coinbase", "authorize_caller", "check_token"},
         kind = "check_token" => That("token") \in a
  PROVE  Carried(<< Do(kind) >>, a, a)
<1>1. Do(kind) \in Steps /\ Do(kind).kind = kind
  BY DoType, StepFields DEF Plain, Kinds
<1>2. Ready(Do(kind), a)
  BY <1>1 DEF Ready
<1>3. \A f \in a : ~Loses(Do(kind), f)
  BY <1>1 DEF Loses
<1>4. Ok(Do(kind), a, a)
  BY <1>2, <1>3 DEF Ok
<1> QED BY <1>1, <1>4, CarriedOne

LEMMA InsertedCarried ==
  ASSUME NEW x \in Steps, NEW t, Inserts(x, t), NEW a, NEW m, Ok(x, a, m)
  PROVE  Carried(t, Remains(x, a), m)
<1> DEFINE k == Remains(x, a)
<1>1. x.kind \in {"weth", "coinbase", "token", "sender"}
  BY DEF Inserts
<1>2. That("there") \in k /\ \A f \in k : f.topic # "quiet"
  <2>1. That("there") \in a
    BY <1>1 DEF Ok, Ready
  <2>2. ~Loses(x, That("there"))
    BY <1>1 DEF Loses, That, Fact, Personal
  <2>3. \A f \in k : f.topic # "quiet"
    BY <1>1 DEF Remains, Loses, That, Fact
  <2> QED BY <2>1, <2>2, <2>3 DEF Remains
<1>3. ASSUME x.kind # "sender"
      PROVE  m \subseteq k /\ Fact("funded", EvmDeployer) \in k
  <2>1. Fact("funded", EvmDeployer) \in a /\ ~Loses(x, Fact("funded", EvmDeployer))
    BY <1>1, <1>3 DEF Ok, Ready, Loses, Fact, Personal
  <2>2. \A f \in m : f \in a /\ ~Loses(x, f)
    BY <1>1, <1>3 DEF Ok, Brings
  <2> QED BY <2>1, <2>2 DEF Remains
<1>4. x.kind = "token" => That("token") \in k
  BY DEF Remains
<1>5. "WETH9" \in EvmContracts /\ "Coinbase" \in EvmContracts /\ "token" \in EvmContracts
  BY DEF EvmContracts
<1> HIDE DEF k
<1>6. ASSUME x.kind # "sender", Carried(t, k, k)
      PROVE  Carried(t, k, m)
  BY <1>3, <1>6, CarriedMore
<1>7. CASE x.kind = "weth" /\ t = Deploys("WETH9")
  BY <1>2, <1>3, <1>5, <1>6, <1>7, DeploysCarried DEF k
<1>8. CASE x.kind = "coinbase" /\ t = Deploys("Coinbase") \o << Do("set_coinbase") >>
  <2>1. Carried(Deploys("Coinbase"), k, k) /\ Carried(<< Do("set_coinbase") >>, k, k)
    BY <1>2, <1>3, <1>5, <1>8, DeploysCarried, PlainCarried
  <2>2. Carried(t, k, k)
    BY <1>8, <2>1, CarriedConcat
  <2> QED BY <1>6, <1>8, <2>2 DEF k
<1>9. CASE x.kind = "token"
  <2>1. Carried(Deploys("token"), k, k) /\ Carried(<< Do("authorize_caller") >>, k, k)
    BY <1>2, <1>3, <1>5, <1>9, DeploysCarried, PlainCarried
  <2>2. Carried(Deploys("token") \o << Do("authorize_caller") >>, k, k)
    BY <2>1, CarriedConcat
  <2>3. Carried(<< Do("check_token") >>, k, k)
    BY <1>2, <1>4, <1>9, PlainCarried
  <2>4. Carried((Deploys("token") \o << Do("authorize_caller") >>) \o << Do("check_token") >>, k, k)
    BY <2>2, <2>3, CarriedConcat
  <2>5. Carried(t, k, k)
    BY <1>9, <2>2, <2>4 DEF Inserts
  <2> QED BY <1>6, <1>9, <2>5 DEF k
<1>10. CASE x.kind = "sender" /\ t = DeployAndFund(x.of)
  <2> DEFINE n == x.of
             topics == {"paid", "eoa"} \cup (IF That("eager") \in k THEN {"funded"} ELSE {})
  <2>1. n \in Subjects
    BY DEF Steps
  <2>2. Carried(t, k, k \cup About(topics, {n}))
    BY <1>2, <1>10, <2>1, FundCarried
  <2>3. About({"paid", "eoa"}, {n}) \subseteq About(topics, {n})
    BY DEF About
  <2>4. About({"unsent", "paid", "eoa"}, {n}) \subseteq About({"paid", "eoa"}, {n}) \cup {Fact("unsent", n)}
    BY DEF About, Fact
  <2>5. Fact("unsent", n) \in k
    BY <1>10 DEF k, Remains
  <2>6. \A f \in m : f \in About({"unsent", "paid", "eoa"}, {n}) \/ (f \in a /\ ~Loses(x, f))
    BY <1>10 DEF Ok, Brings
  <2>7. \A f \in a : ~Loses(x, f) => f \in k
    BY DEF k, Remains
  <2> HIDE DEF topics, n
  <2>8. m \subseteq k \cup About(topics, {n})
    BY <2>3, <2>4, <2>5, <2>6, <2>7
  <2>9. k \subseteq k
    OBVIOUS
  <2>10. Carried(t, k, m)
    BY <2>2, <2>8, <2>9, CarriedMore
  <2> QED BY <2>10 DEF k
<1> QED BY <1>7, <1>8, <1>9, <1>10 DEF Inserts, k

-----------------------------------------------------------------------------
(***************************************************************************)
(* Addresses.  Nothing but Kakarot is ever deployed at the address that is   *)
(* recorded for it.                                                        *)
(***************************************************************************)
AInv ==
  /\ \A k \in DOMAIN chain.code : k < fresh
  /\ \A c \in Names(proc.queue) : c.op = "deploy" => c.to < fresh
  /\ Recorded("kakarot") =>
       /\ Kakarot < fresh
       /\ Exists(Kakarot) => KakarotAnswers
       /\ \A c \in Names(proc.queue) : c.op = "deploy" /\ c.to = Kakarot => Instantiates(c)

\* What the calls leave at an address.
LEMMA CodeFrom ==
  ASSUME chain \in Chains, NEW calls \in Seq(Calls), NEW ch \in Outcomes(calls),
         NEW k, k \in DOMAIN ch.code
  PROVE  k \in DOMAIN chain.code \/ \E i \in DOMAIN calls : calls[i].op = "deploy" /\ calls[i].to = k
<1> SUFFICES ASSUME k \notin DOMAIN chain.code,
                    ~\E i \in DOMAIN calls : calls[i].op = "deploy" /\ calls[i].to = k
             PROVE  FALSE
  OBVIOUS
<1> DEFINE P == {c \in Chains : k \notin DOMAIN c.code}
<1>1. ASSUME NEW c \in P \cap Chains, NEW i \in DOMAIN calls, Accepts(c, calls[i])
      PROVE  Effect(c, calls[i]) \in P
  <2>1. calls[i] \in Calls
    OBVIOUS
  <2>2. /\ Effect(c, calls[i]) \in Chains
        /\ DOMAIN Effect(c, calls[i]).code
             = DOMAIN c.code \cup (IF calls[i].op = "deploy" THEN {calls[i].to} ELSE {})
    BY <1>1, <2>1, EffectType, EffectFields
  <2> QED BY <2>2
<1>2. chain \in P
  OBVIOUS
<1> HIDE DEF P
<1>3. Executed(calls) \in P
  BY <1>1, <1>2, ExecutedKeeps
<1>4. ch \in P
  BY <1>2, <1>3 DEF Outcomes
<1> QED BY <1>4 DEF P

LEMMA CodeAnswers ==
  ASSUME chain \in Chains, NEW calls \in Seq(Calls), NEW ch \in Outcomes(calls), NEW k,
         k \in DOMAIN chain.code => k \in DOMAIN chain.core,
         \A i \in DOMAIN calls : calls[i].op = "deploy" /\ calls[i].to = k => Instantiates(calls[i])
  PROVE  k \in DOMAIN ch.code => k \in DOMAIN ch.core
<1> DEFINE P == {c \in Chains : k \in DOMAIN c.code => k \in DOMAIN c.core}
<1>1. ASSUME NEW c \in P \cap Chains, NEW i \in DOMAIN calls, Accepts(c, calls[i])
      PROVE  Effect(c, calls[i]) \in P
  <2>1. calls[i] \in Calls
    OBVIOUS
  <2>2. /\ Effect(c, calls[i]) \in Chains
        /\ DOMAIN Effect(c, calls[i]).code
             = DOMAIN c.code \cup (IF calls[i].op = "deploy" THEN {calls[i].to} ELSE {})
        /\ DOMAIN Effect(c, calls[i]).core
             = DOMAIN c.core \cup (IF Instantiates(calls[i]) THEN {calls[i].to} ELSE {})
    BY <1>1, <2>1, EffectType, EffectFields
  <2> QED BY <2>2
<1>2. chain \in P
  OBVIOUS
<1> HIDE DEF P
<1>3. Executed(calls) \in P
  BY <1>1, <1>2, ExecutedKeeps
<1>4. ch \in P
  BY <1>2, <1>3 DEF Outcomes
<1> QED BY <1>4 DEF P

\* The transactions that a step sends.
LEMMA CallsBy ==
  ASSUME TInv, GInv, [Next]_vars, ~ResetChain
  PROVE  \/ chain'.code = chain.code /\ DOMAIN chain'.core = DOMAIN chain.core
         \/ (Execute \/ CreatePool) /\ chain' \in Outcomes(proc.queue)
         \/ /\ Token /\ fresh' = fresh + 1
            /\ chain' \in Outcomes(<< Call("deploy", fresh, "StarknetToken") >>)
         \/ \E calls \in Seq(Calls) :
              chain' \in Outcomes(calls) /\ \A i \in DOMAIN calls : calls[i].op # "deploy"
<1>1. proc \in Processes /\ proc.queue \in Seq(Calls) /\ chain \in Chains
  BY Zenon DEF TInv, Processes
<1>2. CASE Execute \/ CreatePool
  BY ZenonT(30), <1>1, <1>2 DEF Execute, CreatePool
<1>3. CASE FundStep \/ AuthorizeCaller \/ WhitelistStep
  <2>1. CASE Raise
    BY <2>1 DEF Raise
  <2>2. CASE ~Raise
    <3>1. PICK calls \in Seq(Calls) : /\ Invoke(Done(proc), calls)
                                     /\ \A i \in DOMAIN calls :
                                          calls[i].op \in {"fund", "authorize_caller", "authorize"}
      BY <1>3, <2>2, InvokesDo
    <3>2. chain' = chain \/ chain' \in Outcomes(calls)
      BY <3>1 DEF Invoke
    <3>3. \A i \in DOMAIN calls : calls[i].op # "deploy"
      BY <3>1
    <3> QED BY <3>2, <3>3
  <2> QED BY <2>1, <2>2
<1>4. CASE SetCoinbase
  <2>1. proc.todo # <<>> /\ Head(proc.todo).kind = "set_coinbase"
    BY <1>4, HeadAt DEF SetCoinbase
  <2>2. Opened /\ Kakarot \in Nat /\ proc.evm["Coinbase"].address \in Nat
    BY <2>1, HeadFacts, KakarotType, EvmType DEF Preliminary, UsingKakarot
  <2> DEFINE c == Call("set_coinbase", Kakarot, proc.evm["Coinbase"].address)
  <2>3. c \in Calls /\ Invoke(Done(proc), << c >>) /\ c.op = "set_coinbase"
    BY <1>4, <2>2, CallType, CallFields DEF SetCoinbase
  <2> HIDE DEF c
  <2>4. << c >> \in Seq(Calls) /\ \A i \in DOMAIN << c >> : << c >>[i] = c
    BY <2>3
  <2>5. chain' = chain \/ chain' \in Outcomes(<< c >>)
    BY <2>3 DEF Invoke
  <2> QED BY <2>3, <2>4, <2>5
<1>5. CASE DeployEoa
  <2>1. proc.todo # <<>> /\ Head(proc.todo).kind = "eoa"
    BY <1>5, HeadAt DEF DeployEoa
  <2>2. Opened /\ Kakarot \in Nat /\ Subject \in Subjects
    BY <2>1, HeadFacts, KakarotType DEF Preliminary, UsingKakarot
  <2> DEFINE c == Call("deploy_eoa", Kakarot, Subject)
  <2>3. c \in Calls /\ (UNCHANGED chain \/ chain' \in Outcomes(<< c >>)) /\ c.op = "deploy_eoa"
    BY <1>5, <2>2, CallType, CallFields DEF DeployEoa, Raise
  <2> HIDE DEF c
  <2>4. << c >> \in Seq(Calls) /\ \A i \in DOMAIN << c >> : << c >>[i] = c
    BY <2>3
  <2> QED BY <2>3, <2>4
<1>6. CASE DeployEvm
  <2>1. UNCHANGED chain \/ (KakarotAnswers /\ chain' = [chain EXCEPT !.core[Kakarot].contracts = @ \cup {NewContract}])
    BY ZenonT(30), <1>6 DEF DeployEvm, Raise, NewContract
  <2> QED BY <2>1, Created
<1>7. CASE Send
  <2>1. Subject \in Subjects
    BY <1>7, HeadAt, HeadFacts DEF Send
  <2>2. \/ UNCHANGED chain
        \/ /\ KakarotAnswers
           /\ \E created \in {{Subject}, {}} :
                chain' = [chain EXCEPT !.core[Kakarot].sent = @ \cup {Subject},
                                       !.core[Kakarot].created = @ \cup created]
    BY <1>7 DEF Send, Raise
  <2>3. CASE KakarotAnswers /\ ~UNCHANGED chain
    <3>1. PICK created \in {{Subject}, {}} :
            chain' = [chain EXCEPT !.core[Kakarot].sent = @ \cup {Subject},
                                   !.core[Kakarot].created = @ \cup created]
      BY <2>2, <2>3
    <3>2. created \in SUBSET Subjects
      BY <2>1
    <3> QED BY <2>1, <2>3, <3>1, <3>2, SentType
  <2> QED BY <2>2, <2>3
<1>8. CASE Token
  <2> DEFINE long == (Deploys("token") \o << Do("authorize_caller") >>) \o << Do("check_token") >>
             p == [proc EXCEPT !.todo = long \o Tail(proc.todo), !.token = fresh]
             c == Call("deploy", fresh, "StarknetToken")
  <2>1. UNCHANGED chain \/ (Invoke(p, << c >>) /\ fresh' = fresh + 1)
    BY <1>8 DEF Token, Raise
  <2> HIDE DEF p, c
  <2>2. chain' = chain \/ (chain' \in Outcomes(<< c >>) /\ fresh' = fresh + 1)
    BY <2>1 DEF Invoke
  <2> QED BY <1>8, <2>2 DEF c
<1>9. CASE Declare
  <2>1. UNCHANGED chain \/ \E v : chain' = [chain EXCEPT !.declared = v]
    BY <1>9 DEF Declare
  <2> QED BY <1>1, <2>1 DEF Chains
<1>10. CASE \/ RegisterLazyAccount \/ RemoveLazyAccount \/ CheckDeclared \/ CheckDeployed
            \/ DumpDeclarations \/ DeployStarknetContracts \/ DeployOrUpgradeKakarot
            \/ LoadEvm \/ DumpEvm \/ Weth \/ Coinbase \/ CheckToken \/ Sender \/ Teardown \/ Finish
            \/ Crash \/ Build \/ (\E script \in Scripts : Start(script)) \/ UNCHANGED vars
  <2>1. UNCHANGED chain
    BY ZenonT(60), <1>10 DEF RegisterLazyAccount, RemoveLazyAccount, CheckDeclared, CheckDeployed, ExitUnless,
       DumpDeclarations, DeployStarknetContracts, DeployOrUpgradeKakarot, LoadEvm, DumpEvm, Weth,
       Coinbase, CheckToken, Sender, Teardown, Finish, Crash, Build, Start, Raise, vars
  <2> QED BY Zenon, <2>1
<1> QED BY <1>2, <1>3, <1>4, <1>5, <1>6, <1>7, <1>8, <1>9, <1>10 DEF Next, Run

\* What the deployments add to the queue.
LEMMA StarknetQueue ==
  ASSUME TInv, GInv, DeployStarknetContracts
  PROVE  /\ Opened /\ UNCHANGED chain
         /\ \/ proc'.queue = proc.queue /\ fresh' = fresh
            \/ /\ fresh' = fresh + 3
               /\ \E d1, d2, e :
                    /\ proc'.queue = ((proc.queue \o d1) \o d2) \o e
                    /\ d1 = <<>> \/ d1 = << Call("deploy", fresh + 1, "EVM") >>
                    /\ d2 = <<>> \/ d2 = << Call("deploy", fresh + 2, "Counter") >>
                    /\ \/ e = <<>>
                       \/ /\ d1 = << Call("deploy", fresh + 1, "EVM") >>
                          /\ e = << Call("set_evm_coinbase", fresh + 1, Deployer) >>
                       \/ \E a \in Nat : Exists(a) /\ e = << Call("set_evm_coinbase", a, Deployer) >>
<1>1. proc.todo # <<>> /\ Head(proc.todo).kind = "starknet" /\ UNCHANGED chain
  BY HeadAt DEF DeployStarknetContracts
<1>2. Opened /\ Done(proc) \in Processes /\ Done(proc).queue = proc.queue
  BY <1>1, HeadFacts, DoneFields DEF Preliminary
<1>3. CASE Network = "prod"
  BY <1>1, <1>2, <1>3 DEF DeployStarknetContracts
<1>4. CASE Network # "prod"
  <2> DEFINE addr(i) == IF Skips(Fixtures[i]) THEN files.starknet[Fixtures[i]] ELSE fresh + i
             deploy(i) == IF Skips(Fixtures[i]) THEN <<>>
                          ELSE <<Call("deploy", addr(i), Fixtures[i])>>
             coinbase == IF addr(1) \in chain.evmCoinbase THEN <<>>
                         ELSE <<Call("set_evm_coinbase", addr(1), Deployer)>>
  <2>1. /\ proc' = [Done(proc) EXCEPT !.queue = proc.queue \o deploy(1) \o deploy(2) \o coinbase]
        /\ fresh' = fresh + Len(Fixtures) + 1
    BY <1>2, <1>4 DEF DeployStarknetContracts
  <2>2. fresh' = fresh + 3
    <3>1. fresh \in Nat /\ Len(Fixtures) = 2
      BY DEF TInv, Fixtures
    <3> QED BY <2>1, <3>1
  <2>3. Fixtures[1] = "EVM" /\ Fixtures[2] = "Counter"
    BY DEF Fixtures
  <2>4. \/ Skips("EVM") /\ deploy(1) = <<>> /\ addr(1) = files.starknet["EVM"]
        \/ deploy(1) = << Call("deploy", fresh + 1, "EVM") >> /\ addr(1) = fresh + 1
    BY <2>3
  <2>5. deploy(2) = <<>> \/ deploy(2) = << Call("deploy", fresh + 2, "Counter") >>
    BY <2>3
  <2>6. Skips("EVM") => files.starknet["EVM"] \in Nat /\ Exists(files.starknet["EVM"])
    <3>1. fresh \in Nat /\ (Skips("EVM") => files.starknet["EVM"] \in 2..fresh)
      BY RecordedType
    <3> QED BY <3>1 DEF Skips
  <2> DEFINE d1 == deploy(1)
             d2 == deploy(2)
  <2>7. proc'.queue = ((proc.queue \o d1) \o d2) \o coinbase
    <3> HIDE DEF deploy, coinbase, addr
    <3> QED BY <1>2, <2>1 DEF Processes
  <2>8. coinbase = <<>> \/ coinbase = << Call("set_evm_coinbase", addr(1), Deployer) >>
    OBVIOUS
  <2> HIDE DEF deploy, coinbase, addr
  <2>9. \/ coinbase = <<>>
        \/ /\ d1 = << Call("deploy", fresh + 1, "EVM") >>
           /\ coinbase = << Call("set_evm_coinbase", fresh + 1, Deployer) >>
        \/ \E a \in Nat : Exists(a) /\ coinbase = << Call("set_evm_coinbase", a, Deployer) >>
    BY <2>4, <2>6, <2>8
  <2>10. d1 = <<>> \/ d1 = << Call("deploy", fresh + 1, "EVM") >>
    BY <2>4
  <2> HIDE DEF d1
  <2> QED BY <1>1, <1>2, <2>2, <2>5, <2>7, <2>9, <2>10
<1> QED BY <1>3, <1>4

LEMMA KakarotQueue ==
  ASSUME TInv, GInv, DeployOrUpgradeKakarot, proc' # NoProcess
  PROVE  /\ Opened /\ UNCHANGED chain /\ last' = last
         /\ \/ /\ Network # "dev" /\ Recorded("kakarot") /\ Exists(Kakarot)
               /\ proc'.queue = proc.queue \o Upgrade /\ UNCHANGED <<files, fresh>>
            \/ /\ fresh' = fresh + 1 /\ files' = [files EXCEPT !.starknet = With(@, "kakarot", Kakarot')]
               /\ Recorded("kakarot")' /\ Kakarot' \in Nat
               /\ \E d :
                    /\ proc'.queue = (proc.queue \o d) \o Configure(Kakarot')
                    /\ \/ d = <<>> /\ Recorded("kakarot") /\ Exists(Kakarot) /\ Kakarot' = Kakarot
                       \/ d = << Call("deploy", fresh, "kakarot") >> /\ Kakarot' = fresh
<1>1. proc.todo # <<>> /\ Head(proc.todo).kind = "kakarot" /\ UNCHANGED chain
  BY HeadAt DEF DeployOrUpgradeKakarot
<1>2. /\ Opened /\ Done(proc) \in Processes /\ Done(proc).queue = proc.queue /\ fresh \in Nat
  BY <1>1, HeadFacts, DoneFields DEF Preliminary, TInv
<1>3. CASE Recorded("kakarot") /\ Network # "dev"
  <2>1. /\ proc' = [Done(proc) EXCEPT !.queue = proc.queue \o Upgrade]
        /\ UNCHANGED <<files, last, fresh>> /\ Exists(Kakarot)
    BY <1>2, <1>3 DEF DeployOrUpgradeKakarot, Ends
  <2>2. proc'.queue = proc.queue \o Upgrade
    BY <1>2, <2>1 DEF Processes
  <2> QED BY <1>1, <1>2, <1>3, <2>1, <2>2
<1>4. CASE ~(Recorded("kakarot") /\ Network # "dev")
  <2> DEFINE k == IF Skips("kakarot") THEN Kakarot ELSE fresh
             d == IF Skips("kakarot") THEN <<>> ELSE << Call("deploy", k, "kakarot") >>
  <2>1. /\ proc' = [Done(proc) EXCEPT !.queue = proc.queue \o d \o Configure(k)]
        /\ files' = [files EXCEPT !.starknet = With(@, "kakarot", k)]
        /\ fresh' = fresh + 1 /\ UNCHANGED last
    BY <1>2, <1>4 DEF DeployOrUpgradeKakarot
  <2>2. \/ Skips("kakarot") /\ d = <<>> /\ k = Kakarot
        \/ d = << Call("deploy", fresh, "kakarot") >> /\ k = fresh
    OBVIOUS
  <2> HIDE DEF d, k
  <2>3. proc'.queue = (proc.queue \o d) \o Configure(k)
    BY <1>2, <2>1 DEF Processes
  <2>4. files'.starknet = With(files.starknet, "kakarot", k)
    BY <2>1 DEF TInv
  <2>5. Recorded("kakarot")' /\ Kakarot' = k
    BY <2>4 DEF Recorded, Kakarot, With
  <2>6. Skips("kakarot") => Recorded("kakarot") /\ Exists(Kakarot) /\ Kakarot \in Nat
    BY KakarotType DEF Skips, Kakarot
  <2> QED BY <1>1, <1>2, <2>1, <2>2, <2>3, <2>5, <2>6
<1> QED BY <1>3, <1>4

\* An invoke of one call, and a step that leaves the queue and the chain.
Sends(c) ==
  IF proc.lazy THEN proc'.queue = proc.queue \o << c >> /\ chain' = chain
  ELSE proc'.queue = proc.queue /\ chain' \in Outcomes(<< c >>)
Rests == proc'.queue = proc.queue /\ chain' = chain

LEMMA NoneExecuted ==
  ASSUME chain \in Chains, NEW ch \in Outcomes(<<>>)
  PROVE  ch = chain
<1> DEFINE s == << >>
<1>1. s \in Seq(Calls) /\ Len(s) = 0
  OBVIOUS
<1> HIDE DEF s
<1>2. PICK after \in [0..Len(s) -> Results] :
        after[0] = [ok |-> TRUE, chain |-> chain] /\ Executed(s) = after[Len(s)].chain
  BY <1>1, ExecutedDef
<1>3. Executed(s) = chain
  BY <1>1, <1>2
<1> QED BY <1>3 DEF s, Outcomes

LEMMA InvokeSends ==
  ASSUME TInv, NEW p \in Processes, p.queue = proc.queue, p.lazy = proc.lazy
  PROVE  /\ \A c \in Calls : Invoke(p, << c >>) => Sends(c)
         /\ Invoke(p, << >>) => Rests
<1>1. proc.queue \in Seq(Calls) /\ chain \in Chains
  BY DEF TInv, Processes
<1>2. ASSUME NEW c \in Calls, Invoke(p, << c >>)
      PROVE  Sends(c)
  <2>1. CASE proc.lazy
    <3>1. proc' = [p EXCEPT !.queue = p.queue \o << c >>] /\ chain' = chain
      BY <1>2, <2>1 DEF Invoke
    <3>2. proc'.queue = proc.queue \o << c >>
      BY <3>1 DEF Processes
    <3> QED BY <2>1, <3>1, <3>2 DEF Sends
  <2>2. CASE ~proc.lazy
    BY <1>2, <2>2 DEF Invoke, Sends
  <2> QED BY <2>1, <2>2
<1>3. ASSUME Invoke(p, << >>)
      PROVE  Rests
  <2>1. CASE proc.lazy
    <3>1. proc' = [p EXCEPT !.queue = p.queue \o << >>] /\ chain' = chain
      BY <1>3, <2>1 DEF Invoke
    <3>2. proc'.queue = proc.queue \o << >>
      BY <3>1 DEF Processes
    <3>3. proc.queue \o << >> = proc.queue
      BY <1>1
    <3> QED BY <3>1, <3>2, <3>3 DEF Rests
  <2>2. CASE ~proc.lazy
    <3>1. proc' = p /\ chain' \in Outcomes(<< >>)
      BY <1>3, <2>2 DEF Invoke
    <3> QED BY <1>1, <3>1, NoneExecuted DEF Rests
  <2> QED BY <2>1, <2>2
<1> QED BY <1>2, <1>3

LEMMA FundSends ==
  ASSUME TInv, GInv, FundStep, proc' # NoProcess
  PROVE  LET c == Call("fund", Kakarot, Subject)
         IN /\ KakarotAnswers
            /\ \/ Subject \in Core.funded /\ Rests
               \/ c \in Calls /\ Sends(c)
<1> DEFINE c == Call("fund", Kakarot, Subject)
<1>1. proc.todo # <<>> /\ Head(proc.todo).kind = "fund"
  BY HeadAt DEF FundStep
<1>2. KakarotAnswers /\ Invoke(Done(proc), IF Subject \in Core.funded THEN <<>> ELSE << c >>)
  BY DEF FundStep, Raise, Ends
<1>3. c \in Calls
  BY <1>1, <1>2, HeadFacts, KakarotType, CallType
<1> HIDE DEF c
<1>4. CASE Subject \in Core.funded
  <2>1. Invoke(Done(proc), << >>)
    BY <1>2, <1>4
  <2>2. Rests
    BY <1>1, <2>1, DoneFields, InvokeSends
  <2> QED BY <1>2, <1>4, <2>2
<1>5. CASE Subject \notin Core.funded
  <2>1. Invoke(Done(proc), << c >>)
    BY <1>2, <1>5
  <2>2. Sends(c)
    BY <1>1, <1>3, <2>1, DoneFields, InvokeSends
  <2> QED BY <1>2, <1>3, <2>2 DEF c
<1> QED BY <1>4, <1>5

LEMMA AuthorizeCallerSends ==
  ASSUME TInv, GInv, AuthorizeCaller
  PROVE  \E c \in Calls : c.op = "authorize_caller" /\ c.to = Kakarot /\ Sends(c)
<1> DEFINE c == Call("authorize_caller", Kakarot, proc.evm["token"].address)
<1>1. proc.todo # <<>> /\ Head(proc.todo).kind = "authorize_caller"
  BY HeadAt DEF AuthorizeCaller
<1>2. Opened /\ Recorded("kakarot") /\ Kakarot \in Nat /\ proc.evm["token"].address \in Nat
  BY <1>1, HeadFacts, KakarotType, EvmType DEF Preliminary, UsingKakarot
<1>3. c \in Calls /\ c.op = "authorize_caller" /\ c.to = Kakarot /\ Invoke(Done(proc), << c >>)
  BY <1>2, CallType, CallFields DEF AuthorizeCaller
<1> HIDE DEF c
<1>4. Sends(c)
  BY <1>1, <1>3, DoneFields, InvokeSends
<1> QED BY <1>3, <1>4

LEMMA SetCoinbaseSends ==
  ASSUME TInv, GInv, SetCoinbase
  PROVE  \E c \in Calls : c.op = "set_coinbase" /\ c.to = Kakarot /\ Sends(c)
<1> DEFINE c == Call("set_coinbase", Kakarot, proc.evm["Coinbase"].address)
<1>1. proc.todo # <<>> /\ Head(proc.todo).kind = "set_coinbase"
  BY HeadAt DEF SetCoinbase
<1>2. Opened /\ Recorded("kakarot") /\ Kakarot \in Nat /\ proc.evm["Coinbase"].address \in Nat
  BY <1>1, HeadFacts, KakarotType, EvmType DEF Preliminary, UsingKakarot
<1>3. c \in Calls /\ c.op = "set_coinbase" /\ c.to = Kakarot /\ Invoke(Done(proc), << c >>)
  BY <1>2, CallType, CallFields DEF SetCoinbase
<1> HIDE DEF c
<1>4. Sends(c)
  BY <1>1, <1>3, DoneFields, InvokeSends
<1> QED BY <1>3, <1>4

LEMMA WhitelistSends ==
  ASSUME TInv, GInv, WhitelistStep
  PROVE  LET c == Call("authorize", Kakarot, Subject)
         IN IF Subject \in proc.should THEN c \in Calls /\ Sends(c) ELSE Rests
<1> DEFINE c == Call("authorize", Kakarot, Subject)
<1>1. proc.todo # <<>> /\ Head(proc.todo).kind = "whitelist"
  BY HeadAt DEF WhitelistStep
<1>2. Opened /\ Recorded("kakarot") /\ Kakarot \in Nat /\ Subject \in Subjects
  BY <1>1, HeadFacts, KakarotType DEF Preliminary, UsingKakarot
<1>3. c \in Calls /\ Invoke(Done(proc), IF Subject \in proc.should THEN << c >> ELSE <<>>)
  BY <1>2, CallType DEF WhitelistStep
<1> HIDE DEF c
<1>4. CASE Subject \in proc.should
  BY <1>1, <1>3, <1>4, DoneFields, InvokeSends DEF c
<1>5. CASE Subject \notin proc.should
  BY <1>1, <1>3, <1>5, DoneFields, InvokeSends
<1> QED BY <1>4, <1>5

\* A round of the tokens that is not over with one step deploys a Starknet token, on a
\* development network.
LEMMA TokenSends ==
  ASSUME TInv, GInv, Token, proc' # NoProcess
  PROVE  LET c == Call("deploy", fresh, "StarknetToken")
         IN /\ KakarotAnswers
            /\ \/ Rests /\ fresh' = fresh
                        /\ \/ proc' = Done(proc)
                           \/ /\ Network # "dev"
                              /\ proc'.todo = (Deploys("token") \o << Do("authorize_caller") >>) \o Tail(proc.todo)
               \/ /\ c \in Calls /\ Sends(c) /\ fresh' = fresh + 1 /\ proc'.token = fresh /\ Network = "dev"
<1> DEFINE c == Call("deploy", fresh, "StarknetToken")
           short == Deploys("token") \o << Do("authorize_caller") >>
           long == (Deploys("token") \o << Do("authorize_caller") >>) \o << Do("check_token") >>
           p == [proc EXCEPT !.todo = long \o Tail(proc.todo), !.token = fresh]
<1>1. proc.todo # <<>> /\ proc \in Processes
  BY HeadAt DEF Token, TInv
<1>2. /\ KakarotAnswers
      /\ \/ proc' = Done(proc) /\ fresh' = fresh /\ chain' = chain
         \/ proc' = [proc EXCEPT !.todo = short \o Tail(proc.todo)] /\ fresh' = fresh /\ chain' = chain /\ Network # "dev"
         \/ Invoke(p, << c >>) /\ fresh' = fresh + 1 /\ Network = "dev"
  BY DEF Token, Raise, Ends
<1>3. CASE proc' = Done(proc) /\ fresh' = fresh /\ chain' = chain
  <2>1. proc'.queue = proc.queue
    BY <1>1, <1>3, DoneFields
  <2>2. Rests
    BY <1>3, <2>1 DEF Rests
  <2> QED BY <1>2, <1>3, <2>2
<1>4. CASE proc' = [proc EXCEPT !.todo = short \o Tail(proc.todo)] /\ fresh' = fresh /\ chain' = chain /\ Network # "dev"
  <2> DEFINE rest == short \o Tail(proc.todo)
  <2> HIDE DEF rest
  <2>1. proc' = [proc EXCEPT !.todo = rest]
    BY <1>4 DEF rest
  <2>2. proc'.queue = proc.queue /\ proc'.todo = rest
    BY <1>1, <2>1 DEF Processes
  <2> QED BY <1>2, <1>4, <2>2 DEF Rests, rest
<1>5. CASE Invoke(p, << c >>) /\ fresh' = fresh + 1 /\ Network = "dev"
  <2>1. p \in Processes /\ c \in Calls /\ p.queue = proc.queue /\ p.lazy = proc.lazy /\ p.token = fresh
    BY TokenCall
  <2> HIDE DEF p, c
  <2>2. << c >> \in Seq(Calls)
    BY <2>1
  <2>3. Sends(c)
    BY <1>5, <2>1, InvokeSends
  <2>4. proc'.token = fresh
    BY <1>5, <2>1, <2>2, InvokeType
  <2> QED BY <1>2, <1>5, <2>1, <2>3, <2>4 DEF c
<1> QED BY <1>2, <1>3, <1>4, <1>5

\* The call that a lazy step adds to the queue.
Adds(c) ==
  \/ /\ FundStep \/ AuthorizeCaller \/ SetCoinbase
     /\ c.op \in {"fund", "authorize_caller", "set_coinbase"} /\ c.to = Kakarot
  \/ /\ WhitelistStep /\ Subject \in proc.should
     /\ c.op = "authorize" /\ c.to = Kakarot /\ c.arg = Subject
  \/ /\ Token /\ fresh' = fresh + 1
     /\ c.op = "deploy" /\ c.to = fresh /\ c.arg = "StarknetToken"

LEMMA QueueSteps ==
  ASSUME TInv, GInv, [Next]_vars, Continues
  PROVE  \/ proc'.queue = proc.queue
         \/ (Execute \/ CreatePool) /\ proc'.queue = <<>> /\ chain' \in Outcomes(proc.queue)
         \/ DeployStarknetContracts \/ DeployOrUpgradeKakarot
         \/ /\ proc.lazy /\ chain' = chain
            /\ \E c \in Calls : proc'.queue = proc.queue \o << c >> /\ Adds(c)
<1>1. proc \in Processes /\ proc' # NoProcess /\ ~\E script \in Scripts : Start(script)
  BY DEF TInv, Continues
<1>2. ASSUME NEW c \in Calls, Sends(c), Adds(c)
      PROVE  \/ proc'.queue = proc.queue
             \/ /\ proc.lazy /\ chain' = chain
                /\ \E d \in Calls : proc'.queue = proc.queue \o << d >> /\ Adds(d)
  BY <1>2 DEF Sends
<1>3. CASE Execute \/ CreatePool
  <2>1. CASE Execute
    <3>1. Done(proc) \in Processes /\ proc' = [Done(proc) EXCEPT !.queue = <<>>] /\ chain' \in Outcomes(proc.queue)
      BY <2>1, HeadAt, DoneFields DEF Execute
    <3>2. proc'.queue = <<>>
      BY <3>1 DEF Processes
    <3> QED BY <2>1, <3>1, <3>2
  <2>2. CASE CreatePool
    <3>1. proc'.queue = <<>> /\ chain' \in Outcomes(proc.queue)
      BY <1>1, <2>2 DEF CreatePool, Processes
    <3> QED BY <2>2, <3>1
  <2> QED BY <1>3, <2>1, <2>2
<1>4. CASE FundStep
  <2> DEFINE c == Call("fund", Kakarot, Subject)
  <2>1. Rests \/ (c \in Calls /\ Sends(c))
    BY <1>1, <1>4, FundSends
  <2>2. c.op = "fund" /\ c.to = Kakarot
    BY CallFields
  <2> HIDE DEF c
  <2>3. Adds(c)
    BY <1>4, <2>2 DEF Adds
  <2>4. CASE Rests
    BY <2>4 DEF Rests
  <2>5. CASE c \in Calls /\ Sends(c)
    BY <1>2, <2>3, <2>5
  <2> QED BY <2>1, <2>4, <2>5
<1>5. CASE AuthorizeCaller
  <2>1. PICK c \in Calls : c.op = "authorize_caller" /\ c.to = Kakarot /\ Sends(c)
    BY <1>5, AuthorizeCallerSends
  <2>2. Adds(c)
    BY <1>5, <2>1 DEF Adds
  <2> QED BY <1>2, <2>1, <2>2
<1>6. CASE SetCoinbase
  <2>1. PICK c \in Calls : c.op = "set_coinbase" /\ c.to = Kakarot /\ Sends(c)
    BY <1>6, SetCoinbaseSends
  <2>2. Adds(c)
    BY <1>6, <2>1 DEF Adds
  <2> QED BY <1>2, <2>1, <2>2
<1>7. CASE WhitelistStep
  <2> DEFINE c == Call("authorize", Kakarot, Subject)
  <2>1. IF Subject \in proc.should THEN c \in Calls /\ Sends(c) ELSE Rests
    BY <1>7, WhitelistSends
  <2>2. c.op = "authorize" /\ c.to = Kakarot /\ c.arg = Subject
    BY CallFields
  <2> HIDE DEF c
  <2>3. CASE Subject \in proc.should
    <3>1. Adds(c)
      BY <1>7, <2>2, <2>3 DEF Adds
    <3> QED BY <1>2, <2>1, <2>3, <3>1
  <2>4. CASE Subject \notin proc.should
    BY <2>1, <2>4 DEF Rests
  <2> QED BY <2>3, <2>4
<1>8. CASE Token
  <2> DEFINE c == Call("deploy", fresh, "StarknetToken")
  <2>1. Rests \/ (c \in Calls /\ Sends(c) /\ fresh' = fresh + 1)
    BY <1>1, <1>8, TokenSends
  <2>2. c.op = "deploy" /\ c.to = fresh /\ c.arg = "StarknetToken"
    BY CallFields
  <2> HIDE DEF c
  <2>3. CASE Rests
    BY <2>3 DEF Rests
  <2>4. CASE c \in Calls /\ Sends(c) /\ fresh' = fresh + 1
    <3>1. Adds(c)
      BY <1>8, <2>2, <2>4 DEF Adds
    <3> QED BY <1>2, <2>4, <3>1
  <2> QED BY <2>1, <2>3, <2>4
<1>9. CASE \/ RegisterLazyAccount \/ RemoveLazyAccount \/ CheckDeclared \/ CheckDeployed
           \/ Declare \/ DumpDeclarations \/ DeployEoa \/ DeployEvm \/ LoadEvm \/ DumpEvm
           \/ Weth \/ Coinbase \/ CheckToken \/ Sender \/ Send \/ Teardown
  <2>1. proc.todo # <<>>
    <3>1. \E kind : At(kind)
      BY ZenonT(60), <1>9, StepAt
    <3> QED BY <3>1, HeadAt
  <2>2. Done(proc) \in Processes /\ Done(proc).queue = proc.queue
    BY <2>1, DoneFields
  <2>3. \/ proc' = NoProcess
        \/ proc' = Done(proc)
        \/ \E v : proc' = [Done(proc) EXCEPT !.lazy = v]
        \/ \E v : proc' = [Done(proc) EXCEPT !.evm = v]
        \/ \E v : proc' = [Done(proc) EXCEPT !.should = v]
        \/ \E t : proc' = [proc EXCEPT !.todo = t]
        \/ \E t, v : proc' = [proc EXCEPT !.todo = t, !.should = v]
    BY <1>9 DEF RegisterLazyAccount, RemoveLazyAccount, CheckDeclared, CheckDeployed, ExitUnless, Ends,
       Raise, Declare, DumpDeclarations, DeployEoa, DeployEvm, LoadEvm, DumpEvm, Weth, Coinbase,
       CheckToken, Sender, Send, Teardown
  <2>4. proc' = NoProcess \/ proc'.queue = proc.queue
    BY <1>1, <2>2, <2>3 DEF Processes
  <2> QED BY <1>1, <2>4
<1>10. CASE Finish \/ Crash
  BY <1>1, <1>10 DEF Finish, Crash, Ends
<1>11. CASE Build \/ ResetChain \/ UNCHANGED vars
  BY <1>11 DEF Build, ResetChain, vars
<1> QED BY <1>1, <1>3, <1>4, <1>5, <1>6, <1>7, <1>8, <1>9, <1>10, <1>11 DEF Next, Run

LEMMA NotContinued ==
  ASSUME TInv, [Next]_vars, ~Continues
  PROVE  proc'.queue = <<>>
<1>1. NoProcess.queue = <<>> /\ NoProcess \in Processes
  BY NoProcessType DEF NoProcess
<1>2. CASE proc' = NoProcess
  BY <1>1, <1>2
<1>3. CASE \E script \in Scripts : Start(script)
  <2>1. PICK script \in Scripts : proc' = [NoProcess EXCEPT !.script = script, !.todo = Program(script)]
    BY <1>3 DEF Start
  <2> QED BY <1>1, <2>1 DEF Processes
<1> QED BY <1>2, <1>3 DEF Continues

LEMMA Numbers ==
  ASSUME TInv
  PROVE  /\ fresh \in Nat /\ proc.queue \in Seq(Calls) /\ chain \in Chains /\ proc \in Processes
         /\ DOMAIN chain.code \subseteq Nat /\ DOMAIN chain.core \subseteq DOMAIN chain.code
         /\ \A c \in Names(proc.queue) : c \in Calls /\ c.to \in Nat
<1>1. /\ fresh \in Nat /\ proc.queue \in Seq(Calls) /\ chain.code \in Partial(Nat, Instances) /\ proc \in Processes
      /\ DOMAIN chain.core \subseteq DOMAIN chain.code /\ chain \in Chains
  BY DEF TInv, Processes, Chains
<1>2. DOMAIN chain.code \subseteq Nat
  BY <1>1, PartialDef
<1>3. \A c \in Names(proc.queue) : c \in Calls
  BY <1>1 DEF Names
<1> QED BY <1>1, <1>2, <1>3 DEF Calls

LEMMA NamesJoined ==
  ASSUME NEW q \in Seq(Calls), NEW d \in Seq(Calls), NEW e \in Seq(Calls)
  PROVE  /\ Names((q \o d) \o e) = (Names(q) \cup Names(d)) \cup Names(e)
         /\ q \o d \in Seq(Calls) /\ (q \o d) \o e \in Seq(Calls)
<1> DEFINE s == q \o d
<1>1. s \in Seq(Calls) /\ Names(s) = Names(q) \cup Names(d)
  BY NamesConcat
<1> HIDE DEF s
<1>2. s \o e \in Seq(Calls) /\ Names(s \o e) = Names(s) \cup Names(e)
  BY <1>1, NamesConcat
<1> QED BY <1>1, <1>2 DEF s

\* The queue with one more call.
LEMMA NamesMore ==
  ASSUME NEW q \in Seq(Calls), NEW c \in Calls
  PROVE  << c >> \in Seq(Calls) /\ q \o << c >> \in Seq(Calls) /\ Names(q \o << c >>) = Names(q) \cup {c}
<1>1. << c >> \in Seq(Calls) /\ q \o << c >> \in Seq(Calls)
  OBVIOUS
<1>2. Names(q \o << c >>) = Names(q) \cup Names(<< c >>)
  BY <1>1, NamesConcat
<1> QED BY <1>1, <1>2, NamesFew

\* The deployments that a step adds to the queue.
LEMMA DeploysBy ==
  ASSUME TInv, GInv, [Next]_vars, NEW c \in Names(proc'.queue), c.op = "deploy"
  PROVE  \/ c \in Names(proc.queue)
         \/ /\ c.to \in Nat /\ fresh <= c.to /\ c.to < fresh'
            /\ DeployOrUpgradeKakarot => Instantiates(c) /\ c.to = fresh
<1>1. fresh \in Nat /\ proc.queue \in Seq(Calls)
  BY Numbers
<1>2. Names(<< >>) = {} /\ \A d : Names(<< d >>) = {d}
  BY NamesFew
<1>3. CASE ~Continues
  BY <1>2, <1>3, NotContinued
<1>4. CASE DeployStarknetContracts
  <2>1. /\ \/ proc'.queue = proc.queue
           \/ /\ fresh' = fresh + 3
              /\ \E d1, d2, e :
                   /\ proc'.queue = ((proc.queue \o d1) \o d2) \o e
                   /\ d1 = <<>> \/ d1 = << Call("deploy", fresh + 1, "EVM") >>
                   /\ d2 = <<>> \/ d2 = << Call("deploy", fresh + 2, "Counter") >>
                   /\ e = <<>> \/ \E a \in Nat : e = << Call("set_evm_coinbase", a, Deployer) >>
        /\ Opened
    <3>1. fresh + 1 \in Nat
      BY <1>1
    <3> QED BY <1>4, <3>1, StarknetQueue
  <2>2. CASE proc'.queue = proc.queue
    BY <2>2
  <2>3. CASE proc'.queue # proc.queue
    <3>1. PICK d1, d2, e :
            /\ proc'.queue = ((proc.queue \o d1) \o d2) \o e
            /\ d1 = <<>> \/ d1 = << Call("deploy", fresh + 1, "EVM") >>
            /\ d2 = <<>> \/ d2 = << Call("deploy", fresh + 2, "Counter") >>
            /\ e = <<>> \/ \E a \in Nat : e = << Call("set_evm_coinbase", a, Deployer) >>
      BY <2>1, <2>3
    <3>2. /\ Call("deploy", fresh + 1, "EVM") \in Calls /\ Call("deploy", fresh + 2, "Counter") \in Calls
          /\ \A a \in Nat : Call("set_evm_coinbase", a, Deployer) \in Calls
      <4>1. fresh + 1 \in Nat /\ fresh + 2 \in Nat /\ "EVM" \in Classes /\ "Counter" \in Classes /\ Deployer \in Nat
        BY <1>1 DEF Classes, Deployer
      <4> QED BY <2>1, <4>1, CallType
    <3>3. /\ d1 \in Seq(Calls) /\ (\A d \in Names(d1) : d = Call("deploy", fresh + 1, "EVM"))
          /\ d2 \in Seq(Calls) /\ (\A d \in Names(d2) : d = Call("deploy", fresh + 2, "Counter"))
          /\ e \in Seq(Calls) /\ (\A d \in Names(e) : d.op # "deploy")
      <4>1. << >> \in Seq(Calls) /\ \A d \in Calls : << d >> \in Seq(Calls)
        OBVIOUS
      <4>2. d1 \in Seq(Calls) /\ (\A d \in Names(d1) : d = Call("deploy", fresh + 1, "EVM"))
        BY ZenonT(30), <1>2, <3>1, <3>2, <4>1
      <4>3. d2 \in Seq(Calls) /\ (\A d \in Names(d2) : d = Call("deploy", fresh + 2, "Counter"))
        BY ZenonT(30), <1>2, <3>1, <3>2, <4>1
      <4>4. e \in Seq(Calls) /\ (\A d \in Names(e) : d.op # "deploy")
        <5>1. CASE e = <<>>
          BY <1>2, <4>1, <5>1
        <5>2. ASSUME NEW a \in Nat, e = << Call("set_evm_coinbase", a, Deployer) >>
              PROVE  e \in Seq(Calls) /\ (\A d \in Names(e) : d.op # "deploy")
          <6> DEFINE f == Call("set_evm_coinbase", a, Deployer)
          <6>1. f \in Calls /\ f.op # "deploy" /\ e = << f >>
            BY <3>2, <5>2, CallFields
          <6> HIDE DEF f
          <6> QED BY <1>2, <4>1, <6>1
        <5> QED BY <3>1, <5>1, <5>2
      <4> QED BY <4>2, <4>3, <4>4
    <3>4. Names(proc'.queue) = ((Names(proc.queue) \cup Names(d1)) \cup Names(d2)) \cup Names(e)
      <4>1. /\ (proc.queue \o d1) \o d2 \in Seq(Calls)
            /\ Names((proc.queue \o d1) \o d2) = (Names(proc.queue) \cup Names(d1)) \cup Names(d2)
        BY <1>1, <3>3, NamesJoined
      <4> QED BY <3>1, <3>3, <4>1, NamesConcat
    <3>7. /\ Call("deploy", fresh + 1, "EVM").to = fresh + 1
          /\ Call("deploy", fresh + 2, "Counter").to = fresh + 2
      BY CallFields
    <3>8. c \in Names(proc.queue) \/ c.to = fresh + 1 \/ c.to = fresh + 2
      BY <3>3, <3>4, <3>7
    <3>9. fresh' = fresh + 3
      BY <2>1, <2>3
    <3>10. ~DeployOrUpgradeKakarot
      BY <1>4 DEF DeployStarknetContracts, DeployOrUpgradeKakarot, At
    <3> QED BY <1>1, <3>8, <3>9, <3>10
  <2> QED BY <2>2, <2>3
<1>5. CASE DeployOrUpgradeKakarot /\ Continues
  <2>1. proc' # NoProcess
    BY <1>5 DEF Continues
  <2>2. CASE Recorded("kakarot") /\ proc'.queue = proc.queue \o Upgrade
    <3> DEFINE c1 == Call("upgrade", Kakarot, 0)
               c2 == Call("set_account_class", Kakarot, 0)
    <3>1. Kakarot \in Nat /\ Opened
      BY <2>2, KakarotType
    <3>2. c1 \in Calls /\ c2 \in Calls /\ c1.op # "deploy" /\ c2.op # "deploy"
      BY <3>1, CallType, CallFields
    <3> HIDE DEF c1, c2
    <3>3. << c1, c2 >> \in Seq(Calls) /\ << >> \in Seq(Calls) /\ Names(<< c1, c2 >>) = {c1, c2}
      BY <3>2, NamesFew
    <3>4. Upgrade \in Seq(Calls) /\ \A d \in Names(Upgrade) : d.op # "deploy"
      BY <1>2, <3>2, <3>3 DEF Upgrade, c1, c2
    <3>5. Names(proc'.queue) = Names(proc.queue) \cup Names(Upgrade)
      BY <1>1, <2>2, <3>4, NamesConcat
    <3> QED BY <3>4, <3>5
  <2>3. CASE /\ fresh' = fresh + 1 /\ Kakarot' \in Nat
             /\ \E d :
                  /\ proc'.queue = (proc.queue \o d) \o Configure(Kakarot')
                  /\ d = <<>> \/ d = << Call("deploy", fresh, "kakarot") >>
    <3> DEFINE k == Kakarot'
               c0 == Call("deploy", fresh, "kakarot")
               c1 == Call("set_base_fee", k, 0)
               c2 == Call("set_coinbase", k, Deployer)
    <3>1. PICK d : /\ proc'.queue = (proc.queue \o d) \o << c1, c2 >>
                   /\ d = <<>> \/ d = << c0 >>
      BY <2>3 DEF Configure
    <3>2. k \in Nat /\ Deployer \in Nat /\ "kakarot" \in Classes
      BY <2>3 DEF Deployer, Classes
    <3> HIDE DEF k
    <3>3. Opened
      BY <1>5, <2>1, KakarotQueue
    <3>4. /\ c0 \in Calls /\ c1 \in Calls /\ c2 \in Calls
          /\ c1.op # "deploy" /\ c2.op # "deploy" /\ Instantiates(c0) /\ c0.to = fresh
      BY <1>1, <3>2, <3>3, CallType, CallFields DEF Instantiates
    <3> HIDE DEF c0, c1, c2
    <3>5. << c1, c2 >> \in Seq(Calls) /\ << >> \in Seq(Calls) /\ << c0 >> \in Seq(Calls) /\ Names(<< c1, c2 >>) = {c1, c2}
      BY <3>4, NamesFew
    <3>6. d \in Seq(Calls) /\ Names(d) \subseteq {c0}
      BY <1>2, <3>1, <3>5
    <3>7. Names(proc'.queue) = (Names(proc.queue) \cup Names(d)) \cup Names(<< c1, c2 >>)
      <4> DEFINE f == << c1, c2 >>
      <4>1. f \in Seq(Calls) /\ proc'.queue = (proc.queue \o d) \o f
        BY <3>1, <3>5
      <4> HIDE DEF f
      <4>2. Names(proc'.queue) = (Names(proc.queue) \cup Names(d)) \cup Names(f)
        BY <1>1, <3>6, <4>1, NamesJoined
      <4> QED BY <4>2 DEF f
    <3>9. c \in Names(proc.queue) \/ c = c0
      BY <3>4, <3>5, <3>6, <3>7
    <3> QED BY <1>1, <2>3, <3>4, <3>9
  <2> QED BY <1>5, <2>1, <2>2, <2>3, KakarotQueue
<1>6. CASE Continues /\ ~DeployStarknetContracts /\ ~DeployOrUpgradeKakarot
  <2>1. CASE proc'.queue = <<>>
    BY <1>2, <2>1
  <2>2. CASE \E d \in Calls : proc'.queue = proc.queue \o << d >> /\ Adds(d)
    <3>1. PICK d \in Calls : proc'.queue = proc.queue \o << d >> /\ Adds(d)
      BY <2>2
    <3>3. c \in Names(proc.queue) \/ c = d
      BY <1>1, <3>1, NamesMore
    <3>4. d.op = "deploy" => d.to = fresh /\ fresh' = fresh + 1
      BY <3>1 DEF Adds
    <3> QED BY <1>1, <1>6, <3>3, <3>4
  <2> QED BY <1>6, <2>1, <2>2, QueueSteps
<1> QED BY <1>3, <1>4, <1>5, <1>6

LEMMA CodeBelow ==
  ASSUME TInv, GInv, AInv, [Next]_vars, ~ResetChain, NEW k \in DOMAIN chain'.code
  PROVE  \/ k \in DOMAIN chain.code
         \/ /\ k \in Nat /\ k < fresh'
            /\ k = fresh \/ \E c \in Names(proc.queue) : c.op = "deploy" /\ c.to = k
<1>1. /\ fresh \in Nat /\ fresh' \in Nat /\ fresh' >= fresh /\ chain \in Chains /\ proc.queue \in Seq(Calls)
      /\ \A c \in Names(proc.queue) : c \in Calls /\ c.to \in Nat
  BY Numbers, FreshGrows
<1>2. CASE chain' \in Outcomes(proc.queue)
  <2>1. k \in DOMAIN chain.code \/ \E c \in Names(proc.queue) : c.op = "deploy" /\ c.to = k
    BY <1>1, <1>2, CodeFrom DEF Names
  <2>2. ASSUME NEW c \in Names(proc.queue), c.op = "deploy", c.to = k
        PROVE  k \in Nat /\ k < fresh'
    <3>1. c.to \in Nat /\ c.to < fresh
      BY <1>1, <2>2 DEF AInv
    <3> QED BY <1>1, <2>2, <3>1
  <2> QED BY <2>1, <2>2
<1>3. CASE Token /\ fresh' = fresh + 1 /\ chain' \in Outcomes(<< Call("deploy", fresh, "StarknetToken") >>)
  <2> DEFINE c == Call("deploy", fresh, "StarknetToken")
  <2>1. c \in Calls /\ c.to = fresh
    BY <1>3, TokenCall, CallFields
  <2> HIDE DEF c
  <2>2. << c >> \in Seq(Calls) /\ chain' \in Outcomes(<< c >>)
    BY <1>3, <2>1 DEF c
  <2> DEFINE s == << c >>
  <2>3. s \in Seq(Calls) /\ chain' \in Outcomes(s) /\ \A i \in DOMAIN s : s[i] = c
    BY <2>2
  <2> HIDE DEF s
  <2>4. k \in DOMAIN chain.code \/ \E i \in DOMAIN s : s[i].op = "deploy" /\ s[i].to = k
    BY <1>1, <2>3, CodeFrom
  <2>5. k \in DOMAIN chain.code \/ k = fresh
    BY <2>1, <2>3, <2>4
  <2> QED BY <1>1, <1>3, <2>5
<1>4. CASE \E calls \in Seq(Calls) : chain' \in Outcomes(calls) /\ \A i \in DOMAIN calls : calls[i].op # "deploy"
  BY <1>1, <1>4, CodeFrom
<1> QED BY <1>2, <1>3, <1>4, CallsBy

LEMMA KakarotThere ==
  ASSUME TInv, GInv, AInv, [Next]_vars, ~ResetChain, Recorded("kakarot"), Kakarot \in DOMAIN chain'.code
  PROVE  Kakarot \in DOMAIN chain'.core
<1>1. /\ fresh \in Nat /\ chain \in Chains /\ proc.queue \in Seq(Calls) /\ Kakarot \in Nat /\ Kakarot < fresh
      /\ Kakarot \in DOMAIN chain.code => Kakarot \in DOMAIN chain.core
      /\ \A c \in Names(proc.queue) : c.op = "deploy" /\ c.to = Kakarot => Instantiates(c)
  BY Numbers, KakarotType DEF AInv, Exists, KakarotAnswers
<1>2. CASE chain' \in Outcomes(proc.queue)
  <2>1. \A i \in DOMAIN proc.queue : proc.queue[i] \in Names(proc.queue)
    BY DEF Names
  <2> QED BY <1>1, <1>2, <2>1, CodeAnswers
<1>3. CASE Token /\ chain' \in Outcomes(<< Call("deploy", fresh, "StarknetToken") >>)
  <2> DEFINE c == Call("deploy", fresh, "StarknetToken")
  <2>1. c \in Calls /\ c.to = fresh
    BY <1>3, TokenCall, CallFields
  <2> HIDE DEF c
  <2>2. << c >> \in Seq(Calls) /\ chain' \in Outcomes(<< c >>)
    BY <1>3, <2>1 DEF c
  <2>4. \A i \in DOMAIN << c >> : << c >>[i] = c
    BY <2>2
  <2>5. Kakarot # fresh
    BY <1>1
  <2>6. \A i \in DOMAIN << c >> : << c >>[i].to # Kakarot
    BY <2>1, <2>4, <2>5
  <2> QED BY <1>1, <2>2, <2>6, CodeAnswers
<1>4. CASE \E calls \in Seq(Calls) : chain' \in Outcomes(calls) /\ \A i \in DOMAIN calls : calls[i].op # "deploy"
  BY <1>1, <1>4, CodeAnswers
<1> QED BY <1>1, <1>2, <1>3, <1>4, CallsBy

LEMMA AKeeps ==
  ASSUME TInv, GInv, AInv, [Next]_vars
  PROVE  AInv'
<1>1. /\ fresh \in Nat /\ fresh' \in Nat /\ fresh' >= fresh /\ DOMAIN chain.code \subseteq Nat
      /\ \A c \in Names(proc.queue) : c \in Calls /\ c.to \in Nat
  BY Numbers, FreshGrows
<1>2. ASSUME NEW k \in DOMAIN chain'.code
      PROVE  k < fresh'
  <2>1. ~ResetChain
    BY DEF ResetChain, EmptyChain, Empty
  <2>2. CASE k \in DOMAIN chain.code
    <3>1. k \in Nat /\ k < fresh
      BY <1>1, <2>2 DEF AInv
    <3> QED BY <1>1, <3>1
  <2> QED BY <2>1, <2>2, CodeBelow
<1>3. ASSUME NEW c \in Names(proc'.queue), c.op = "deploy"
      PROVE  c.to < fresh'
  <2>1. CASE c \in Names(proc.queue)
    <3>1. c.to \in Nat /\ c.to < fresh
      BY <1>1, <1>3, <2>1 DEF AInv
    <3> QED BY <1>1, <3>1
  <2> QED BY <1>3, <2>1, DeploysBy
<1>4. ASSUME Recorded("kakarot")'
      PROVE  /\ Kakarot' < fresh'
             /\ Kakarot' \in DOMAIN chain'.code => Kakarot' \in DOMAIN chain'.core
             /\ \A c \in Names(proc'.queue) : c.op = "deploy" /\ c.to = Kakarot' => Instantiates(c)
  <2>1. CASE Recorded("kakarot") /\ Kakarot' = Kakarot /\ ~DeployOrUpgradeKakarot
    <3>1. Kakarot \in Nat /\ Kakarot < fresh
      BY <2>1, KakarotType DEF AInv
    <3>2. Kakarot \in DOMAIN chain'.code => Kakarot \in DOMAIN chain'.core
      <4>1. ResetChain => DOMAIN chain'.code = {}
        BY DEF ResetChain, EmptyChain, Empty
      <4> QED BY <2>1, <4>1, KakarotThere
    <3>3. ASSUME NEW c \in Names(proc'.queue), c.op = "deploy", c.to = Kakarot
          PROVE  Instantiates(c)
      <4>1. c \in Names(proc.queue)
        BY <1>1, <3>1, <3>3, DeploysBy
      <4> QED BY <2>1, <3>3, <4>1 DEF AInv
    <3> QED BY <1>1, <2>1, <3>1, <3>2, <3>3
  <2>2. CASE DeployOrUpgradeKakarot /\ proc' = NoProcess
    <3>1. UNCHANGED <<files, chain, fresh>> /\ Names(proc'.queue) = {}
      <4>1. proc.todo # <<>> /\ Done(proc).todo = Tail(proc.todo) /\ Done(proc).script # "none" /\ Done(proc) \in Processes
        <5>1. proc.todo # <<>>
          BY <2>2, HeadAt DEF DeployOrUpgradeKakarot
        <5> QED BY <5>1, DoneFields, HeadFacts DEF Idle
      <4>2. \A q : [Done(proc) EXCEPT !.queue = q] # NoProcess
        BY <4>1 DEF Processes, NoProcess
      <4> QED BY <2>2, <4>2, NamesFew DEF DeployOrUpgradeKakarot, NoProcess
    <3>2. Recorded("kakarot") /\ Kakarot' = Kakarot
      BY <1>4, <3>1 DEF Recorded, Kakarot
    <3> QED BY <3>1, <3>2 DEF AInv, Exists, KakarotAnswers
  <2>3. CASE DeployOrUpgradeKakarot /\ proc' # NoProcess
    <3>1. UNCHANGED chain
      BY <2>3, KakarotQueue
    <3>2. \/ Recorded("kakarot") /\ UNCHANGED <<files, fresh>>
          \/ fresh' = fresh + 1 /\ Recorded("kakarot") /\ Exists(Kakarot) /\ Kakarot' = Kakarot
          \/ fresh' = fresh + 1 /\ Kakarot' = fresh
      BY <2>3, KakarotQueue
    <3>3. \A c \in Names(proc'.queue) : c.op = "deploy" => c \in Names(proc.queue) \/ Instantiates(c)
      BY <2>3, DeploysBy
    <3>4. CASE Recorded("kakarot") /\ Kakarot' = Kakarot
      <4>1. Kakarot \in Nat /\ Kakarot < fresh
        BY <3>4, KakarotType DEF AInv
      <4> QED BY <1>1, <3>1, <3>3, <3>4, <4>1 DEF AInv, Exists, KakarotAnswers
    <3>5. CASE fresh' = fresh + 1 /\ Kakarot' = fresh
      <4>1. fresh \notin DOMAIN chain'.code /\ fresh < fresh'
        <5>1. ~(fresh < fresh)
          BY <1>1
        <5> QED BY <1>1, <3>1, <3>5, <5>1 DEF AInv
      <4>2. \A c \in Names(proc.queue) : c.op = "deploy" => c.to # fresh
        <5>1. ~(fresh < fresh)
          BY <1>1
        <5> QED BY <5>1 DEF AInv
      <4> QED BY <3>3, <3>5, <4>1, <4>2
    <3>6. UNCHANGED files => Kakarot' = Kakarot
      BY DEF Kakarot
    <3> QED BY <3>2, <3>4, <3>5, <3>6
  <2> QED BY <1>4, <2>1, <2>2, <2>3, KakarotStays
<1> QED BY <1>2, <1>3, <1>4 DEF AInv, Exists, KakarotAnswers

LEMMA AInitially ==
  ASSUME Init
  PROVE  AInv
<1>1. proc.queue = <<>> /\ chain.code = Empty /\ files.starknet = Empty /\ DOMAIN Empty = {}
  BY DEF Init, NoProcess, EmptyChain, Empty
<1> QED BY <1>1, NamesFew DEF AInv, Recorded

-----------------------------------------------------------------------------
(***************************************************************************)
(* The queue.  Each of its calls is accepted behind those that stand before  *)
(* it, so that one transaction can carry them all.                         *)
(***************************************************************************)
First(q, n) == {q[i] : i \in 1..n}

Follows(ch, before, c) ==
  /\ c.op # "upgrade"
  /\ c.op = "deploy" => /\ c.to \notin DOMAIN ch.code
                        /\ \A d \in before : d.op = "deploy" => d.to # c.to
                        /\ <<c.arg, c.class[c.arg]>> \in ch.declared
  /\ c.op = "set_evm_coinbase" =>
       c.to \in DOMAIN ch.code \/ \E d \in before : d.op = "deploy" /\ d.to = c.to
  /\ c.op = "authorize" => c.to \in DOMAIN ch.core /\ c.arg \in ch.core[c.to].eoas
  /\ c.op \notin {"deploy", "upgrade", "set_evm_coinbase", "authorize"} =>
       c.to \in DOMAIN ch.core \/ \E d \in before : Instantiates(d) /\ d.to = c.to

Executable(ch, q) == \A i \in DOMAIN q : Follows(ch, First(q, i - 1), q[i])
Sound == Executable(chain, proc.queue)

\* What the call is for was done.
Fulfilled(ch, c) ==
  /\ Instantiates(c) => c.to \in DOMAIN ch.core
  /\ c.op = "fund" => c.to \in DOMAIN ch.core /\ c.arg \in ch.core[c.to].funded
  /\ c.op = "authorize" => c.to \in DOMAIN ch.core /\ c.arg \in ch.core[c.to].authorized

LEMMA FirstMore ==
  ASSUME NEW q \in Seq(Calls), NEW n \in Nat, n + 1 <= Len(q)
  PROVE  First(q, n + 1) = First(q, n) \cup {q[n + 1]}
<1>1. \A i : i \in 1..(n + 1) <=> i \in 1..n \/ i = n + 1
  OBVIOUS
<1> QED BY <1>1 DEF First

LEMMA FirstAll ==
  ASSUME NEW q \in Seq(Calls)
  PROVE  First(q, Len(q)) = Names(q) /\ First(q, 0) = {}
BY DEF First, Names

LEMMA FulfilledStill ==
  ASSUME NEW old, NEW ch, Kept(old, ch), NEW c, Fulfilled(old, c)
  PROVE  Fulfilled(ch, c)
BY DEF Kept, Fulfilled

LEMMA NextAccepted ==
  ASSUME NEW old \in Chains, NEW ch \in Chains, Grown(old, ch), NEW before, NEW c \in Calls,
         DOMAIN ch.code = DOMAIN old.code \cup {d.to : d \in {b \in before : b.op = "deploy"}},
         \A d \in before : Fulfilled(ch, d),
         Follows(old, before, c)
  PROVE  /\ Accepts(ch, c)
         /\ Effect(ch, c) \in Chains /\ Grown(old, Effect(ch, c))
         /\ DOMAIN Effect(ch, c).code
              = DOMAIN old.code \cup {d.to : d \in {b \in before \cup {c} : b.op = "deploy"}}
         /\ \A d \in before \cup {c} : Fulfilled(Effect(ch, c), d)
<1>1. Accepts(ch, c)
  <2>1. CASE c.op = "deploy"
    BY <2>1 DEF Follows, Accepts, Grown
  <2>2. CASE c.op = "set_evm_coinbase"
    BY <2>2 DEF Follows, Accepts, Grown
  <2>3. CASE c.op = "authorize"
    BY <2>3 DEF Follows, Accepts, Grown
  <2>4. CASE c.op \notin {"deploy", "upgrade", "set_evm_coinbase", "authorize"}
    <3>1. c.to \in DOMAIN ch.core
      BY <2>4 DEF Follows, Fulfilled, Grown
    <3> QED BY <2>4, <3>1 DEF Accepts
  <2> QED BY <2>1, <2>2, <2>3, <2>4 DEF Follows
<1> DEFINE e == Effect(ch, c)
<1>2. /\ e \in Chains /\ Grown(ch, e)
      /\ DOMAIN e.code = DOMAIN ch.code \cup (IF c.op = "deploy" THEN {c.to} ELSE {})
      /\ DOMAIN e.core = DOMAIN ch.core \cup (IF Instantiates(c) THEN {c.to} ELSE {})
      /\ \A k \in DOMAIN ch.core : Served(ch.core[k], e.core[k], k, c)
  BY <1>1, EffectType, EffectGrows, EffectFields
<1> HIDE DEF e
<1>3. Grown(old, e)
  BY <1>2, GrownTrans
<1>4. DOMAIN e.code = DOMAIN old.code \cup {d.to : d \in {b \in before \cup {c} : b.op = "deploy"}}
  BY <1>2
<1>5. \A d \in before : Fulfilled(e, d)
  BY <1>2, GrownKept, FulfilledStill
<1>6. Fulfilled(e, c)
  <2>1. Instantiates(c) => c.to \in DOMAIN e.core
    BY <1>2
  <2>2. c.op \in {"fund", "authorize"} => c.to \in DOMAIN ch.core
    BY <1>1 DEF Accepts
  <2>3. c.op = "fund" => c.to \in DOMAIN e.core /\ c.arg \in e.core[c.to].funded
    BY <1>2, <2>2 DEF Served
  <2>4. c.op = "authorize" => c.to \in DOMAIN e.core /\ c.arg \in e.core[c.to].authorized
    BY <1>2, <2>2 DEF Served
  <2> QED BY <2>1, <2>3, <2>4 DEF Fulfilled
<1> QED BY <1>1, <1>2, <1>3, <1>4, <1>5, <1>6 DEF e

LEMMA AllExecuted ==
  ASSUME chain \in Chains, NEW calls \in Seq(Calls), Executable(chain, calls)
  PROVE  /\ Executed(calls) \in Chains /\ Kept(chain, Executed(calls))
         /\ \A c \in Names(calls) : Fulfilled(Executed(calls), c)
<1>1. PICK after \in [0..Len(calls) -> Results] :
           /\ after[0] = [ok |-> TRUE, chain |-> chain]
           /\ \A n \in 1..Len(calls) : after[n] = After(after[n - 1], calls[n])
           /\ Executed(calls) = after[Len(calls)].chain
  BY ExecutedDef
<1> DEFINE m == Len(calls)
           Going(s, before) ==
             /\ s.ok /\ s.chain \in Chains /\ Grown(chain, s.chain)
             /\ DOMAIN s.chain.code = DOMAIN chain.code \cup {d.to : d \in {b \in before : b.op = "deploy"}}
             /\ \A d \in before : Fulfilled(s.chain, d)
           K == {n \in Nat : n <= m => Going(after[n], First(calls, n))}
<1>2. m \in Nat
  OBVIOUS
<1>3. \A n \in Nat : n \in K
  <2>1. 0 \in K
    <3>1. after[0].ok /\ after[0].chain = chain /\ First(calls, 0) = {}
      BY <1>1, FirstAll
    <3>2. Going(after[0], {})
      BY <3>1, GrownSame
    <3> HIDE DEF Going
    <3> QED BY <3>1, <3>2
  <2>2. ASSUME NEW n \in Nat, n \in K PROVE n + 1 \in K
    <3> SUFFICES ASSUME n + 1 <= m PROVE Going(after[n + 1], First(calls, n + 1))
      OBVIOUS
    <3> DEFINE c == calls[n + 1]
               s == after[n]
               before == First(calls, n)
    <3>1. n + 1 \in DOMAIN calls /\ c \in Calls /\ after[n + 1] = After(s, c) /\ (n + 1) - 1 = n
      BY <1>1
    <3>2. Follows(chain, before, c)
      BY <3>1 DEF Executable
    <3>3. Going(s, before)
      BY <2>2
    <3>4. First(calls, n + 1) = before \cup {c}
      BY FirstMore
    <3> HIDE DEF c, s, before
    <3>5. /\ Accepts(s.chain, c)
          /\ Effect(s.chain, c) \in Chains /\ Grown(chain, Effect(s.chain, c))
          /\ DOMAIN Effect(s.chain, c).code
               = DOMAIN chain.code \cup {d.to : d \in {b \in before \cup {c} : b.op = "deploy"}}
          /\ \A d \in before \cup {c} : Fulfilled(Effect(s.chain, c), d)
      BY <3>1, <3>2, <3>3, NextAccepted
    <3>6. After(s, c) = [ok |-> TRUE, chain |-> Effect(s.chain, c)]
      BY <3>3, <3>5 DEF After
    <3> QED BY <3>1, <3>4, <3>5, <3>6
  <2> HIDE DEF K
  <2> QED BY <2>1, <2>2, NatSet
<1>4. Going(after[m], First(calls, m))
  <2> HIDE DEF Going
  <2> QED BY <1>2, <1>3
<1>5. First(calls, m) = Names(calls)
  BY FirstAll
<1>6. Kept(chain, after[m].chain)
  BY <1>4, GrownKept
<1> QED BY <1>1, <1>4, <1>5, <1>6

LEMMA ExecutableMore ==
  ASSUME NEW ch, NEW q \in Seq(Calls), Executable(ch, q), NEW c \in Calls, Follows(ch, Names(q), c)
  PROVE  q \o << c >> \in Seq(Calls) /\ Executable(ch, q \o << c >>)
<1> DEFINE u == q \o << c >>
<1>1. /\ u \in Seq(Calls) /\ Len(q) \in Nat /\ DOMAIN u = 1..(Len(q) + 1) /\ DOMAIN q = 1..Len(q)
      /\ u[Len(q) + 1] = c /\ \A i \in 1..Len(q) : u[i] = q[i]
  OBVIOUS
<1> HIDE DEF u
<1>2. ASSUME NEW n \in 0..Len(q)
      PROVE  First(u, n) = First(q, n)
  <2>1. \A i \in 1..n : i \in 1..Len(q)
    BY <1>1
  <2> QED BY <1>1, <2>1 DEF First
<1>3. ASSUME NEW i \in DOMAIN u
      PROVE  Follows(ch, First(u, i - 1), u[i])
  <2>1. i - 1 \in 0..Len(q)
    BY <1>1
  <2>2. CASE i <= Len(q)
    <3>1. i \in DOMAIN q /\ u[i] = q[i]
      BY <1>1, <2>2
    <3>2. Follows(ch, First(q, i - 1), q[i])
      BY <3>1 DEF Executable
    <3> QED BY <1>2, <2>1, <3>1, <3>2
  <2>3. CASE i = Len(q) + 1
    <3>1. i - 1 = Len(q) /\ First(u, Len(q)) = Names(q) /\ u[i] = c
      BY <1>1, <1>2, <2>3, FirstAll
    <3> QED BY <3>1
  <2> QED BY <1>1, <2>2, <2>3
<1> QED BY <1>1, <1>3 DEF Executable, u

\* The chain may grow meanwhile, if it keeps clear of the addresses of the queue.
LEMMA ExecutableStill ==
  ASSUME NEW old, NEW ch, Kept(old, ch), NEW q \in Seq(Calls), Executable(old, q),
         \A c \in Names(q) : c.op = "deploy" /\ c.to \in DOMAIN ch.code => c.to \in DOMAIN old.code
  PROVE  Executable(ch, q)
<1> SUFFICES ASSUME NEW i \in DOMAIN q
             PROVE  Follows(ch, First(q, i - 1), q[i])
  BY DEF Executable
<1>1. Follows(old, First(q, i - 1), q[i])
  BY DEF Executable
<1>2. q[i] \in Names(q)
  BY DEF Names
<1> DEFINE c == q[i]
           before == First(q, i - 1)
<1> HIDE DEF c, before
<1>3. Follows(old, before, c) /\ (c.op = "deploy" /\ c.to \in DOMAIN ch.code => c.to \in DOMAIN old.code)
  BY <1>1, <1>2 DEF c, before
<1>4. Follows(ch, before, c)
  BY <1>3 DEF Follows, Kept
<1> QED BY <1>4 DEF c, before

-----------------------------------------------------------------------------
(***************************************************************************)
(* What the next step may rely on, and that it does not raise then.         *)
(***************************************************************************)
\* The facts that the next step relies on are in force.
Heeded == \E a : Ready(Head(proc.todo), a) /\ \A f \in a : InForce(f)

LEMMA FactFields ==
  ASSUME NEW topic, NEW w
  PROVE  /\ Fact(topic, w).topic = topic /\ Fact(topic, w).of = w
         /\ That(topic).topic = topic /\ That(topic).of = "all"
  BY DEF Fact, That

\* The accounts that are always used.
LEMMA AlwaysWanted == Wanted(EvmDeployer) /\ Wanted(Precompiles)
<1>1. EvmDeployer \notin Names(PreEip155) /\ Precompiles \notin Names(PreEip155)
  BY PreEip155Assumption DEF Names, EvmDeployer, Precompiles
<1> QED BY <1>1 DEF Wanted

LEMMA FactTells ==
  ASSUME NEW topic, NEW w, InForce(Fact(topic, w)), Fine
  PROVE  /\ topic \notin {"quiet", "eager", "coming"} => KakarotAnswers
         /\ topic = "token" => Exists(proc.token)
         /\ Wanted(w) =>
              /\ topic = "eoa" => w \in Core.eoas
              /\ topic = "funded" => w \in Core.funded
              /\ topic = "authorized" => w \in Core.authorized
              /\ topic = "unsent" => w \notin Core.sent
  BY FactFields DEF InForce

LEMMA ThatTells ==
  ASSUME NEW topic, InForce(That(topic))
  PROVE  /\ topic = "quiet" => proc.queue = <<>>
         /\ topic = "eager" => ~proc.lazy
         /\ Fine /\ topic \in {"there", "token"} => KakarotAnswers
         /\ Fine /\ topic = "token" => Exists(proc.token)
  BY FactFields DEF InForce

LEMMA HeededTells ==
  ASSUME TInv, GInv, proc.todo # <<>>, Heeded
  PROVE
  LET kind == Head(proc.todo).kind
  IN /\ kind \in {"declare", "dump_declarations"} => proc.queue = <<>>
     /\ kind = "token" => ~proc.lazy
     /\ Fine =>
        /\ kind \in {"fund", "eoa", "weth", "coinbase", "set_coinbase", "token", "authorize_caller", "sender",
                     "deploy_evm", "check_token", "whitelist", "send", "teardown"} => KakarotAnswers
        /\ kind = "deploy_evm" => EvmDeployer \in Core.eoas /\ EvmDeployer \in Core.funded
        /\ kind = "token" => EvmDeployer \in Core.funded
        /\ kind = "check_token" => Exists(proc.token)
        /\ kind \in {"whitelist", "send"} /\ Wanted(Subject) => Subject \in Core.eoas
        /\ kind = "send" /\ Wanted(Subject) =>
             Subject \in Core.funded /\ Subject \in Core.authorized /\ Subject \notin Core.sent
        /\ kind = "teardown" => Precompiles \in Core.funded
<1> DEFINE x == Head(proc.todo)
<1>1. PICK a : Ready(x, a) /\ \A f \in a : InForce(f)
  BY DEF Heeded
<1>2. x.of = Subject
  BY DEF Subject
<1> HIDE DEF x
<1>3. /\ x.kind \in {"declare", "dump_declarations"} => proc.queue = <<>>
      /\ x.kind = "token" => ~proc.lazy
  BY <1>1, ThatTells DEF Ready
<1>4. ASSUME Fine
       PROVE
        /\ x.kind \in {"fund", "eoa", "weth", "coinbase", "set_coinbase", "token", "authorize_caller", "sender",
                       "deploy_evm", "check_token", "whitelist", "send", "teardown"} => KakarotAnswers
        /\ x.kind = "deploy_evm" => EvmDeployer \in Core.eoas /\ EvmDeployer \in Core.funded
        /\ x.kind = "token" => EvmDeployer \in Core.funded
        /\ x.kind = "check_token" => Exists(proc.token)
        /\ x.kind \in {"whitelist", "send"} /\ Wanted(Subject) => Subject \in Core.eoas
        /\ x.kind = "send" /\ Wanted(Subject) =>
             Subject \in Core.funded /\ Subject \in Core.authorized /\ Subject \notin Core.sent
        /\ x.kind = "teardown" => Precompiles \in Core.funded
  <2>1. x.kind \in {"fund", "eoa", "weth", "coinbase", "set_coinbase", "token", "authorize_caller", "sender"} =>
        InForce(That("there"))
    BY <1>1 DEF Ready
  <2>2. x.kind = "deploy_evm" => InForce(Fact("eoa", EvmDeployer)) /\ InForce(Fact("funded", EvmDeployer))
    BY <1>1 DEF Ready
  <2>3. x.kind = "token" => InForce(Fact("funded", EvmDeployer))
    BY <1>1 DEF Ready
  <2>4. x.kind = "check_token" => InForce(That("token"))
    BY <1>1 DEF Ready
  <2>5. x.kind \in {"whitelist", "send"} => InForce(Fact("eoa", Subject))
    BY <1>1, <1>2 DEF Ready
  <2>6. x.kind = "send" => /\ InForce(Fact("funded", Subject)) /\ InForce(Fact("authorized", Subject))
                           /\ InForce(Fact("unsent", Subject))
    BY <1>1, <1>2 DEF Ready
  <2>7. x.kind = "teardown" => InForce(Fact("funded", Precompiles))
    BY <1>1 DEF Ready
  <2>8. x.kind \in {"fund", "eoa", "weth", "coinbase", "set_coinbase", "token", "authorize_caller", "sender"} =>
         KakarotAnswers
    BY <1>4, <2>1, ThatTells
  <2>9. x.kind = "check_token" => KakarotAnswers /\ Exists(proc.token)
    BY <1>4, <2>4, ThatTells
  <2>10. x.kind \in {"deploy_evm", "whitelist", "send", "teardown"} => KakarotAnswers
    BY <2>2, <2>5, <2>7, <1>4, FactTells
  <2>11. /\ x.kind = "deploy_evm" => EvmDeployer \in Core.eoas /\ EvmDeployer \in Core.funded
         /\ x.kind = "token" => EvmDeployer \in Core.funded
         /\ x.kind = "teardown" => Precompiles \in Core.funded
    BY <2>2, <2>3, <2>7, <1>4, FactTells, AlwaysWanted
  <2>12. x.kind \in {"whitelist", "send"} /\ Wanted(Subject) => Subject \in Core.eoas
    BY <2>5, <1>4, FactTells
  <2>13. x.kind = "send" /\ Wanted(Subject) =>
         Subject \in Core.funded /\ Subject \in Core.authorized /\ Subject \notin Core.sent
    BY <2>6, <1>4, FactTells
  <2>14. x.kind \in {"fund", "eoa", "weth", "coinbase", "set_coinbase", "token", "authorize_caller", "sender",
                     "deploy_evm", "check_token", "whitelist", "send", "teardown"} => KakarotAnswers
    BY <2>8, <2>9, <2>10
  <2>15. x.kind = "check_token" => Exists(proc.token)
    BY <2>9
  <2> QED BY <2>11, <2>12, <2>13, <2>14, <2>15
<1> QED BY <1>3, <1>4 DEF x

\* The step that a process raises in.
LEMMA RaisedAt ==
  ASSUME TInv, GInv, [Next]_vars, ~Idle, proc' = NoProcess, last' = "raised"
  PROVE  /\ proc.todo # <<>>
         /\ \/ FundStep \/ DeployEoa \/ DeployEvm \/ Weth \/ Coinbase \/ Token \/ CheckToken \/ Sender \/ Send
            \/ Teardown \/ DeployOrUpgradeKakarot
<1>1. /\ proc \in Processes /\ proc.script # "none" /\ NoProcess.script = "none"
      /\ \A s : Idle => ~Start(s)
  BY NoProcessType DEF TInv, Idle
<1>2. ~CreatePool /\ ~UNCHANGED vars
  BY <1>1 DEF CreatePool, vars, Processes
<1>3. ~Crash /\ ~Finish /\ ~Build /\ ~ResetChain /\ ~\E script \in Scripts : Start(script)
  BY DEF Crash, Finish, Build, ResetChain, Start, Ends
<1>4. ~Execute /\ ~RegisterLazyAccount /\ ~RemoveLazyAccount
  BY <1>1 DEF Execute, RegisterLazyAccount, RemoveLazyAccount, Done, Processes
<1>5. ~CheckDeclared /\ ~CheckDeployed
  BY <1>1 DEF CheckDeclared, CheckDeployed, ExitUnless, Done, Processes, Ends
<1>6. ~Declare /\ ~DumpDeclarations /\ ~LoadEvm /\ ~DumpEvm
  BY <1>1 DEF Declare, DumpDeclarations, LoadEvm, DumpEvm, Done, Processes
<1>7. ~DeployStarknetContracts
  <2>1. ASSUME DeployStarknetContracts
        PROVE  proc' = Done(proc) \/ \E q : proc' = [Done(proc) EXCEPT !.queue = q]
    BY <2>1 DEF DeployStarknetContracts
  <2> QED BY <1>1, <2>1 DEF Done, Processes
<1>8. \A calls : Invoke(Done(proc), calls) => proc' # NoProcess
  BY <1>1 DEF Invoke, Done, Processes
<1>9. ~SetCoinbase /\ ~AuthorizeCaller /\ ~WhitelistStep
  BY Zenon, <1>8 DEF SetCoinbase, AuthorizeCaller, WhitelistStep
<1>10. \/ FundStep \/ DeployEoa \/ DeployEvm \/ Weth \/ Coinbase \/ Token \/ CheckToken \/ Sender \/ Send
       \/ Teardown \/ DeployOrUpgradeKakarot
  BY Zenon, <1>2, <1>3, <1>4, <1>5, <1>6, <1>7, <1>9 DEF Next, Run
<1>11. \E kind : At(kind)
  BY Zenon, <1>10, StepAt
<1>12. proc.todo # <<>>
  BY <1>11, HeadAt
<1> QED BY <1>10, <1>12

LEMMA NoneRaises ==
  ASSUME TInv, GInv, [Next]_vars, Fine, ~Idle, proc' = NoProcess, last' = "raised",
         proc.todo # <<>> => Heeded
  PROVE  FALSE
<1> DEFINE kind == Head(proc.todo).kind
<1>1. proc.todo # <<>> /\ Heeded /\ ~MayRevert /\ Network = "dev"
  BY RaisedAt DEF Fine
<1>2. /\ proc \in Processes /\ proc.script # "none" /\ NoProcess.script = "none"
  BY NoProcessType DEF TInv, Idle
<1>3. /\ Done(proc) \in Processes /\ Done(proc).script # "none"
      /\ Done(proc) # NoProcess
  BY <1>1, <1>2, DoneFields
<1>4. /\ kind \in {"fund", "eoa", "weth", "coinbase", "token", "sender", "deploy_evm", "check_token", "send",
                   "teardown"} => KakarotAnswers
      /\ kind = "deploy_evm" => EvmDeployer \in Core.eoas /\ EvmDeployer \in Core.funded
      /\ kind = "check_token" => Exists(proc.token)
      /\ kind = "send" /\ Wanted(Subject) => /\ Subject \in Core.eoas /\ Subject \in Core.funded
                                             /\ Subject \in Core.authorized /\ Subject \notin Core.sent
      /\ kind = "teardown" => Precompiles \in Core.funded
  <2>1. kind \in {"fund", "eoa", "weth", "coinbase", "token", "sender", "deploy_evm", "check_token", "send",
                   "teardown"} => KakarotAnswers
    BY <1>1, HeededTells
  <2>2. kind \in {"whitelist", "send"} /\ Wanted(Subject) => Subject \in Core.eoas
    BY <1>1, HeededTells
  <2>3. /\ kind = "deploy_evm" => EvmDeployer \in Core.eoas /\ EvmDeployer \in Core.funded
        /\ kind = "check_token" => Exists(proc.token)
        /\ kind = "send" /\ Wanted(Subject) => /\ Subject \in Core.funded
                                               /\ Subject \in Core.authorized /\ Subject \notin Core.sent
        /\ kind = "teardown" => Precompiles \in Core.funded
    BY <1>1, HeededTells
  <2> QED BY <2>1, <2>2, <2>3
<1> HIDE DEF kind
<1>15. ASSUME NEW p, "script" \in DOMAIN p, p.script # "none", NEW calls, Invoke(p, calls)
       PROVE  FALSE
  <2>1. proc' = [p EXCEPT !.queue = p.queue \o calls] \/ proc' = p
    BY <1>15 DEF Invoke
  <2>2. [p EXCEPT !.queue = p.queue \o calls].script = p.script
    BY <1>15
  <2> QED BY <1>2, <1>15, <2>1, <2>2
<1>16. /\ "script" \in DOMAIN Done(proc)
       /\ \A todo, token : LET p == [proc EXCEPT !.todo = todo, !.token = token]
                           IN  "script" \in DOMAIN p /\ p.script # "none"
  BY <1>2, <1>3 DEF Processes
<1>17. \A v : /\ [Done(proc) EXCEPT !.evm = v] # NoProcess
              /\ [Done(proc) EXCEPT !.queue = v] # NoProcess
              /\ [Done(proc) EXCEPT !.should = v] # NoProcess
  <2> DEFINE p == Done(proc)
  <2>1. \A v : /\ [p EXCEPT !.evm = v].script = p.script
               /\ [p EXCEPT !.queue = v].script = p.script
               /\ [p EXCEPT !.should = v].script = p.script
    <3>1. "script" \in DOMAIN p
      BY <1>16
    <3> HIDE DEF p
    <3> QED BY <3>1
  <2> QED BY <1>2, <1>3, <2>1
<1>5. /\ FundStep => kind = "fund"
      /\ DeployEoa => kind = "eoa"
      /\ DeployEvm => kind = "deploy_evm"
      /\ Weth => kind = "weth"
      /\ Coinbase => kind = "coinbase"
      /\ Token => kind = "token"
      /\ CheckToken => kind = "check_token"
      /\ Sender => kind = "sender"
      /\ Send => kind = "send"
      /\ Teardown => kind = "teardown"
  BY StepAt, HeadAt DEF kind
<1>6. ~FundStep
  <2>1. ASSUME FundStep
        PROVE  \E calls : Invoke(Done(proc), calls)
    BY Zenon, <1>4, <1>5, <2>1 DEF FundStep
  <2> QED BY <1>3, <1>15, <1>16, <2>1
<1>7. ~DeployEoa
  BY <1>3, <1>4, <1>5 DEF DeployEoa
<1>8. ~DeployEvm
  <2>1. ASSUME DeployEvm
        PROVE  \E evm : proc' = [Done(proc) EXCEPT !.evm = evm]
    BY <1>1, <1>4, <1>5, <2>1 DEF DeployEvm
  <2> QED BY <1>17, <2>1
<1>9. ~Weth /\ ~Coinbase
  <2>1. ASSUME Weth \/ Coinbase
        PROVE  \E todo : proc' = [proc EXCEPT !.todo = todo]
    BY <1>4, <1>5, <2>1 DEF Weth, Coinbase
  <2> QED BY <1>2, <2>1 DEF Processes
<1>10. ~Token
  <2> SUFFICES ASSUME Token
               PROVE  FALSE
    OBVIOUS
  <2>1. \/ proc' = Done(proc)
        \/ \E todo, token, calls : Invoke([proc EXCEPT !.todo = todo, !.token = token], calls)
    BY Zenon, <1>1, <1>4, <1>5 DEF Token
  <2>2. proc' # Done(proc)
    BY <1>3
  <2>3. PICK todo, token, calls : Invoke([proc EXCEPT !.todo = todo, !.token = token], calls)
    BY <2>1, <2>2
  <2> DEFINE p == [proc EXCEPT !.todo = todo, !.token = token]
  <2>4. "script" \in DOMAIN p /\ p.script # "none" /\ Invoke(p, calls)
    BY <1>16, <2>3
  <2> HIDE DEF p
  <2> QED BY <1>15, <2>4
<1>11. ~CheckToken /\ ~Teardown
  BY <1>3, <1>4, <1>5 DEF CheckToken, Teardown
<1>12. ~Sender
  <2>1. ASSUME Sender
        PROVE  \/ \E should : proc' = [Done(proc) EXCEPT !.should = should]
               \/ \E should, todo : proc' = [proc EXCEPT !.todo = todo, !.should = should]
    BY Zenon, <1>4, <1>5, <2>1 DEF Sender
  <2> QED BY <1>2, <1>3, <2>1 DEF Processes
<1>13. ~Send
  <2>1. ASSUME Send
        PROVE  \E evm : proc' = [Done(proc) EXCEPT !.evm = evm]
    <3>1. Subject \in proc.should => Wanted(Subject)
      BY DEF Wanted
    <3>2. KakarotAnswers /\ (Subject \in proc.should => Sendable(Subject))
      BY <1>4, <1>5, <2>1, <3>1 DEF Sendable
    <3> QED BY Zenon, <1>1, <2>1, <3>2 DEF Send
  <2> QED BY <1>17, <2>1
<1>14. ~DeployOrUpgradeKakarot
  <2>1. ASSUME DeployOrUpgradeKakarot
        PROVE  \E q : proc' = [Done(proc) EXCEPT !.queue = q]
    BY <1>1, <2>1 DEF DeployOrUpgradeKakarot
  <2> QED BY <1>17, <2>1
<1> QED BY Zenon, <1>6, <1>7, <1>8, <1>9, <1>10, <1>11, <1>12, <1>13, <1>14, RaisedAt

-----------------------------------------------------------------------------
(***************************************************************************)
(* The queue stays one that the chain accepts.                              *)
(***************************************************************************)
LEMMA GoesOn ==
  ASSUME TInv, [Next]_vars, Continues
  PROVE  ~ResetChain /\ ~Idle /\ ~Crash /\ ~Finish
<1>1. Idle => proc = NoProcess
  BY DEF TInv
<1>2. ~ResetChain /\ ~Crash /\ ~Finish
  BY <1>1 DEF ResetChain, Crash, Finish, Ends, Continues
<1>3. Idle => proc' = NoProcess
  <2>1. ASSUME Idle
        PROVE  UNCHANGED vars \/ Build \/ ResetChain \/ \E script \in Scripts : Start(script)
    <3>1. proc.todo = <<>> /\ proc = NoProcess
      BY <1>1, <2>1, NoProcessType
    <3>2. \A kind : ~At(kind)
      BY <3>1 DEF At
    <3>3. ~CreatePool
      BY <3>2 DEF CreatePool
    <3>4. ~Finish /\ ~Crash
      BY <2>1 DEF Finish, Crash
    <3> QED BY Zenon, <3>2, <3>3, <3>4, StepAt DEF Next, Run
  <2>2. ASSUME Idle
        PROVE  proc' = proc \/ \E script \in Scripts : Start(script)
    BY <2>1, <2>2 DEF vars, Build, ResetChain
  <2> QED BY <1>1, <2>2 DEF Continues
<1> QED BY <1>2, <1>3 DEF Continues

LEMMA DeclaredStay ==
  ASSUME TInv, GInv, [Next]_vars, ~ResetChain, ~Declare
  PROVE  chain'.declared = chain.declared
<1>1. CASE UNCHANGED chain
  BY <1>1
<1>2. CASE \E calls \in Seq(Calls) : chain' \in Outcomes(calls)
  BY <1>2, OutcomeType DEF Grown
<1>3. CASE /\ KakarotAnswers
           /\ chain' = [chain EXCEPT !.core[Kakarot].contracts = @ \cup {NewContract}]
  BY <1>3, Created
<1>4. CASE /\ Send /\ KakarotAnswers
           /\ \E created \in {{Subject}, {}} :
                chain' = [chain EXCEPT !.core[Kakarot].sent = @ \cup {Subject},
                                       !.core[Kakarot].created = @ \cup created]
  <2>1. Subject \in Subjects
    BY <1>4, HeadAt, HeadFacts DEF Send
  <2>2. PICK created \in {{Subject}, {}} :
          chain' = [chain EXCEPT !.core[Kakarot].sent = @ \cup {Subject},
                                 !.core[Kakarot].created = @ \cup created]
    BY <1>4
  <2>3. created \in SUBSET Subjects
    BY <2>1
  <2> QED BY <1>4, <2>1, <2>2, <2>3, SentType
<1>5. \A created : created \in {{Subject}} \cup (IF MayRevert THEN {{}} ELSE {}) => created \in {{Subject}, {}}
  OBVIOUS
<1> QED BY Zenon, <1>1, <1>2, <1>3, <1>4, <1>5, ChainBy

LEMMA FineStays ==
  ASSUME TInv, GInv, [Next]_vars, Continues, Fine', ~Declare, ~DumpDeclarations
  PROVE  Fine
<1>1. world'.reverts = world.reverts /\ world'.network = world.network /\ files'.declared = files.declared
  BY FieldsKept
<1>2. chain'.declared = chain.declared
  BY GoesOn, DeclaredStay
<1>3. ClassesDeclared
  BY <1>1, <1>2 DEF Fine, ClassesDeclared
<1> QED BY <1>1, <1>3 DEF Fine, MayRevert, Network

\* What is new at a Starknet address when the queue is not executed.
LEMMA CodeNew ==
  ASSUME TInv, GInv, [Next]_vars, ~ResetChain, ~Execute, ~CreatePool, NEW k \in DOMAIN chain'.code
  PROVE  k \in DOMAIN chain.code \/ k = fresh
<1>1. chain \in Chains
  BY DEF TInv
<1>2. CASE Token /\ chain' \in Outcomes(<< Call("deploy", fresh, "StarknetToken") >>)
  <2> DEFINE c == Call("deploy", fresh, "StarknetToken")
  <2>1. c \in Calls /\ c.to = fresh
    BY <1>2, TokenCall, CallFields
  <2>2. << c >> \in Seq(Calls) /\ \A i \in DOMAIN << c >> : << c >>[i].to = fresh
    BY <2>1
  <2>3. chain' \in Outcomes(<< c >>)
    BY <1>2
  <2> DEFINE s == << c >>
  <2> HIDE DEF c
  <2>4. s \in Seq(Calls) /\ chain' \in Outcomes(s) /\ \A i \in DOMAIN s : s[i].to = fresh
    BY <2>2, <2>3
  <2> HIDE DEF s
  <2> QED BY <1>1, <2>4, CodeFrom
<1>3. CASE \E calls \in Seq(Calls) : chain' \in Outcomes(calls) /\ \A i \in DOMAIN calls : calls[i].op # "deploy"
  BY <1>1, <1>3, CodeFrom
<1> QED BY <1>2, <1>3, CallsBy

LEMMA NoneExecutable ==
  ASSUME NEW ch, NEW q, q = <<>>
  PROVE  Executable(ch, q)
  BY DEF Executable

\* A call that only needs the instance that it is sent to.
LEMMA ToKakarot ==
  ASSUME NEW ch, NEW before, NEW c, NEW k,
         c.op \in {"fund", "set_coinbase", "set_base_fee", "authorize_caller"}, c.to = k,
         k \in DOMAIN ch.core \/ \E d \in before : Instantiates(d) /\ d.to = k
  PROVE  Follows(ch, before, c)
  BY DEF Follows

\* A deployment at an address that nothing has yet.
LEMMA AtFresh ==
  ASSUME TInv, AInv, Opened, Fine, NEW class \in Classes, NEW to \in Nat, fresh <= to,
         NEW before, \A d \in before : d.op = "deploy" => d.to # to
  PROVE  /\ Call("deploy", to, class) \in Calls
         /\ Follows(chain, before, Call("deploy", to, class))
<1> DEFINE c == Call("deploy", to, class)
<1>1. c \in Calls /\ c.op = "deploy" /\ c.to = to /\ c.arg = class /\ c.class = files.declared
  BY CallType, CallFields
<1>2. <<class, files.declared[class]>> \in chain.declared
  BY DEF Fine, ClassesDeclared, Opened, Versions
<1>3. to \notin DOMAIN chain.code
  BY Numbers DEF AInv
<1> HIDE DEF c
<1>4. Follows(chain, before, c)
  BY <1>1, <1>2, <1>3 DEF Follows
<1> QED BY <1>1, <1>4 DEF c

LEMMA StarknetSound ==
  ASSUME TInv, GInv, AInv, DeployStarknetContracts, Fine, Sound
  PROVE  Executable(chain, proc'.queue)
<1> DEFINE q == proc.queue
<1>1. q \in Seq(Calls) /\ fresh \in Nat /\ Executable(chain, q) /\ Opened
  BY Numbers, StarknetQueue DEF Sound
<1>2. \A d \in Names(q) : d.op = "deploy" => d.to < fresh /\ d.to \in Nat
  BY Numbers DEF AInv
<1>3. CASE proc'.queue = q
  BY <1>1, <1>3
<1>4. ASSUME NEW d1, NEW d2, NEW e,
             proc'.queue = ((q \o d1) \o d2) \o e,
             d1 = <<>> \/ d1 = << Call("deploy", fresh + 1, "EVM") >>,
             d2 = <<>> \/ d2 = << Call("deploy", fresh + 2, "Counter") >>,
             \/ e = <<>>
             \/ /\ d1 = << Call("deploy", fresh + 1, "EVM") >>
                /\ e = << Call("set_evm_coinbase", fresh + 1, Deployer) >>
             \/ \E a \in Nat : Exists(a) /\ e = << Call("set_evm_coinbase", a, Deployer) >>
      PROVE  Executable(chain, proc'.queue)
  <2> DEFINE c1 == Call("deploy", fresh + 1, "EVM")
             c2 == Call("deploy", fresh + 2, "Counter")
             u == q \o d1
             v == u \o d2
  <2>1. c1.op = "deploy" /\ c1.to = fresh + 1 /\ c2.op = "deploy" /\ c2.to = fresh + 2
    BY CallFields
  <2>2. c1 \in Calls /\ Follows(chain, Names(q), c1)
    BY <1>1, <1>2, AtFresh DEF Classes
  <2>3. /\ u \in Seq(Calls) /\ Executable(chain, u)
        /\ Names(u) = Names(q) \/ Names(u) = Names(q) \cup {c1}
        /\ d1 = << c1 >> => c1 \in Names(u)
    <3>1. CASE d1 = <<>>
      <4>1. u = q /\ d1 # << c1 >>
        BY <1>1, <3>1
      <4> QED BY <1>1, <4>1
    <3>2. CASE d1 = << c1 >>
      <4> HIDE DEF c1, q
      <4>1. q \o << c1 >> \in Seq(Calls) /\ Executable(chain, q \o << c1 >>)
        BY <1>1, <2>2, ExecutableMore
      <4>2. Names(q \o << c1 >>) = Names(q) \cup {c1}
        BY <1>1, <2>2, NamesMore
      <4> QED BY <3>2, <4>1, <4>2
    <3> QED BY <1>4, <3>1, <3>2
  <2> HIDE DEF u
  <2>4. \A d \in Names(u) : d.op = "deploy" => d.to # fresh + 2
    BY <1>1, <1>2, <2>1, <2>3
  <2>5. c2 \in Calls /\ Follows(chain, Names(u), c2)
    BY <1>1, <2>4, AtFresh DEF Classes
  <2>6. /\ v \in Seq(Calls) /\ Executable(chain, v)
        /\ Names(u) \subseteq Names(v)
    <3>1. CASE d2 = <<>>
      <4>1. v = u
        BY <2>3, <3>1
      <4> QED BY <2>3, <4>1
    <3>2. CASE d2 = << c2 >>
      <4> HIDE DEF c2
      <4>1. u \o << c2 >> \in Seq(Calls) /\ Executable(chain, u \o << c2 >>)
        BY <2>3, <2>5, ExecutableMore
      <4>2. Names(u \o << c2 >>) = Names(u) \cup {c2}
        BY <2>3, <2>5, NamesMore
      <4> QED BY <3>2, <4>1, <4>2
    <3> QED BY <1>4, <3>1, <3>2
  <2> HIDE DEF v
  <2>7. CASE e = <<>>
    <3>1. v \o e = v
      BY <2>6, <2>7
    <3> QED BY <1>4, <2>6, <3>1 DEF v, u
  <2>8. CASE e # <<>>
    <3>1. PICK a \in Nat : /\ e = << Call("set_evm_coinbase", a, Deployer) >>
                           /\ Exists(a) \/ (a = fresh + 1 /\ d1 = << c1 >>)
      BY <1>1, <1>4, <2>8
    <3> DEFINE c == Call("set_evm_coinbase", a, Deployer)
    <3>2. c \in Calls /\ c.op = "set_evm_coinbase" /\ c.to = a
      BY <1>1, CallType, CallFields DEF Deployer
    <3> HIDE DEF c, c1
    <3>3. a \in DOMAIN chain.code \/ (c1 \in Names(v) /\ c1.op = "deploy" /\ c1.to = a)
      BY <2>1, <2>3, <2>6, <3>1 DEF Exists
    <3>4. Follows(chain, Names(v), c)
      BY <3>2, <3>3 DEF Follows
    <3>5. Executable(chain, v \o << c >>)
      BY <2>6, <3>2, <3>4, ExecutableMore
    <3> QED BY <1>4, <3>1, <3>5 DEF c, u, v
  <2> QED BY <2>7, <2>8
<1> QED BY <1>3, <1>4, StarknetQueue

LEMMA TwoJoined ==
  ASSUME NEW S, NEW a \in S, NEW b \in S
  PROVE  << a >> \in Seq(S) /\ << b >> \in Seq(S) /\ << a >> \o << b >> = << a, b >>
<1> DEFINE s == << a >>
           u == << a, b >>
           v == s \o << b >>
<1>1. /\ s \in Seq(S) /\ Len(s) = 1 /\ DOMAIN s = 1..1 /\ s[1] = a /\ << b >> \in Seq(S)
      /\ u \in Seq(S) /\ DOMAIN u = 1..2 /\ u[1] = a /\ u[2] = b
  OBVIOUS
<1> HIDE DEF s, u, v
<1>2. v \in Seq(S) /\ DOMAIN v = 1..2 /\ v[1] = a /\ v[2] = b
  <2>1. v = s \o << b >>
    BY DEF v
  <2>2. /\ v \in Seq(S) /\ DOMAIN v = 1..(Len(s) + 1)
        /\ \A i \in DOMAIN s : v[i] = s[i]
        /\ v[Len(s) + 1] = b
    BY <1>1, <2>1, OneMore
  <2> QED BY <1>1, <2>2
<1>3. v = u
  <2>1. v \in [1..2 -> S] /\ u \in [1..2 -> S]
    BY <1>1, <1>2
  <2>2. \A i \in 1..2 : v[i] = u[i]
    BY <1>1, <1>2
  <2> QED BY <2>1, <2>2
<1> QED BY <1>1, <1>3 DEF s, u, v

LEMMA KakarotSound ==
  ASSUME TInv, GInv, AInv, DeployOrUpgradeKakarot, proc' # NoProcess, Fine, Sound
  PROVE  Executable(chain, proc'.queue)
<1> DEFINE q == proc.queue
           k == Kakarot'
           c2 == Call("set_base_fee", k, 0)
           c3 == Call("set_coinbase", k, Deployer)
           c1 == Call("deploy", fresh, "kakarot")
<1>1. q \in Seq(Calls) /\ fresh \in Nat /\ Executable(chain, q) /\ Opened
  BY Numbers, KakarotQueue DEF Sound
<1>2. \A d \in Names(q) : d.op = "deploy" => d.to < fresh /\ d.to \in Nat
  BY Numbers DEF AInv
<1>3. PICK d : /\ proc'.queue = (q \o d) \o Configure(k) /\ k \in Nat
               /\ \/ d = <<>> /\ Recorded("kakarot") /\ Exists(Kakarot) /\ k = Kakarot
                  \/ d = << c1 >> /\ k = fresh
  BY KakarotQueue DEF Fine
<1> DEFINE u == q \o d
<1>4. c1.op = "deploy" /\ c1.to = fresh /\ c1.arg = "kakarot"
  BY CallFields
<1>5. c1 \in Calls /\ Follows(chain, Names(q), c1)
  <2>1. /\ fresh \in Nat /\ fresh <= fresh /\ "kakarot" \in Classes
        /\ \A b \in Names(q) : b.op = "deploy" => b.to # fresh
    BY <1>1, <1>2 DEF Classes
  <2> HIDE DEF q
  <2> QED BY <1>1, <2>1, AtFresh
<1>6. /\ c2 \in Calls /\ c2.op = "set_base_fee" /\ c2.to = k
      /\ c3 \in Calls /\ c3.op = "set_coinbase" /\ c3.to = k
  BY <1>1, <1>3, CallType, CallFields DEF Deployer
<1>7. Configure(k) = << c2, c3 >>
  BY DEF Configure
<1> HIDE DEF c1, c2, c3, k, q
<1>8. /\ u \in Seq(Calls) /\ Executable(chain, u)
      /\ k \in DOMAIN chain.core \/ \E b \in Names(u) : Instantiates(b) /\ b.to = k
  <2>1. CASE d = <<>> /\ Recorded("kakarot") /\ Exists(Kakarot) /\ k = Kakarot
    <3>1. u = q
      BY <1>1, <2>1
    <3>2. Kakarot \in DOMAIN chain.core
      BY <2>1 DEF AInv, KakarotAnswers
    <3> QED BY <1>1, <2>1, <3>1, <3>2
  <2>2. CASE d = << c1 >> /\ k = fresh
    <3>1. q \o << c1 >> \in Seq(Calls) /\ Executable(chain, q \o << c1 >>)
      BY <1>1, <1>5, ExecutableMore
    <3>2. Names(q \o << c1 >>) = Names(q) \cup {c1}
      BY <1>1, <1>5, NamesMore
    <3>3. Instantiates(c1) /\ c1.to = k
      BY <1>4, <2>2 DEF Instantiates
    <3> QED BY <2>2, <3>1, <3>2, <3>3
  <2> QED BY <1>3, <2>1, <2>2
<1> HIDE DEF u
<1>9. Follows(chain, Names(u), c2)
  BY <1>6, <1>8, ToKakarot
<1> DEFINE v == u \o << c2 >>
<1>10. v \in Seq(Calls) /\ Executable(chain, v) /\ Names(v) = Names(u) \cup {c2}
  BY <1>6, <1>8, <1>9, ExecutableMore, NamesMore
<1> HIDE DEF v
<1>11. Follows(chain, Names(v), c3)
  BY <1>6, <1>8, <1>10, ToKakarot
<1>12. Executable(chain, v \o << c3 >>)
  BY <1>6, <1>10, <1>11, ExecutableMore
<1>13. u \o << c2, c3 >> = v \o << c3 >>
  <2>1. << c2 >> \in Seq(Calls) /\ << c3 >> \in Seq(Calls) /\ << c2, c3 >> = << c2 >> \o << c3 >>
    BY <1>6, TwoJoined
  <2> QED BY <1>8, <2>1, Queued DEF v
<1> QED BY <1>3, <1>7, <1>12, <1>13 DEF u

LEMMA AddedSound ==
  ASSUME TInv, GInv, AInv, [Next]_vars, Continues, Fine, Sound, proc.lazy, Heeded,
         NEW c \in Calls, Adds(c)
  PROVE  Executable(chain, proc.queue \o << c >>)
<1>1. proc.queue \in Seq(Calls) /\ Executable(chain, proc.queue)
  BY Numbers DEF Sound
<1>2. /\ FundStep => proc.todo # <<>> /\ Head(proc.todo).kind = "fund"
      /\ AuthorizeCaller => proc.todo # <<>> /\ Head(proc.todo).kind = "authorize_caller"
      /\ SetCoinbase => proc.todo # <<>> /\ Head(proc.todo).kind = "set_coinbase"
      /\ WhitelistStep => proc.todo # <<>> /\ Head(proc.todo).kind = "whitelist"
      /\ Token => proc.todo # <<>> /\ Head(proc.todo).kind = "token"
  BY StepAt, HeadAt
<1>3. ASSUME FundStep \/ AuthorizeCaller \/ SetCoinbase \/ WhitelistStep
      PROVE  Kakarot \in DOMAIN chain.core
  <2>1. KakarotAnswers
    BY <1>2, <1>3, HeededTells
  <2> QED BY <2>1 DEF KakarotAnswers
<1>4. ASSUME WhitelistStep, Subject \in proc.should
      PROVE  Subject \in Core.eoas
  <2>1. Wanted(Subject)
    BY <1>4 DEF Wanted
  <2> QED BY <1>2, <1>4, <2>1, HeededTells
<1>5. ~Token
  BY <1>2, HeededTells
<1>6. Follows(chain, Names(proc.queue), c)
  <2>1. CASE /\ FundStep \/ AuthorizeCaller \/ SetCoinbase
             /\ c.op \in {"fund", "authorize_caller", "set_coinbase"} /\ c.to = Kakarot
    BY <1>3, <2>1, ToKakarot
  <2>2. CASE /\ WhitelistStep /\ Subject \in proc.should
             /\ c.op = "authorize" /\ c.to = Kakarot /\ c.arg = Subject
    BY <1>3, <1>4, <2>2 DEF Follows, Core
  <2> QED BY <1>5, <2>1, <2>2 DEF Adds
<1> QED BY <1>1, <1>6, ExecutableMore

LEMMA SoundKeeps ==
  ASSUME TInv, GInv, AInv, [Next]_vars, Fine => Sound, proc.todo # <<>> => Heeded
  PROVE  (Fine => Sound)'
<1> SUFFICES ASSUME Fine'
             PROVE  Executable(chain', proc'.queue)
  BY DEF Sound
<1>1. CASE ~Continues
  BY <1>1, NotContinued, NoneExecutable
<1>2. CASE Continues /\ (Declare \/ DumpDeclarations)
  <2>1. /\ proc.todo # <<>> /\ Head(proc.todo).kind \in {"declare", "dump_declarations"}
        /\ proc' = Done(proc)
    BY <1>2, StepAt, HeadAt DEF Declare, DumpDeclarations
  <2>2. proc.queue = <<>> /\ proc'.queue = proc.queue
    BY <2>1, HeededTells, DoneFields
  <2> QED BY <2>2, NoneExecutable
<1>3. CASE Continues /\ ~Declare /\ ~DumpDeclarations
  <2>1. Fine /\ Sound /\ ~ResetChain
    BY <1>3, FineStays, GoesOn
  <2>2. chain \in Chains /\ proc.queue \in Seq(Calls) /\ Executable(chain, proc.queue)
    BY <2>1, Numbers DEF Sound
  <2>3. CASE (Execute \/ CreatePool) /\ proc'.queue = <<>>
    BY <2>3, NoneExecutable
  <2>4. CASE ~(Execute \/ CreatePool) /\ proc'.queue = proc.queue
    <3>1. \A c \in Names(proc.queue) : c.op = "deploy" => c.to < fresh /\ c.to \in Nat /\ fresh \in Nat
      BY Numbers DEF AInv
    <3>2. \A c \in Names(proc.queue) :
            c.op = "deploy" /\ c.to \in DOMAIN chain'.code => c.to \in DOMAIN chain.code
      BY <2>1, <2>4, <3>1, CodeNew
    <3>3. Kept(chain, chain')
      BY <2>1, ChainKept
    <3> QED BY <2>2, <2>4, <3>2, <3>3, ExecutableStill
  <2>5. CASE DeployStarknetContracts
    <3>1. chain' = chain
      BY <2>5, StarknetQueue
    <3> QED BY <2>1, <2>5, <3>1, StarknetSound
  <2>6. CASE DeployOrUpgradeKakarot
    <3>1. proc' # NoProcess
      BY <1>3 DEF Continues
    <3>2. chain' = chain
      BY <2>6, <3>1, KakarotQueue
    <3> QED BY <2>1, <2>6, <3>1, <3>2, KakarotSound
  <2>7. CASE proc.lazy /\ chain' = chain /\ \E c \in Calls : proc'.queue = proc.queue \o << c >> /\ Adds(c)
    <3>1. PICK c \in Calls : proc'.queue = proc.queue \o << c >> /\ Adds(c)
      BY <2>7
    <3>2. FundStep \/ AuthorizeCaller \/ SetCoinbase \/ WhitelistStep \/ Token
      BY <3>1 DEF Adds
    <3>3. proc.todo # <<>>
      BY <3>2, StepAt, HeadAt
    <3> QED BY <1>3, <2>1, <2>7, <3>1, <3>3, AddedSound
  <2>8. Execute => proc'.queue = <<>>
    <3>1. ASSUME Execute
          PROVE  Done(proc) \in Processes /\ proc' = [Done(proc) EXCEPT !.queue = <<>>]
      BY <3>1, StepAt, HeadAt, DoneFields DEF Execute
    <3> QED BY <3>1 DEF Processes
  <2>9. CreatePool => proc'.queue = <<>>
    <3>1. proc \in Processes
      BY Numbers
    <3> QED BY <3>1 DEF CreatePool, Processes
  <2> QED BY <1>3, <2>3, <2>4, <2>5, <2>6, <2>7, <2>8, <2>9, QueueSteps
<1> QED BY <1>1, <1>2, <1>3

-----------------------------------------------------------------------------
(***************************************************************************)
(* The facts that a step leaves in force.                                   *)
(***************************************************************************)
LEMMA TokenKept ==
  ASSUME TInv, GInv, [Next]_vars, Continues, ~Token
  PROVE  proc'.token = proc.token
<1>1. proc \in Processes /\ "token" \in DOMAIN proc /\ "token" \in DOMAIN Done(proc)
      /\ Done(proc).token = proc.token
  <2>1. proc \in Processes
    BY DEF TInv
  <2> QED BY <2>1 DEF Processes, Done
<1>2. ASSUME NEW p, "token" \in DOMAIN p
      PROVE  \A v, w : /\ [p EXCEPT !.queue = v].token = p.token
                       /\ [p EXCEPT !.lazy = v].token = p.token
                       /\ [p EXCEPT !.evm = v].token = p.token
                       /\ [p EXCEPT !.should = v].token = p.token
                       /\ [p EXCEPT !.todo = v].token = p.token
                       /\ [p EXCEPT !.todo = v, !.should = w].token = p.token
                       /\ [p EXCEPT !.queue = v, !.pool = w].token = p.token
  BY <1>2
<1>3. /\ \A v : /\ [Done(proc) EXCEPT !.queue = v].token = proc.token
                /\ [Done(proc) EXCEPT !.lazy = v].token = proc.token
                /\ [Done(proc) EXCEPT !.evm = v].token = proc.token
                /\ [Done(proc) EXCEPT !.should = v].token = proc.token
                /\ [proc EXCEPT !.todo = v].token = proc.token
      /\ \A v, w : /\ [proc EXCEPT !.todo = v, !.should = w].token = proc.token
                   /\ [proc EXCEPT !.queue = v, !.pool = w].token = proc.token
  <2>1. \A v, w : /\ [proc EXCEPT !.todo = v].token = proc.token
                  /\ [proc EXCEPT !.todo = v, !.should = w].token = proc.token
                  /\ [proc EXCEPT !.queue = v, !.pool = w].token = proc.token
    BY Zenon, <1>1, <1>2
  <2>2. \A v : /\ [Done(proc) EXCEPT !.queue = v].token = Done(proc).token
               /\ [Done(proc) EXCEPT !.lazy = v].token = Done(proc).token
               /\ [Done(proc) EXCEPT !.evm = v].token = Done(proc).token
               /\ [Done(proc) EXCEPT !.should = v].token = Done(proc).token
    <3> DEFINE p == Done(proc)
    <3>1. "token" \in DOMAIN p
      BY <1>1
    <3> HIDE DEF p
    <3>2. \A v : /\ [p EXCEPT !.queue = v].token = p.token
                 /\ [p EXCEPT !.lazy = v].token = p.token
                 /\ [p EXCEPT !.evm = v].token = p.token
                 /\ [p EXCEPT !.should = v].token = p.token
      BY <1>2, <3>1
    <3> QED BY <3>2 DEF p
  <2> QED BY <1>1, <2>1, <2>2
<1>4. \A v : [Done(proc) EXCEPT !.queue = v].token = proc.token
  BY <1>3
<1>5. \A v : [Done(proc) EXCEPT !.lazy = v].token = proc.token
  BY <1>3
<1>6. \A v : [Done(proc) EXCEPT !.evm = v].token = proc.token
  BY <1>3
<1>7. \A v : [Done(proc) EXCEPT !.should = v].token = proc.token
  BY <1>3
<1>8. \A v : [proc EXCEPT !.todo = v].token = proc.token
  BY <1>3
<1>9. \A v, w : [proc EXCEPT !.todo = v, !.should = w].token = proc.token
  BY <1>3
<1>10. \A v, w : [proc EXCEPT !.queue = v, !.pool = w].token = proc.token
  BY <1>3
<1>11. ~Raise /\ ~Finish /\ ~Crash /\ ~\E script \in Scripts : Start(script)
  BY DEF Raise, Finish, Crash, Ends, Continues
<1>12. CASE Execute \/ RegisterLazyAccount \/ RemoveLazyAccount
  <2>1. \/ \E v : proc' = [Done(proc) EXCEPT !.queue = v]
        \/ \E v : proc' = [Done(proc) EXCEPT !.lazy = v]
    BY <1>12 DEF Execute, RegisterLazyAccount, RemoveLazyAccount
  <2>2. CASE \E v : proc' = [Done(proc) EXCEPT !.queue = v]
    BY Zenon, <1>4, <2>2
  <2>3. CASE \E v : proc' = [Done(proc) EXCEPT !.lazy = v]
    BY Zenon, <1>5, <2>3
  <2> QED BY <2>1, <2>2, <2>3
<1>13. CASE \/ CheckDeclared \/ CheckDeployed \/ Declare \/ DumpDeclarations \/ DeployEoa \/ DumpEvm
           \/ CheckToken \/ Teardown
  <2>1. proc' = Done(proc)
    <3>1. CASE CheckDeclared \/ CheckDeployed \/ CheckToken
      BY Zenon, <1>11, <3>1 DEF CheckDeclared, CheckDeployed, CheckToken, ExitUnless, Ends, Continues
    <3>2. CASE Declare \/ DumpDeclarations \/ DeployEoa \/ DumpEvm \/ Teardown
      BY Zenon, <1>11, <3>2 DEF Declare, DumpDeclarations, DeployEoa, DumpEvm, Teardown
    <3> QED BY <1>13, <3>1, <3>2
  <2> QED BY <1>1, <2>1
<1>14. CASE DeployStarknetContracts \/ DeployOrUpgradeKakarot
  <2>1. proc' = Done(proc) \/ \E q : proc' = [Done(proc) EXCEPT !.queue = q]
    BY <1>11, <1>14 DEF DeployStarknetContracts, DeployOrUpgradeKakarot, Ends, Continues
  <2>2. CASE \E q : proc' = [Done(proc) EXCEPT !.queue = q]
    BY Zenon, <1>4, <2>2
  <2> QED BY <1>1, <2>1, <2>2
<1>15. CASE CreatePool
  BY Zenon, <1>10, <1>15 DEF CreatePool
<1>16. CASE FundStep \/ AuthorizeCaller \/ WhitelistStep \/ SetCoinbase
  <2>1. \E calls : Invoke(Done(proc), calls)
    BY ZenonT(30), <1>11, <1>16 DEF FundStep, AuthorizeCaller, WhitelistStep, SetCoinbase
  <2>2. proc' = Done(proc) \/ \E q : proc' = [Done(proc) EXCEPT !.queue = q]
    BY Zenon, <2>1 DEF Invoke
  <2>3. CASE \E q : proc' = [Done(proc) EXCEPT !.queue = q]
    BY Zenon, <1>4, <2>3
  <2> QED BY <1>1, <2>2, <2>3
<1>17. CASE DeployEvm \/ LoadEvm \/ Send
  <2>1. \E evm : proc' = [Done(proc) EXCEPT !.evm = evm]
    BY <1>11, <1>17 DEF DeployEvm, LoadEvm, Send
  <2> QED BY Zenon, <1>6, <2>1
<1>18. CASE Weth \/ Coinbase
  <2>1. \E t : proc' = [proc EXCEPT !.todo = t]
    BY <1>11, <1>18 DEF Weth, Coinbase
  <2>2. PICK t : proc' = [proc EXCEPT !.todo = t]
    BY <2>1
  <2> QED BY SMT, <1>8, <2>2
<1>19. CASE Sender
  <2>1. \/ \E w : proc' = [Done(proc) EXCEPT !.should = w]
        \/ \E t, w : proc' = [proc EXCEPT !.todo = t, !.should = w]
    BY <1>11, <1>19 DEF Sender
  <2>2. CASE \E w : proc' = [Done(proc) EXCEPT !.should = w]
    BY Zenon, <1>7, <2>2
  <2>3. CASE \E t, w : proc' = [proc EXCEPT !.todo = t, !.should = w]
    <3>1. PICK t, w : proc' = [proc EXCEPT !.todo = t, !.should = w]
      BY <2>3
    <3> DEFINE p == [proc EXCEPT !.todo = t, !.should = w]
    <3>2. p.token = proc.token
      BY Zenon, <1>9
    <3>3. proc' = p
      BY <3>1
    <3> HIDE DEF p
    <3> QED BY <3>2, <3>3
  <2> QED BY <2>1, <2>2, <2>3
<1>20. CASE Build \/ ResetChain \/ UNCHANGED vars
  BY <1>20 DEF Build, ResetChain, vars
<1> QED BY <1>11, <1>12, <1>13, <1>14, <1>15, <1>16, <1>17, <1>18, <1>19, <1>20 DEF Next, Run

\* deploy_pre_eip155_sender decides about one transaction.
LEMMA ShouldKept ==
  ASSUME TInv, GInv, [Next]_vars, Continues, NEW n, ~(Sender /\ Subject = n)
  PROVE  n \in proc'.should <=> n \in proc.should
<1>1. CASE Sender
  <2>1. proc.todo # <<>> /\ proc \in Processes
    BY <1>1, StepAt, HeadAt, Numbers
  <2>2. Done(proc) \in Processes /\ Done(proc).should = proc.should
    BY <2>1, DoneFields
  <2>3. ~Raise
    BY DEF Raise, Ends, Continues
  <2>4. \/ proc' = [Done(proc) EXCEPT !.should = @ \ {Subject}]
        \/ \E t : proc' = [proc EXCEPT !.todo = t, !.should = @ \cup {Subject}]
    BY <1>1, <2>3 DEF Sender
  <2>5. proc'.should = proc.should \ {Subject} \/ proc'.should = proc.should \cup {Subject}
    BY <2>1, <2>2, <2>4 DEF Processes
  <2> QED BY <1>1, <2>5
<1>2. CASE ~Sender
  BY <1>2, ProcessKept DEF Continues
<1> QED BY <1>1, <1>2

\* A transaction is sent once it is sent.
LEMMA SentKept ==
  ASSUME TInv, GInv, [Next]_vars, ~ResetChain, KakarotAnswers, NEW n, n \notin Core.sent,
         ~(Send /\ Subject = n)
  PROVE  n \notin chain'.core[Kakarot].sent
<1>1. chain \in Chains /\ Kakarot \in DOMAIN chain.core /\ Core = chain.core[Kakarot]
  BY DEF TInv, KakarotAnswers, Core
<1>2. CASE UNCHANGED chain
  BY <1>1, <1>2
<1>3. CASE chain' = [chain EXCEPT !.declared = @ \cup {<<Subject, build[Subject]>>}]
  BY <1>1, <1>3 DEF Chains
<1>4. CASE \E calls \in Seq(Calls) : chain' \in Outcomes(calls)
  <2>1. Grown(chain, chain')
    BY <1>4, OutcomeType
  <2> QED BY <1>1, <2>1 DEF Grown
<1>5. CASE chain' = [chain EXCEPT !.core[Kakarot].contracts = @ \cup {NewContract}]
  <2>1. chain'.core[Kakarot] = [Core EXCEPT !.contracts = Core.contracts \cup {NewContract}]
    BY <1>5, Created
  <2>2. Core \in CoreState
    BY KakarotType
  <2>3. chain'.core[Kakarot].sent = Core.sent
    BY <2>1, <2>2 DEF CoreState
  <2> QED BY <2>3
<1>6. CASE /\ Send
           /\ \E created \in {{Subject}, {}} :
                chain' = [chain EXCEPT !.core[Kakarot].sent = @ \cup {Subject},
                                       !.core[Kakarot].created = @ \cup created]
  <2>1. Subject \in Subjects
    BY <1>6, HeadAt, HeadFacts DEF Send
  <2>2. PICK created \in {{Subject}, {}} :
          chain' = [chain EXCEPT !.core[Kakarot].sent = @ \cup {Subject},
                                 !.core[Kakarot].created = @ \cup created]
    BY <1>6
  <2>3. created \in SUBSET Subjects
    BY <2>1
  <2>4. chain'.core[Kakarot] = [Core EXCEPT !.sent = Core.sent \cup {Subject},
                                            !.created = Core.created \cup created]
    BY <2>1, <2>2, <2>3, SentType
  <2>5. Core \in CoreState
    BY KakarotType
  <2>6. chain'.core[Kakarot].sent = Core.sent \cup {Subject}
    BY <2>4, <2>5 DEF CoreState
  <2> QED BY <1>6, <2>6
<1>7. \A created : created \in {{Subject}} \cup (IF MayRevert THEN {{}} ELSE {}) => created \in {{Subject}, {}}
  OBVIOUS
<1> QED BY Zenon, <1>2, <1>3, <1>4, <1>5, <1>6, <1>7, ChainBy

\* What stands in the queue stays there until it is done.
LEMMA ExecutedAll ==
  ASSUME TInv, Fine, Sound, NEW ch \in Outcomes(proc.queue), NEW c \in Names(proc.queue)
  PROVE  Fulfilled(ch, c)
<1>1. ch = Executed(proc.queue)
  BY DEF Outcomes, Fine
<1>2. chain \in Chains /\ proc.queue \in Seq(Calls) /\ Executable(chain, proc.queue)
  BY Numbers DEF Sound
<1> QED BY <1>1, <1>2, AllExecuted

LEMMA QueuedStarknetStay ==
  ASSUME TInv, GInv, DeployStarknetContracts, NEW c \in Names(proc.queue)
  PROVE  c \in Names(proc'.queue)
<1> DEFINE q == proc.queue
<1>1. q \in Seq(Calls) /\ fresh \in Nat /\ Opened
  BY Numbers, StarknetQueue
<1>2. CASE proc'.queue = q
  BY <1>2
<1>3. ASSUME NEW d1, NEW d2, NEW e,
             proc'.queue = ((q \o d1) \o d2) \o e,
             d1 = <<>> \/ d1 = << Call("deploy", fresh + 1, "EVM") >>,
             d2 = <<>> \/ d2 = << Call("deploy", fresh + 2, "Counter") >>,
             \/ e = <<>>
             \/ /\ d1 = << Call("deploy", fresh + 1, "EVM") >>
                /\ e = << Call("set_evm_coinbase", fresh + 1, Deployer) >>
             \/ \E a \in Nat : Exists(a) /\ e = << Call("set_evm_coinbase", a, Deployer) >>
      PROVE  c \in Names(proc'.queue)
  <2>1. /\ Call("deploy", fresh + 1, "EVM") \in Calls /\ Call("deploy", fresh + 2, "Counter") \in Calls
        /\ \A a \in Nat : Call("set_evm_coinbase", a, Deployer) \in Calls
    BY <1>1, CallType DEF Classes, Deployer
  <2>2. \A b \in Calls : << b >> \in Seq(Calls)
    OBVIOUS
  <2>3. << >> \in Seq(Calls)
    OBVIOUS
  <2>4. d1 \in Seq(Calls) /\ d2 \in Seq(Calls)
    BY Zenon, <1>3, <2>1, <2>2, <2>3
  <2>5. fresh + 1 \in Nat
    BY <1>1
  <2>6. e \in Seq(Calls)
    BY Zenon, <1>3, <2>1, <2>2, <2>3, <2>5
  <2> HIDE DEF q
  <2>7. /\ q \o d1 \in Seq(Calls) /\ (q \o d1) \o d2 \in Seq(Calls)
        /\ Names((q \o d1) \o d2) = (Names(q) \cup Names(d1)) \cup Names(d2)
    BY <1>1, <2>4, NamesJoined
  <2> DEFINE u == (q \o d1) \o d2
  <2>8. u \in Seq(Calls) /\ c \in Names(u)
    BY <2>7 DEF q
  <2> HIDE DEF u
  <2>9. Names(u \o e) = Names(u) \cup Names(e)
    BY <2>6, <2>8, NamesConcat
  <2> QED BY <1>3, <2>8, <2>9 DEF u
<1> QED BY <1>2, <1>3, StarknetQueue

LEMMA QueuedKakarotStay ==
  ASSUME TInv, GInv, DeployOrUpgradeKakarot, proc' # NoProcess, Network = "dev"
  PROVE  /\ \A c \in Names(proc.queue) : c \in Names(proc'.queue)
         /\ Recorded("kakarot")'
         /\ \/ Recorded("kakarot") /\ Exists(Kakarot) /\ Kakarot' = Kakarot
            \/ Coming(Kakarot)'
<1> DEFINE q == proc.queue
           k == Kakarot'
           c1 == Call("deploy", fresh, "kakarot")
<1>1. q \in Seq(Calls) /\ fresh \in Nat /\ Opened
  BY Numbers, KakarotQueue
<1>2. PICK d : /\ proc'.queue = (q \o d) \o Configure(k) /\ k \in Nat /\ Recorded("kakarot")'
               /\ \/ d = <<>> /\ Recorded("kakarot") /\ Exists(Kakarot) /\ k = Kakarot
                  \/ d = << c1 >> /\ k = fresh
  BY KakarotQueue
<1>3. /\ Call("set_base_fee", k, 0) \in Calls /\ Call("set_coinbase", k, Deployer) \in Calls
      /\ c1 \in Calls
  BY <1>1, <1>2, CallType DEF Deployer, Classes
<1>4. Configure(k) \in Seq(Calls)
  BY <1>3 DEF Configure
<1>5. c1.op = "deploy" /\ c1.to = fresh /\ c1.arg = "kakarot"
  BY CallFields
<1> HIDE DEF q, k, c1
<1>6. << >> \in Seq(Calls) /\ << c1 >> \in Seq(Calls)
  BY <1>3
<1>7. d \in Seq(Calls)
  BY <1>2, <1>6
<1> DEFINE t == Configure(k)
<1>8. t \in Seq(Calls)
  BY <1>4
<1> HIDE DEF t
<1>9. Names((q \o d) \o t) = (Names(q) \cup Names(d)) \cup Names(t)
  BY <1>1, <1>7, <1>8, NamesJoined
<1>10. Names(proc'.queue) = (Names(q) \cup Names(d)) \cup Names(t)
  BY <1>2, <1>9 DEF t
<1>11. \/ Recorded("kakarot") /\ Exists(Kakarot) /\ Kakarot' = Kakarot
       \/ Coming(Kakarot)'
  <2>1. CASE d = << c1 >> /\ k = fresh
    <3>1. c1 \in Names(d) /\ Instantiates(c1) /\ c1.to = Kakarot'
      BY <1>5, <2>1, NamesFew DEF Instantiates, k
    <3> QED BY <1>10, <3>1 DEF Coming
  <2> QED BY <1>2, <2>1 DEF k
<1> QED BY <1>2, <1>10, <1>11 DEF q

LEMMA QueueGoes ==
  ASSUME TInv, GInv, AInv, [Next]_vars, Continues, Fine, Sound, NEW c \in Names(proc.queue)
  PROVE  c \in Names(proc'.queue) \/ Fulfilled(chain', c)
<1>1. CASE proc'.queue = proc.queue
  BY <1>1
<1>2. CASE chain' \in Outcomes(proc.queue)
  BY <1>2, ExecutedAll
<1>3. CASE DeployStarknetContracts
  BY <1>3, QueuedStarknetStay
<1>4. CASE DeployOrUpgradeKakarot
  BY <1>4, QueuedKakarotStay DEF Continues, Fine
<1>5. CASE \E b \in Calls : proc'.queue = proc.queue \o << b >>
  <2>1. PICK b \in Calls : proc'.queue = proc.queue \o << b >>
    BY <1>5
  <2>2. proc.queue \in Seq(Calls)
    BY Numbers
  <2> QED BY <2>1, <2>2, NamesMore
<1> QED BY Zenon, <1>1, <1>2, <1>3, <1>4, <1>5, QueueSteps

LEMMA Proceeds ==
  ASSUME TInv, GInv, [Next]_vars, Continues
  PROVE  UNCHANGED vars \/ CreatePool \/ Steps1
<1>1. ~UNCHANGED vars => \E kind : At(kind)
  <2>1. ~ResetChain /\ ~Idle /\ ~Crash /\ ~Finish /\ ~Build
    BY GoesOn DEF Build
  <2>2. ASSUME CreatePool
        PROVE  \E kind : At(kind)
    BY Zenon, <2>2 DEF CreatePool
  <2> QED BY Zenon, <2>1, <2>2, StepAt DEF Next, Run, Continues
<1>2. ~UNCHANGED vars => proc.todo # <<>>
  BY <1>1, HeadAt
<1> QED BY <1>2 DEF Steps1

\* The steps that a fact about Kakarot or an account outlives.
LEMMA Harmless ==
  ASSUME TInv, GInv, [Next]_vars, Continues, ~UNCHANGED vars, NEW f, f.topic \notin {"quiet", "eager"},
         Steps1 => ~Loses(Head(proc.todo), f)
  PROVE  /\ ~Declare /\ ~DumpDeclarations /\ ~DeployOrUpgradeKakarot
         /\ f.topic = "token" => ~Token
         /\ f.topic \in Personal => ~(Sender /\ Subject = f.of)
         /\ f.topic = "unsent" => ~(Send /\ Subject = f.of)
<1>1. CreatePool \/ Steps1
  BY Proceeds
<1>2. /\ Declare => Head(proc.todo).kind = "declare"
      /\ DumpDeclarations => Head(proc.todo).kind = "dump_declarations"
      /\ DeployOrUpgradeKakarot => Head(proc.todo).kind = "kakarot"
      /\ Token => Head(proc.todo).kind = "token"
      /\ Sender => Head(proc.todo).kind = "sender"
      /\ Send => Head(proc.todo).kind = "send"
  BY StepAt, HeadAt
<1>3. CASE CreatePool /\ ~Send
  <2>1. Head(proc.todo).kind \in {"deploy_evm", "eoa", "send"}
    BY <1>3, HeadAt DEF CreatePool
  <2> QED BY <1>2, <1>3, <2>1
<1>4. CASE Steps1
  <2>1. Head(proc.todo).of = Subject
    BY DEF Subject
  <2> QED BY <1>2, <1>4, <2>1 DEF Loses
<1>5. CASE CreatePool /\ Send
  <2>1. ~proc.pool /\ proc \in Processes /\ proc'.pool = TRUE /\ Subject \in proc.should
    <3>1. proc \in Processes
      BY Numbers
    <3>2. Head(proc.todo).kind = "send"
      BY <1>2, <1>5
    <3>3. Subject \in proc.should
      BY <1>5, <3>2, HeadAt DEF CreatePool
    <3> QED BY <1>5, <3>1, <3>3 DEF CreatePool, Processes
  <2>2. ~Raise
    BY DEF Raise, Ends, Continues
  <2> QED BY <1>5, <2>1, <2>2 DEF Send
<1> QED BY <1>1, <1>3, <1>4, <1>5

LEMMA StaysQuiet ==
  ASSUME TInv, GInv, [Next]_vars, Continues, NEW f, f.topic = "quiet", InForce(f),
         Steps1 => ~Loses(Head(proc.todo), f)
  PROVE  proc'.queue = <<>>
<1>1. proc.queue = <<>> /\ proc \in Processes
  BY Numbers DEF InForce
<1>2. CASE UNCHANGED vars
  BY <1>1, <1>2 DEF vars
<1>3. CASE CreatePool
  BY <1>1, <1>3 DEF CreatePool, Processes
<1>4. CASE Steps1
  <2>1. Head(proc.todo).kind \in {"declare", "dump_declarations"}
    BY <1>4 DEF Loses
  <2>2. Declare \/ DumpDeclarations
    <3>1. ~Crash
      BY GoesOn
    <3> QED BY <1>4, <2>1, <3>1, HeadTells DEF Steps1
  <2>3. proc' = Done(proc) /\ proc.todo # <<>>
    BY <1>4, <2>2 DEF Declare, DumpDeclarations, Steps1
  <2> QED BY <1>1, <2>3, DoneFields
<1> QED BY <1>2, <1>3, <1>4, Proceeds

LEMMA StaysEager ==
  ASSUME TInv, GInv, [Next]_vars, Continues, NEW f, f.topic = "eager", InForce(f),
         Steps1 => ~Loses(Head(proc.todo), f)
  PROVE  ~proc'.lazy
<1>1. ~proc.lazy
  BY DEF InForce
<1>2. CASE UNCHANGED vars
  BY <1>1, <1>2 DEF vars
<1>3. CASE ~UNCHANGED vars
  <2>1. RegisterLazyAccount => Head(proc.todo).kind = "register"
    BY StepAt, HeadAt
  <2>2. CreatePool => ~RegisterLazyAccount
    <3>1. ASSUME CreatePool
          PROVE  Head(proc.todo).kind \in {"deploy_evm", "eoa", "send"}
      BY <3>1, HeadAt DEF CreatePool
    <3> QED BY <2>1, <3>1
  <2>3. Steps1 => ~RegisterLazyAccount
    BY <2>1 DEF Loses
  <2>4. ~RegisterLazyAccount
    BY <1>3, <2>2, <2>3, Proceeds
  <2> QED BY <1>1, <2>4, LazyChanges
<1> QED BY <1>2, <1>3

\* Of the steps that neither declare classes nor deploy Kakarot.
LEMMA StaysPlain ==
  ASSUME TInv, GInv, AInv, [Next]_vars, Continues, Fine, Sound, ~DeployOrUpgradeKakarot
  PROVE  /\ Recorded("kakarot") /\ (KakarotAnswers \/ Coming(Kakarot)) =>
              (Recorded("kakarot") /\ (KakarotAnswers \/ Coming(Kakarot)))'
         /\ KakarotAnswers =>
              /\ KakarotAnswers' /\ Core' = chain'.core[Kakarot]
              /\ \A op, w : Asked(op, w) /\ op \in {"fund", "authorize"} =>
                   \/ Asked(op, w)'
                   \/ op = "fund" /\ w \in Core'.funded
                   \/ op = "authorize" /\ w \in Core'.authorized
              /\ Core.eoas \subseteq Core'.eoas /\ Core.funded \subseteq Core'.funded
              /\ Core.authorized \subseteq Core'.authorized
              /\ \A a : Exists(a) => Exists(a)'
<1>1. ~ResetChain
  BY GoesOn
<1>2. /\ Recorded("kakarot")' <=> Recorded("kakarot")
      /\ Recorded("kakarot") => Kakarot' = Kakarot
  BY KakarotStays
<1>3. ASSUME Recorded("kakarot"), KakarotAnswers \/ Coming(Kakarot)
      PROVE  (Recorded("kakarot") /\ (KakarotAnswers \/ Coming(Kakarot)))'
  <2>1. CASE KakarotAnswers
    BY <1>1, <1>2, <1>3, <2>1, AnswersStill
  <2>2. CASE Coming(Kakarot)
    <3>1. PICK c \in Names(proc.queue) : Instantiates(c) /\ c.to = Kakarot
      BY <2>2 DEF Coming
    <3>2. CASE c \in Names(proc'.queue)
      BY <1>2, <1>3, <3>1, <3>2 DEF Coming
    <3>3. CASE Fulfilled(chain', c)
      <4>1. Kakarot' \in DOMAIN chain'.core
        BY <1>2, <1>3, <3>1, <3>3 DEF Fulfilled
      <4> QED BY <1>2, <1>3, <4>1 DEF KakarotAnswers
    <3> QED BY <3>2, <3>3, QueueGoes
  <2> QED BY <1>3, <2>1, <2>2
<1>4. ASSUME KakarotAnswers
      PROVE  /\ KakarotAnswers' /\ Core' = chain'.core[Kakarot] /\ Kakarot' = Kakarot
             /\ Kept(chain, chain') /\ Kakarot \in DOMAIN chain.core /\ Core = chain.core[Kakarot]
  BY <1>1, <1>4, AnswersStill DEF Core, KakarotAnswers
<1>5. ASSUME KakarotAnswers, NEW op, NEW w, Asked(op, w), op \in {"fund", "authorize"}
      PROVE  \/ Asked(op, w)'
             \/ op = "fund" /\ w \in Core'.funded
             \/ op = "authorize" /\ w \in Core'.authorized
  <2>1. PICK c \in Names(proc.queue) : c.op = op /\ c.to = Kakarot /\ c.arg = w
    BY <1>5 DEF Asked
  <2>2. CASE c \in Names(proc'.queue)
    BY <1>4, <1>5, <2>1, <2>2 DEF Asked
  <2>3. CASE Fulfilled(chain', c)
    BY <1>4, <1>5, <2>1, <2>3 DEF Fulfilled
  <2> QED BY <2>2, <2>3, QueueGoes
<1>6. ASSUME KakarotAnswers
      PROVE  /\ Core.eoas \subseteq Core'.eoas /\ Core.funded \subseteq Core'.funded
             /\ Core.authorized \subseteq Core'.authorized
             /\ \A a : Exists(a) => Exists(a)'
  BY <1>4, <1>6 DEF Kept, Exists
<1> QED BY <1>3, <1>4, <1>5, <1>6

\* A fact that a step does not undo stays in force.
LEMMA Stays ==
  ASSUME TInv, GInv, AInv, [Next]_vars, Continues, Fine => Sound, NEW f, InForce(f),
         Steps1 => ~Loses(Head(proc.todo), f)
  PROVE  InForce(f)'
<1>1. CASE UNCHANGED vars
  <2>1. /\ proc' = proc /\ chain' = chain /\ files' = files /\ world' = world
    BY <1>1 DEF vars
  <2>2. /\ Fine' = Fine /\ Recorded("kakarot")' = Recorded("kakarot") /\ KakarotAnswers' = KakarotAnswers
        /\ Core' = Core /\ Kakarot' = Kakarot
    BY <2>1 DEF Fine, MayRevert, Network, ClassesDeclared, Recorded, KakarotAnswers, Core, Kakarot
  <2>3. /\ Coming(Kakarot)' <=> Coming(Kakarot)
        /\ Exists(proc.token)' <=> Exists(proc.token)
        /\ Wanted(f.of)' <=> Wanted(f.of)
        /\ Asked("fund", f.of)' <=> Asked("fund", f.of)
        /\ Asked("authorize", f.of)' <=> Asked("authorize", f.of)
    BY <2>1, <2>2 DEF Coming, Exists, Wanted, Asked
  <2> QED BY <2>1, <2>2, <2>3 DEF InForce
<1>2. CASE ~UNCHANGED vars
  <2>1. /\ f.topic = "quiet" => proc'.queue = <<>>
        /\ f.topic = "eager" => ~proc'.lazy
    BY StaysQuiet, StaysEager
  <2>2. CASE f.topic \in {"quiet", "eager"} \/ ~Fine'
    BY <2>1, <2>2 DEF InForce
  <2>3. CASE f.topic \notin {"quiet", "eager"} /\ Fine'
    <3>1. /\ ~Declare /\ ~DumpDeclarations /\ ~DeployOrUpgradeKakarot
          /\ f.topic = "token" => ~Token
          /\ f.topic \in Personal => ~(Sender /\ Subject = f.of)
          /\ f.topic = "unsent" => ~(Send /\ Subject = f.of)
      BY <1>2, <2>3, Harmless
    <3>2. Fine /\ Sound /\ ~ResetChain
      BY <2>3, <3>1, FineStays, GoesOn
    <3>3. f.topic = "coming" => (Recorded("kakarot") /\ (KakarotAnswers \/ Coming(Kakarot)))'
      <4>1. f.topic = "coming" => Recorded("kakarot") /\ (KakarotAnswers \/ Coming(Kakarot))
        BY <3>2 DEF InForce
      <4> QED BY <3>1, <3>2, <4>1, StaysPlain
    <3>4. CASE f.topic = "coming"
      BY <3>3, <3>4 DEF InForce
    <3>5. CASE f.topic # "coming"
      <4>1. KakarotAnswers
        BY <2>3, <3>2, <3>5 DEF InForce
      <4>2. /\ KakarotAnswers' /\ Core' = chain'.core[Kakarot]
            /\ Core.eoas \subseteq Core'.eoas /\ Core.funded \subseteq Core'.funded
            /\ Core.authorized \subseteq Core'.authorized
            /\ \A a : Exists(a) => Exists(a)'
        BY <3>1, <3>2, <4>1, StaysPlain
      <4>3. \A op, w : Asked(op, w) /\ op \in {"fund", "authorize"} =>
                   \/ Asked(op, w)'
                   \/ op = "fund" /\ w \in Core'.funded
                   \/ op = "authorize" /\ w \in Core'.authorized
        BY <3>1, <3>2, <4>1, StaysPlain
      <4>4. f.topic = "token" => Exists(proc.token)'
        <5>1. f.topic = "token" => proc'.token = proc.token /\ Exists(proc.token)
          BY <3>1, <3>2, TokenKept DEF InForce
        <5> QED BY <4>2, <5>1 DEF Exists
      <4>5. f.topic \in Personal => (Wanted(f.of)' => Wanted(f.of))
        BY <3>1, ShouldKept DEF Wanted
      <4>6. ASSUME f.topic = "unsent", Wanted(f.of)'
            PROVE  f.of \notin Core'.sent
        <5>1. f.of \notin Core.sent
          BY <3>2, <4>5, <4>6 DEF InForce, Personal
        <5> QED BY <3>1, <3>2, <4>1, <4>2, <4>6, <5>1, SentKept
      <4>7. ASSUME f.topic \in Personal, Wanted(f.of)'
            PROVE  /\ f.topic = "eoa" => f.of \in Core'.eoas
                   /\ f.topic = "paid" => f.of \in Core'.funded \/ Asked("fund", f.of)'
                   /\ f.topic = "funded" => f.of \in Core'.funded
                   /\ f.topic = "listed" => f.of \in Core'.authorized \/ Asked("authorize", f.of)'
                   /\ f.topic = "authorized" => f.of \in Core'.authorized
        <5>1. /\ f.topic = "eoa" => f.of \in Core.eoas
              /\ f.topic = "paid" => f.of \in Core.funded \/ Asked("fund", f.of)
              /\ f.topic = "funded" => f.of \in Core.funded
              /\ f.topic = "listed" => f.of \in Core.authorized \/ Asked("authorize", f.of)
              /\ f.topic = "authorized" => f.of \in Core.authorized
          BY <3>2, <4>5, <4>7 DEF InForce
        <5>2. f.topic = "paid" => f.of \in Core'.funded \/ Asked("fund", f.of)'
          BY <4>2, <4>3, <5>1
        <5>3. f.topic = "listed" => f.of \in Core'.authorized \/ Asked("authorize", f.of)'
          BY <4>2, <4>3, <5>1
        <5> QED BY <4>2, <5>1, <5>2, <5>3
      <4>8. ASSUME Wanted(f.of)'
            PROVE  /\ f.topic = "eoa" => f.of \in Core'.eoas
                   /\ f.topic = "paid" => f.of \in Core'.funded \/ Asked("fund", f.of)'
                   /\ f.topic = "funded" => f.of \in Core'.funded
                   /\ f.topic = "listed" => f.of \in Core'.authorized \/ Asked("authorize", f.of)'
                   /\ f.topic = "authorized" => f.of \in Core'.authorized
                   /\ f.topic = "unsent" => f.of \notin Core'.sent
        BY <4>6, <4>7, <4>8 DEF Personal
      <4> QED BY <2>3, <3>5, <4>2, <4>4, <4>8 DEF InForce
    <3> QED BY <3>4, <3>5
  <2> QED BY <2>2, <2>3
<1> QED BY <1>1, <1>2

-----------------------------------------------------------------------------
(***************************************************************************)
(* The facts that a step brings about.                                      *)
(***************************************************************************)
LEMMA FineBefore ==
  ASSUME TInv, GInv, [Next]_vars, Steps1, Fine',
         Head(proc.todo).kind \notin {"declare", "dump_declarations"}
  PROVE  Fine /\ ~ResetChain
<1>1. /\ Declare => Head(proc.todo).kind = "declare"
      /\ DumpDeclarations => Head(proc.todo).kind = "dump_declarations"
  BY StepAt, HeadAt
<1>2. Continues
  BY DEF Steps1
<1> QED BY <1>1, <1>2, FineStays, GoesOn

\* A call that is sent at once.
LEMMA SentAtOnce ==
  ASSUME TInv, ~MayRevert, NEW c \in Calls, Accepts(chain, c), chain' \in Outcomes(<< c >>)
  PROVE  /\ Fulfilled(chain', c)
         /\ c.op = "deploy" => c.to \in DOMAIN chain'.code
         /\ c.op = "deploy_eoa" => c.to \in DOMAIN chain'.core /\ c.arg \in chain'.core[c.to].eoas
<1> DEFINE e == Effect(chain, c)
<1>1. chain \in Chains
  BY Numbers
<1>2. chain' = e
  BY <1>1, OneExecuted DEF Outcomes
<1>3. /\ DOMAIN e.code = DOMAIN chain.code \cup (IF c.op = "deploy" THEN {c.to} ELSE {})
      /\ DOMAIN e.core = DOMAIN chain.core \cup (IF Instantiates(c) THEN {c.to} ELSE {})
      /\ \A k \in DOMAIN chain.core : Served(chain.core[k], e.core[k], k, c)
  BY <1>1, EffectFields
<1> HIDE DEF e
<1>4. c.op \in {"fund", "authorize", "deploy_eoa"} => c.to \in DOMAIN chain.core
  BY DEF Accepts
<1>5. /\ c.op = "fund" => c.arg \in e.core[c.to].funded
      /\ c.op = "authorize" => c.arg \in e.core[c.to].authorized
      /\ c.op = "deploy_eoa" => c.arg \in e.core[c.to].eoas
  BY <1>3, <1>4 DEF Served
<1>6. Fulfilled(e, c)
  BY <1>3, <1>4, <1>5 DEF Fulfilled
<1> QED BY <1>2, <1>3, <1>4, <1>5, <1>6

\* check_deployed, remove and kakarot.
LEMMA BringsDeployed ==
  ASSUME TInv, GInv, AInv, [Next]_vars, Steps1, Head(proc.todo).kind = "check_deployed"
  PROVE  KakarotAnswers'
<1>1. CheckDeployed /\ proc' # NoProcess
  BY HeadTells, GoesOn DEF Steps1, Continues
<1>2. Recorded("kakarot") /\ Exists(Kakarot) /\ UNCHANGED <<chain, files>>
  BY <1>1 DEF CheckDeployed, ExitUnless, Ends
<1>3. KakarotAnswers
  BY <1>2 DEF AInv
<1> QED BY <1>2, <1>3 DEF KakarotAnswers, Recorded, Kakarot

LEMMA BringsEager ==
  ASSUME TInv, GInv, [Next]_vars, Steps1, Head(proc.todo).kind = "remove"
  PROVE  ~proc'.lazy
<1>1. RemoveLazyAccount /\ Continues
  BY HeadTells, GoesOn DEF Steps1
<1> QED BY <1>1, LazyChanges

LEMMA BringsComing ==
  ASSUME TInv, GInv, AInv, [Next]_vars, Steps1, Head(proc.todo).kind = "kakarot", Fine'
  PROVE  (Recorded("kakarot") /\ (KakarotAnswers \/ Coming(Kakarot)))'
<1>1. DeployOrUpgradeKakarot /\ proc' # NoProcess
  BY HeadTells, GoesOn DEF Steps1, Continues
<1>2. Network = "dev"
  BY FineBefore DEF Fine
<1>3. /\ Recorded("kakarot")'
      /\ \/ Recorded("kakarot") /\ Exists(Kakarot) /\ Kakarot' = Kakarot
         \/ Coming(Kakarot)'
  BY <1>1, <1>2, QueuedKakarotStay
<1>4. CASE Recorded("kakarot") /\ Exists(Kakarot) /\ Kakarot' = Kakarot
  <2>1. KakarotAnswers /\ UNCHANGED chain
    BY <1>1, <1>4 DEF AInv, DeployOrUpgradeKakarot
  <2> QED BY <1>3, <1>4, <2>1 DEF KakarotAnswers
<1> QED BY <1>3, <1>4

\* execute_calls.
LEMMA ExecuteBrings ==
  ASSUME TInv, GInv, AInv, [Next]_vars, Steps1, Head(proc.todo).kind = "execute", Fine', Fine => Sound
  PROVE  /\ InForce(That("coming")) => KakarotAnswers'
         /\ \A w : InForce(Fact("paid", w)) =>
              KakarotAnswers' /\ (Wanted(w)' => w \in Core'.funded)
         /\ \A w : InForce(Fact("listed", w)) =>
              KakarotAnswers' /\ (Wanted(w)' => w \in Core'.authorized)
<1>1. Fine /\ Sound /\ Execute /\ Continues /\ proc.todo # <<>>
  BY FineBefore, HeadTells, GoesOn DEF Steps1
<1>2. ~DeployOrUpgradeKakarot /\ ~Sender
  <2>1. (DeployOrUpgradeKakarot => Head(proc.todo).kind = "kakarot") /\ (Sender => Head(proc.todo).kind = "sender")
    BY StepAt, HeadAt
  <2> QED BY <2>1
<1>3. proc'.queue = <<>>
  <2>1. Done(proc) \in Processes
    BY <1>1, DoneFields
  <2> QED BY <1>1, <2>1 DEF Execute, Processes
<1>4. (\A k : ~Coming(k)') /\ (\A op, w : ~Asked(op, w)')
  <2>1. Names(proc'.queue) = {}
    BY <1>3, NamesFew
  <2> QED BY <2>1 DEF Coming, Asked
<1>5. InForce(That("coming")) => KakarotAnswers'
  <2>1. InForce(That("coming")) => Recorded("kakarot") /\ (KakarotAnswers \/ Coming(Kakarot))
    BY <1>1, FactFields DEF InForce
  <2> QED BY <1>1, <1>2, <1>4, <2>1, StaysPlain
<1>6. \A w : Wanted(w)' => Wanted(w)
  BY <1>1, <1>2, ShouldKept DEF Wanted
<1>7. KakarotAnswers =>
        /\ KakarotAnswers'
        /\ \A op, w : Asked(op, w) /\ op \in {"fund", "authorize"} =>
             \/ op = "fund" /\ w \in Core'.funded
             \/ op = "authorize" /\ w \in Core'.authorized
        /\ Core.funded \subseteq Core'.funded /\ Core.authorized \subseteq Core'.authorized
  BY <1>1, <1>2, <1>4, StaysPlain
<1>8. ASSUME NEW w, InForce(Fact("paid", w))
      PROVE  KakarotAnswers' /\ (Wanted(w)' => w \in Core'.funded)
  <2>1. KakarotAnswers /\ (Wanted(w) => w \in Core.funded \/ Asked("fund", w))
    BY <1>1, <1>8, FactFields DEF InForce
  <2> QED BY <1>6, <1>7, <2>1
<1>9. ASSUME NEW w, InForce(Fact("listed", w))
      PROVE  KakarotAnswers' /\ (Wanted(w)' => w \in Core'.authorized)
  <2>1. KakarotAnswers /\ (Wanted(w) => w \in Core.authorized \/ Asked("authorize", w))
    BY <1>1, <1>9, FactFields DEF InForce
  <2> QED BY <1>6, <1>7, <2>1
<1> QED BY <1>5, <1>8, <1>9

\* A call that is added to the queue.
LEMMA SentLater ==
  ASSUME TInv, NEW c \in Calls, Sends(c), proc.lazy, Kakarot' = Kakarot, c.to = Kakarot
  PROVE  Asked(c.op, c.arg)'
<1>1. proc'.queue = proc.queue \o << c >> /\ proc.queue \in Seq(Calls)
  BY Numbers DEF Sends
<1>2. c \in Names(proc'.queue)
  BY <1>1, NamesMore
<1> QED BY <1>2 DEF Asked

LEMMA FundBrings ==
  ASSUME TInv, GInv, AInv, [Next]_vars, Steps1, Head(proc.todo).kind = "fund", Fine', Fine => Sound,
         NEW w, w = Subject
  PROVE  /\ KakarotAnswers'
         /\ w \in Core'.funded \/ Asked("fund", w)'
         /\ ~proc.lazy => w \in Core'.funded
<1>1. Fine /\ Sound /\ FundStep /\ Continues /\ ~ResetChain /\ proc' # NoProcess
  BY FineBefore, HeadTells, GoesOn DEF Steps1, Continues
<1>2. ~DeployOrUpgradeKakarot
  BY StepAt, HeadAt
<1>3. KakarotAnswers
  BY <1>1, FundSends
<1>4. PICK c : /\ c.op = "fund" /\ c.to = Kakarot /\ c.arg = w
               /\ (w \in Core.funded /\ Rests) \/ (c \in Calls /\ Sends(c))
  <2> DEFINE d == Call("fund", Kakarot, Subject)
  <2>1. d.op = "fund" /\ d.to = Kakarot /\ d.arg = w
    BY CallFields
  <2>2. (w \in Core.funded /\ Rests) \/ (d \in Calls /\ Sends(d))
    BY <1>1, FundSends
  <2> HIDE DEF d
  <2> QED BY <2>1, <2>2
<1>5. KakarotAnswers' /\ Kakarot' = Kakarot /\ Core' = chain'.core[Kakarot]
  BY <1>1, <1>2, <1>3, AnswersStill DEF Core
<1>6. CASE w \in Core.funded
  <2>1. Core.funded \subseteq Core'.funded
    BY <1>1, <1>2, <1>3, StaysPlain
  <2> QED BY <1>5, <1>6, <2>1
<1>7. CASE c \in Calls /\ Sends(c) /\ proc.lazy
  <2>1. Asked(c.op, c.arg)'
    BY <1>4, <1>5, <1>7, SentLater
  <2> QED BY <1>4, <1>5, <1>7, <2>1
<1>8. CASE c \in Calls /\ Sends(c) /\ ~proc.lazy
  <2>1. chain' \in Outcomes(<< c >>) /\ Accepts(chain, c)
    BY <1>3, <1>4, <1>8 DEF Sends, Accepts, KakarotAnswers
  <2>2. Fulfilled(chain', c)
    BY <1>1, <1>8, <2>1, SentAtOnce DEF Fine
  <2> QED BY <1>4, <1>5, <2>2 DEF Fulfilled
<1> QED BY <1>4, <1>5, <1>6, <1>7, <1>8

LEMMA EoaBrings ==
  ASSUME TInv, GInv, AInv, [Next]_vars, Steps1, Head(proc.todo).kind = "eoa", Fine', Fine => Sound,
         KakarotAnswers
  PROVE  KakarotAnswers' /\ Subject \in Core'.eoas
<1> DEFINE c == Call("deploy_eoa", Kakarot, Subject)
<1>1. Fine /\ Sound /\ DeployEoa /\ Continues /\ ~ResetChain /\ proc' # NoProcess /\ proc.todo # <<>>
  BY FineBefore, HeadTells, GoesOn DEF Steps1, Continues
<1>2. ~DeployOrUpgradeKakarot
  BY StepAt, HeadAt
<1>3. KakarotAnswers' /\ Kakarot' = Kakarot /\ Core' = chain'.core[Kakarot]
  BY <1>1, <1>2, AnswersStill DEF Core
<1>4. Subject \in Core.eoas \/ chain' \in Outcomes(<< c >>)
  BY <1>1 DEF DeployEoa
<1>5. c \in Calls
  BY <1>1, HeadFacts, KakarotType, CallType
<1>6. c.op = "deploy_eoa" /\ c.to = Kakarot /\ c.arg = Subject
  BY CallFields
<1> HIDE DEF c
<1>7. CASE Subject \in Core.eoas
  <2>1. Core.eoas \subseteq Core'.eoas
    BY <1>1, <1>2, StaysPlain
  <2> QED BY <1>3, <1>7, <2>1
<1>8. CASE chain' \in Outcomes(<< c >>)
  <2>1. Accepts(chain, c)
    BY <1>6 DEF Accepts, KakarotAnswers
  <2>2. Kakarot \in DOMAIN chain'.core /\ Subject \in chain'.core[Kakarot].eoas
    BY <1>1, <1>5, <1>6, <1>8, <2>1, SentAtOnce DEF Fine
  <2> QED BY <1>3, <2>2
<1> QED BY <1>4, <1>7, <1>8

LEMMA WhitelistBrings ==
  ASSUME TInv, GInv, AInv, [Next]_vars, Steps1, Head(proc.todo).kind = "whitelist", Fine', Fine => Sound,
         NEW w, w = Subject, InForce(Fact("eoa", w))
  PROVE  KakarotAnswers' /\ (Wanted(w)' => w \in Core'.authorized \/ Asked("authorize", w)')
<1>1. Fine /\ Sound /\ WhitelistStep /\ Continues /\ ~ResetChain /\ proc' # NoProcess /\ proc.todo # <<>>
  BY FineBefore, HeadTells, GoesOn DEF Steps1, Continues
<1>2. ~DeployOrUpgradeKakarot /\ ~Sender
  BY StepAt, HeadAt
<1>3. KakarotAnswers /\ (Wanted(w) => w \in Core.eoas)
  BY <1>1, FactTells
<1>4. KakarotAnswers' /\ Kakarot' = Kakarot /\ Core' = chain'.core[Kakarot]
  BY <1>1, <1>2, <1>3, AnswersStill DEF Core
<1>5. PICK c : /\ c.op = "authorize" /\ c.to = Kakarot /\ c.arg = w
               /\ IF w \in proc.should THEN c \in Calls /\ Sends(c) ELSE Rests
  BY <1>1, WhitelistSends, CallFields
<1>6. w \in Names(PreEip155)
  <2>1. Head(proc.todo) \in Steps
    BY <1>1, HeadFacts
  <2> QED BY <2>1 DEF Steps, Subject
<1>7. CASE w \notin proc.should
  <2>1. w \notin proc'.should
    BY <1>1, <1>2, <1>7, ShouldKept
  <2> QED BY <1>4, <1>6, <2>1 DEF Wanted
<1>8. CASE w \in proc.should /\ proc.lazy
  <2>1. Asked(c.op, c.arg)'
    BY <1>4, <1>5, <1>8, SentLater
  <2> QED BY <1>4, <1>5, <2>1
<1>9. CASE w \in proc.should /\ ~proc.lazy
  <2>1. chain' \in Outcomes(<< c >>) /\ Accepts(chain, c)
    <3>1. w \in chain.core[Kakarot].eoas /\ Kakarot \in DOMAIN chain.core
      BY <1>3, <1>9 DEF Wanted, Core, KakarotAnswers
    <3> QED BY <1>5, <1>9, <3>1 DEF Sends, Accepts
  <2>2. Fulfilled(chain', c)
    BY <1>1, <1>5, <1>9, <2>1, SentAtOnce DEF Fine
  <2> QED BY <1>4, <1>5, <2>2 DEF Fulfilled
<1> QED BY <1>7, <1>8, <1>9

LEMMA FrontIsLonger ==
  ASSUME NEW t \in Seq(Steps), NEW u \in Seq(Steps), t # <<>>
  PROVE  t \o u # u
<1>1. Len(t) \in Nat /\ Len(t) > 0 /\ Len(u) \in Nat /\ Len(t \o u) = Len(t) + Len(u)
  OBVIOUS
<1> QED BY <1>1

\* deploy_pre_eip155_sender, when the transaction was sent and when it was not.
LEMMA SenderChooses ==
  ASSUME TInv, GInv, [Next]_vars, Steps1, Head(proc.todo).kind = "sender", KakarotAnswers,
         NEW w, w = Subject
  PROVE  /\ KakarotAnswers' /\ UNCHANGED <<chain, files>>
         /\ \/ /\ proc'.todo = Tail(proc.todo)
               /\ w \in Names(PreEip155) /\ w \notin proc'.should
            \/ /\ \E t \in Seq(Steps) : t # <<>> /\ proc'.todo = t \o Tail(proc.todo)
               /\ w \notin Core.sent
<1>1. Sender /\ proc \in Processes /\ proc.todo # <<>> /\ w \in Subjects /\ Head(proc.todo) \in Steps
  BY HeadTells, GoesOn, HeadFacts DEF Steps1
<1>2. UNCHANGED <<chain, files>>
  BY <1>1 DEF Sender, Raise
<1>3. KakarotAnswers'
  BY <1>2 DEF KakarotAnswers, Recorded, Kakarot
<1>4. w \in Names(PreEip155)
  BY <1>1 DEF Steps, Subject
<1>5. CASE w \in Core.sent
  <2>1. proc' = [Done(proc) EXCEPT !.should = proc.should \ {w}]
    BY <1>1, <1>5, DoneFields DEF Sender
  <2>2. Done(proc) \in Processes /\ Done(proc).todo = Tail(proc.todo)
    BY <1>1, DoneFields
  <2>3. proc'.todo = Tail(proc.todo) /\ proc'.should = proc.should \ {w}
    BY <2>1, <2>2 DEF Processes
  <2> QED BY <1>2, <1>3, <1>4, <2>3
<1>6. CASE w \notin Core.sent
  <2> DEFINE t == DeployAndFund(w)
  <2>1. Step("fund", w) \in Steps /\ Step("eoa", w) \in Steps
    BY <1>1, StepType DEF Plain, Kinds
  <2>2. t \in Seq(Steps) /\ t # <<>>
    BY <2>1 DEF DeployAndFund
  <2>3. proc' = [proc EXCEPT !.todo = DeployAndFund(w) \o Tail(proc.todo), !.should = proc.should \cup {w}]
    BY <1>1, <1>6 DEF Sender
  <2> HIDE DEF t
  <2>4. proc'.todo = DeployAndFund(w) \o Tail(proc.todo)
    BY <1>1, <2>3 DEF Processes
  <2> QED BY <1>2, <1>3, <1>6, <2>2, <2>4 DEF t
<1> QED BY <1>5, <1>6

LEMMA SenderBrings ==
  ASSUME TInv, GInv, [Next]_vars, Steps1, Head(proc.todo).kind = "sender", KakarotAnswers,
         proc'.todo = Tail(proc.todo), NEW w, w = Subject
  PROVE  KakarotAnswers' /\ ~(Wanted(w)')
<1>1. Tail(proc.todo) \in Seq(Steps)
  BY HeadFacts DEF Steps1
<1>2. KakarotAnswers' /\ w \in Names(PreEip155) /\ w \notin proc'.should
  BY <1>1, SenderChooses, FrontIsLonger
<1> QED BY <1>2 DEF Wanted

LEMMA SenderInserts ==
  ASSUME TInv, GInv, [Next]_vars, Steps1, Head(proc.todo).kind = "sender", KakarotAnswers,
         NEW t \in Seq(Steps), t # <<>>, proc'.todo = t \o Tail(proc.todo), NEW w, w = Subject
  PROVE  KakarotAnswers' /\ w \notin Core'.sent
<1>1. Tail(proc.todo) \in Seq(Steps)
  BY HeadFacts DEF Steps1
<1>2. KakarotAnswers' /\ w \notin Core.sent /\ UNCHANGED <<chain, files>>
  BY <1>1, SenderChooses, FrontIsLonger
<1>3. Core' = Core
  BY <1>2 DEF Core, Kakarot
<1> QED BY <1>2, <1>3

\* The token that the next steps check.
LEMMA TokenInserts ==
  ASSUME TInv, GInv, AInv, [Next]_vars, Steps1, Head(proc.todo).kind = "token", Fine', ~proc.lazy,
         NEW t \in Seq(Steps), t # <<>>, proc'.todo = t \o Tail(proc.todo)
  PROVE  KakarotAnswers' /\ Exists(proc.token)'
<1> DEFINE c == Call("deploy", fresh, "StarknetToken")
<1>1. Fine /\ ~ResetChain /\ Token /\ proc' # NoProcess /\ proc.todo # <<>> /\ Tail(proc.todo) \in Seq(Steps)
  BY FineBefore, HeadTells, GoesOn, HeadFacts DEF Steps1, Continues
<1>2. proc' # Done(proc)
  BY <1>1, DoneFields, FrontIsLonger
<1>3. KakarotAnswers /\ c \in Calls /\ Sends(c) /\ proc'.token = fresh
  BY <1>1, <1>2, TokenSends DEF Fine
<1>4. c.op = "deploy" /\ c.to = fresh /\ c.arg = "StarknetToken" /\ c.class = files.declared
  BY CallFields DEF Call
<1> HIDE DEF c
<1>5. c.to \notin DOMAIN chain.code
  BY <1>4, Numbers DEF AInv
<1>6. <<c.arg, c.class[c.arg]>> \in chain.declared
  <2>1. Opened
    BY <1>1, HeadFacts DEF Preliminary
  <2>2. DOMAIN files.declared = Classes
    BY <2>1 DEF Opened, Versions
  <2>3. "StarknetToken" \in DOMAIN files.declared
    BY <2>2 DEF Classes
  <2> QED BY <1>1, <1>4, <2>3 DEF Fine, ClassesDeclared
<1>7. chain' \in Outcomes(<< c >>) /\ Accepts(chain, c)
  BY <1>3, <1>4, <1>5, <1>6 DEF Sends, Accepts
<1>8. c.to \in DOMAIN chain'.code
  BY <1>1, <1>3, <1>4, <1>7, SentAtOnce DEF Fine
<1>9. ~DeployOrUpgradeKakarot
  BY StepAt, HeadAt
<1>10. KakarotAnswers'
  BY <1>1, <1>3, <1>9, AnswersStill
<1> QED BY <1>3, <1>4, <1>8, <1>10 DEF Exists

LEMMA Brought ==
  ASSUME TInv, GInv, AInv, [Next]_vars, Steps1, Fine => Sound, proc'.todo = Tail(proc.todo),
         NEW a, Ready(Head(proc.todo), a), \A f \in a : InForce(f),
         NEW f, Brings(Head(proc.todo), a, f)
  PROVE  InForce(f)'
<1> DEFINE x == Head(proc.todo)
<1>1. x.of = Subject
  BY DEF Subject
<1> HIDE DEF x
<1>2. CASE x.kind = "check_deployed" /\ f.topic = "there"
  <2>1. KakarotAnswers'
    BY <1>2, BringsDeployed DEF x
  <2> QED BY <1>2, <2>1 DEF InForce
<1>3. CASE x.kind = "remove" /\ f.topic = "eager"
  <2>1. ~proc'.lazy
    BY <1>3, BringsEager DEF x
  <2> QED BY <1>3, <2>1 DEF InForce
<1>4. CASE x.kind = "kakarot" /\ f.topic = "coming"
  <2>1. Fine' => (Recorded("kakarot") /\ (KakarotAnswers \/ Coming(Kakarot)))'
    BY <1>4, BringsComing DEF x
  <2> QED BY <1>4, <2>1 DEF InForce
<1>5. CASE x.kind = "execute" /\ f.topic = "there" /\ That("coming") \in a
  <2>1. InForce(That("coming"))
    BY <1>5
  <2>2. Fine' => KakarotAnswers'
    BY <1>5, <2>1, ExecuteBrings DEF x
  <2> QED BY <1>5, <2>2 DEF InForce
<1>6. CASE x.kind = "execute" /\ f.topic = "funded" /\ Fact("paid", f.of) \in a
  <2>1. InForce(Fact("paid", f.of))
    BY <1>6
  <2>2. Fine' => KakarotAnswers' /\ (Wanted(f.of)' => f.of \in Core'.funded)
    BY <1>6, <2>1, ExecuteBrings DEF x
  <2> QED BY <1>6, <2>2 DEF InForce
<1>7. CASE x.kind = "execute" /\ f.topic = "authorized" /\ Fact("listed", f.of) \in a
  <2>1. InForce(Fact("listed", f.of))
    BY <1>7
  <2>2. Fine' => KakarotAnswers' /\ (Wanted(f.of)' => f.of \in Core'.authorized)
    BY <1>7, <2>1, ExecuteBrings DEF x
  <2> QED BY <1>7, <2>2 DEF InForce
<1>8. CASE x.kind = "fund" /\ f.of = x.of /\ (f.topic = "paid" \/ (f.topic = "funded" /\ That("eager") \in a))
  <2>1. That("eager") \in a => ~proc.lazy
    BY ThatTells
  <2>2. Fine' => /\ KakarotAnswers'
                 /\ f.of \in Core'.funded \/ Asked("fund", f.of)'
                 /\ ~proc.lazy => f.of \in Core'.funded
    BY <1>1, <1>8, FundBrings DEF x
  <2> QED BY <1>8, <2>1, <2>2 DEF InForce
<1>9. CASE x.kind = "eoa" /\ f.of = x.of /\ f.topic = "eoa"
  <2>1. That("there") \in a
    BY <1>9 DEF Ready, x
  <2>2. Fine => KakarotAnswers
    BY <2>1, ThatTells
  <2>3. Fine' => Fine
    BY <1>9, FineBefore DEF x
  <2>4. Fine' => KakarotAnswers' /\ f.of \in Core'.eoas
    BY <1>1, <1>9, <2>2, <2>3, EoaBrings DEF x
  <2> QED BY <1>9, <2>4 DEF InForce
<1>10. CASE x.kind = "sender" /\ f \in About({"unsent", "paid", "eoa"}, {x.of})
  <2>1. That("there") \in a
    BY <1>10 DEF Ready, x
  <2>2. Fine => KakarotAnswers
    BY <2>1, ThatTells
  <2>3. Fine' => Fine
    BY <1>10, FineBefore DEF x
  <2>4. f.topic \in {"unsent", "paid", "eoa"} /\ f.of = Subject
    BY <1>1, <1>10 DEF About
  <2>5. Fine' => KakarotAnswers' /\ ~(Wanted(f.of)')
    BY <1>10, <2>2, <2>3, <2>4, SenderBrings DEF x
  <2> QED BY <2>4, <2>5 DEF InForce
<1>11. CASE x.kind = "whitelist" /\ f.of = x.of /\ f.topic = "listed"
  <2>1. Fact("eoa", f.of) \in a
    BY <1>11 DEF Ready, x
  <2>2. InForce(Fact("eoa", f.of))
    BY <2>1
  <2>3. Fine' => KakarotAnswers' /\ (Wanted(f.of)' => f.of \in Core'.authorized \/ Asked("authorize", f.of)')
    BY <1>1, <1>11, <2>2, WhitelistBrings DEF x
  <2> QED BY <1>11, <2>3 DEF InForce
<1> QED BY <1>2, <1>3, <1>4, <1>5, <1>6, <1>7, <1>8, <1>9, <1>10, <1>11 DEF Brings, x

\* What is in force when steps are put in the place of one.
LEMMA Left ==
  ASSUME TInv, GInv, AInv, [Next]_vars, Steps1, Fine => Sound,
         NEW t \in Seq(Steps), t # <<>>, proc'.todo = t \o Tail(proc.todo),
         NEW a, Ready(Head(proc.todo), a), \A f \in a : InForce(f),
         NEW x, x = Head(proc.todo), NEW f \in Remains(x, a)
  PROVE  InForce(f)'
<1>1. CASE f \in a /\ ~Loses(x, f)
  BY <1>1, Stays DEF Steps1
<1>2. CASE x.kind = "token" /\ f = That("token")
  <2>1. That("eager") \in a
    BY <1>2 DEF Ready
  <2>2. ~proc.lazy
    BY <2>1, ThatTells
  <2>3. Fine' => KakarotAnswers' /\ Exists(proc.token)'
    BY <1>2, <2>2, TokenInserts
  <2>4. f.topic = "token"
    BY <1>2, FactFields
  <2> QED BY <2>3, <2>4 DEF InForce
<1>3. CASE x.kind = "sender" /\ f = Fact("unsent", x.of)
  <2>1. That("there") \in a
    BY <1>3 DEF Ready
  <2>2. Fine => KakarotAnswers
    BY <2>1, ThatTells
  <2>3. Fine' => Fine
    BY <1>3, FineBefore
  <2>4. f.topic = "unsent" /\ f.of = Subject
    BY <1>3, FactFields DEF Subject
  <2>5. Fine' => KakarotAnswers' /\ f.of \notin Core'.sent
    BY <1>3, <2>2, <2>3, <2>4, SenderInserts
  <2> QED BY <2>4, <2>5 DEF InForce
<1> QED BY <1>1, <1>2, <1>3 DEF Remains

-----------------------------------------------------------------------------
(***************************************************************************)
(* The steps that are left may be done from where the process stands.       *)
(***************************************************************************)
RInv ==
  /\ \E a : (\A f \in a : InForce(f)) /\ Carried(proc.todo, a, {})
  /\ Fine => Sound

LEMMA IsHeeded ==
  ASSUME TInv, GInv, RInv, proc.todo # <<>>
  PROVE  Heeded
<1>1. PICK a : (\A f \in a : InForce(f)) /\ Carried(proc.todo, a, {})
  BY DEF RInv
<1>2. Head(proc.todo) = proc.todo[1]
  BY HeadFacts
<1>3. Ready(proc.todo[1], a)
  BY <1>1, CarriedHead
<1> QED BY <1>1, <1>2, <1>3 DEF Heeded

\* What is carried along with a step.
LEMMA StepCarried ==
  ASSUME TInv, GInv, AInv, RInv, [Next]_vars, Steps1
  PROVE  \E a : (\A f \in a : InForce(f)') /\ Carried(proc'.todo, a, {})
<1> DEFINE x == Head(proc.todo)
<1>1. PICK a : (\A f \in a : InForce(f)) /\ Carried(proc.todo, a, {})
  BY DEF RInv
<1>2. /\ Continues /\ proc.todo # <<>> /\ x = proc.todo[1] /\ x \in Steps /\ Tail(proc.todo) \in Seq(Steps)
      /\ ~CreatePool /\ ~UNCHANGED vars
  BY HeadFacts DEF Steps1
<1>3. Ready(x, a)
  BY <1>1, <1>2, CarriedHead
<1>4. PICK m : Ok(x, a, m) /\ Carried(Tail(proc.todo), m, {})
  BY <1>1, <1>2, CarriedHead
<1>5. Fine => Sound
  BY DEF RInv
<1>6. CASE proc'.todo = Tail(proc.todo)
  <2>1. ASSUME NEW f \in m
        PROVE  InForce(f)'
    <3>1. CASE Brings(x, a, f)
      BY <1>1, <1>3, <1>5, <1>6, <3>1, Brought
    <3>2. CASE f \in a /\ ~Loses(x, f)
      BY <1>1, <1>2, <1>5, <3>2, Stays
    <3> QED BY <1>4, <2>1, <3>1, <3>2 DEF Ok
  <2> QED BY <1>4, <1>6, <2>1
<1>7. CASE \E t : Inserts(x, t) /\ proc'.todo = t \o Tail(proc.todo)
  <2>1. PICK t : Inserts(x, t) /\ proc'.todo = t \o Tail(proc.todo)
    BY <1>7
  <2>2. t \in Seq(Steps) /\ t # <<>>
    BY <1>2, <2>1, InsertsCoinbase
  <2>3. \A f \in Remains(x, a) : InForce(f)'
    <3> HIDE DEF x
    <3>1. x = Head(proc.todo)
      BY DEF x
    <3> QED BY <1>1, <1>3, <1>5, <2>1, <2>2, <3>1, Left
  <2> HIDE DEF x
  <2>4. Carried(t, Remains(x, a), m)
    BY <1>2, <1>4, <2>1, InsertedCarried
  <2>5. Carried(t \o Tail(proc.todo), Remains(x, a), {})
    BY <1>4, <2>4, CarriedConcat
  <2> QED BY <2>1, <2>3, <2>5
<1>8. ~\E script \in Scripts : Start(script)
  BY <1>2 DEF Continues
<1> QED BY <1>2, <1>6, <1>7, <1>8, TodoChanges DEF Continues

LEMMA RKeeps ==
  ASSUME TInv, GInv, AInv, RInv, [Next]_vars
  PROVE  RInv'
<1>1. (Fine => Sound)'
  <2>1. proc.todo # <<>> => Heeded
    BY IsHeeded
  <2> QED BY <2>1, SoundKeeps DEF RInv
<1>2. \E a : (\A f \in a : InForce(f)') /\ Carried(proc'.todo, a, {})
  <2>1. CASE proc' = NoProcess
    <3>1. proc'.todo = <<>>
      BY <2>1, NoProcessType
    <3> QED BY <3>1, CarriedNone
  <2>2. CASE \E script \in Scripts : Start(script)
    <3>1. PICK script \in Scripts : Start(script)
      BY <2>2
    <3>2. proc'.todo = Program(script) /\ proc'.queue = <<>> /\ ~proc'.lazy
      BY <3>1 DEF Start, NoProcess
    <3>3. \A f \in Begun : InForce(f)'
      BY <3>2, FactFields DEF Begun, InForce
    <3> QED BY <3>2, <3>3, ProgramsCarried
  <2>3. CASE Continues /\ (CreatePool \/ UNCHANGED vars)
    <3>1. proc'.todo = proc.todo
      BY <2>3 DEF CreatePool, vars, TInv, Processes
    <3>2. PICK a : (\A f \in a : InForce(f)) /\ Carried(proc.todo, a, {})
      BY DEF RInv
    <3>3. ~Steps1 /\ (Fine => Sound)
      BY <2>3 DEF Steps1, RInv
    <3>4. \A f \in a : InForce(f)'
      BY <2>3, <3>2, <3>3, Stays
    <3> QED BY <3>1, <3>2, <3>4
  <2>4. CASE Steps1
    BY <2>4, StepCarried
  <2> QED BY <2>1, <2>2, <2>3, <2>4, Proceeds DEF Continues
<1> QED BY <1>1, <1>2 DEF RInv

LEMMA RInitially ==
  ASSUME Init
  PROVE  RInv
<1>1. proc = NoProcess
  BY DEF Init
<1>2. proc.todo = <<>> /\ proc.queue = <<>>
  BY <1>1 DEF NoProcess
<1>3. \E a : (\A f \in a : InForce(f)) /\ Carried(proc.todo, a, {})
  BY <1>2, CarriedNone
<1>4. Sound
  BY <1>2, NoneExecutable DEF Sound
<1> QED BY <1>3, <1>4 DEF RInv

\* No run raises, unless a class that declarations.json names is missing on the chain: on a
\* development network whose transactions are not reverted, every step finds what it asks
\* for, in whatever order scripts are run, killed, built and run again (main.py and the
\* deployment functions it calls in turn).
THEOREM RunsNeverRaiseHolds == Spec => RunsNeverRaise
<1> DEFINE Inv == TInv /\ GInv /\ AInv /\ RInv
           Silent == ~MayRevert /\ Network = "dev" /\ ~Idle /\ Idle' /\ last' = "raised" => ~ClassesDeclared
<1>1. Init => Inv
  BY Initially, AInitially, RInitially
<1>2. Inv /\ [Next]_vars => Inv'
  BY StepKeeps, AKeeps, RKeeps
<1>3. Inv /\ [Next]_vars => [Silent]_vars
  <2> SUFFICES ASSUME Inv, [Next]_vars, ~MayRevert, Network = "dev", ~Idle, Idle', last' = "raised",
                      ClassesDeclared
               PROVE  FALSE
    OBVIOUS
  <2>1. Fine
    BY DEF Fine
  <2>2. proc' = NoProcess
    <3>1. TInv'
      BY StepKeeps
    <3> QED BY <3>1 DEF TInv
  <2>3. proc.todo # <<>> => Heeded
    BY IsHeeded
  <2> QED BY <2>1, <2>2, <2>3, NoneRaises
<1> QED BY <1>1, <1>2, <1>3, PTL DEF Spec, RunsNeverRaise

=============================================================================
