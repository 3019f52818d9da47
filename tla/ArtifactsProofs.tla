--------------------------- MODULE ArtifactsProofs ---------------------------
(***************************************************************************)
(* Proofs about Artifacts, for every list of contracts, every glob and any  *)
(* number of edits.                                                        *)
(*                                                                         *)
(* Both properties rest on one fact about make: from the end of a           *)
(* compilation that succeeded until the next one begins, class_hashes.json   *)
(* holds the hashes of the artifacts, and a declaration runs at no other     *)
(* time.  Versions only grow, so that an artifact compiled from sources that *)
(* are still there lies between two equal numbers.                          *)
(***************************************************************************)
EXTENDS Artifacts, TLAPS

Version == 1..(MaxEdits + 1)
Hashes == Partial(Name, Class)
Sources == Partial(Name, Version)

Compile ==
  [step : {"idle", "compile", "dump", "write"}, todo : SUBSET Name, failed : BOOLEAN,
   found : Hashes, from : Sources]

Declaration ==
  [step : {"idle", "next", "wait"}, found : Seq(Class), expects : Class \cup {NoFile},
   sent : Class \cup {NoFile}, from : Sources, done : BOOLEAN]

Types ==
  /\ world \in [make : BOOLEAN, abandons : BOOLEAN, edits : 0..MaxEdits]
  /\ source \in [Name -> Version]
  /\ build \in [Name -> 0..(MaxEdits + 1)]
  /\ hashes \in Hashes /\ declarations \in Hashes /\ built \in Sources
  /\ pool \in SUBSET Class /\ chain \in SUBSET Class
  /\ compile \in Compile
  /\ declare \in Declaration
  /\ Len(declare.found) <= Len(Contracts)
  /\ declare.step # "idle" => ~declare.done
  /\ declare.step = "wait" => declare.expects \in Class /\ declare.sent \in Class
                              /\ Len(declare.found) < Len(Contracts)

\* Sources are as new as their edits, artifacts no newer than their source.
Versions == \A n \in Name : source[n] <= world.edits + 1 /\ build[n] <= source[n]

ArtifactHashes == [n \in Name |-> ArtifactClass(n)]

\* A compilation that has not failed has an artifact, as new as what it began from, of
\* all it is done with.
Compiling ==
  /\ compile.step # "idle" =>
       /\ built = NoFile
       /\ compile.from \in [Name -> Version]
       /\ \A n \in Name : compile.from[n] <= source[n]
  /\ compile.step = "compile" /\ ~compile.failed =>
       \A n \in Name \ compile.todo : compile.from[n] <= build[n]
  /\ compile.step \in {"dump", "write"} =>
       compile.found = ArtifactHashes /\ \A n \in Name : compile.from[n] <= build[n]

\* What a compilation that succeeded leaves, until the next one begins.
Built ==
  built # NoFile =>
    /\ built \in [Name -> Version]
    /\ hashes = ArtifactHashes
    /\ \A n \in Name : built[n] <= build[n]

\* A declaration that make runs: the files do not change under it.
Declaring ==
  world.make /\ declare.step # "idle" =>
    /\ built # NoFile /\ declare.from = built
    /\ \A i \in 1..Len(declare.found) :
         /\ declare.found[i] = hashes[Contracts[i]]
         /\ ~world.abandons => declare.found[i] \in chain
    /\ declare.step = "wait" =>
         declare.expects = hashes[Contracts[Len(declare.found) + 1]] /\ declare.sent = declare.expects

\* What it leaves.
Completed ==
  world.make /\ declare.done =>
    /\ declare.from \in [Name -> Version]
    /\ declarations \in [Name -> Class]
    /\ \A n \in Name : Pattern[n] = {n} =>
         /\ declarations[n].name = n
         /\ declare.from[n] <= declarations[n].version
         /\ declarations[n].version <= source[n]

IInv ==
  Types /\ Versions /\ Compiling /\ Built /\ Declaring /\ Completed /\ DeclarationsAreOnChain

-----------------------------------------------------------------------------

LEMMA ArtifactExists ==
  ASSUME Types, Versions, NEW n \in Name, HasArtifact(n)
  PROVE  /\ ArtifactClass(n) \in Class
         /\ ArtifactClass(n).version <= source[ArtifactClass(n).name]
         /\ Pattern[n] = {n} => ArtifactClass(n) = [name |-> n, version |-> build[n]]
<1>1. Pattern[n] \subseteq Name
  BY PatternAssumption
<1> DEFINE matching == {m \in Pattern[n] : build[m] > 0}
<1>2. matching # {} /\ (CHOOSE m \in matching : TRUE) \in matching
  BY DEF HasArtifact
<1>3. Artifact(n) \in matching
  BY <1>2 DEF Artifact
<1>4. Artifact(n) \in Name /\ build[Artifact(n)] > 0 /\ (Pattern[n] = {n} => Artifact(n) = n)
  BY <1>1, <1>3
<1>5. build[Artifact(n)] \in 1..(MaxEdits + 1)
  BY <1>4, ContractsAssumption DEF Types
<1>6. build[Artifact(n)] <= source[Artifact(n)]
  BY <1>4 DEF Versions
<1> QED
  BY <1>4, <1>5, <1>6 DEF ArtifactClass, Class


LEMMA InitInv == Init => IInv
<1> SUFFICES ASSUME Init PROVE IInv
  OBVIOUS
<1>1. Types
  <2>1. NoFile \in Hashes /\ NoFile \in Sources
    BY DEF Hashes, Sources, Partial
  <2>2. compile \in Compile /\ declare \in Declaration
    BY <2>1 DEF Init, Stopped, Quiet, Compile, Declaration
  <2>3. world \in [make : BOOLEAN, abandons : BOOLEAN, edits : 0..MaxEdits]
    <3>1. PICK w \in Worlds : world = [make |-> w.make, abandons |-> w.abandons, edits |-> 0]
      BY DEF Init
    <3>2. w.make \in BOOLEAN /\ w.abandons \in BOOLEAN /\ 0 \in 0..MaxEdits
      BY WorldsAssumption, ContractsAssumption
    <3> QED
      BY <3>1, <3>2
  <2>4. source \in [Name -> Version] /\ build \in [Name -> 0..(MaxEdits + 1)]
    BY ContractsAssumption DEF Init, Version
  <2>5. Len(declare.found) <= Len(Contracts) /\ declare.step = "idle"
    BY ContractsAssumption DEF Init, Quiet
  <2> QED
    BY <2>1, <2>2, <2>3, <2>4, <2>5 DEF Init, Types
<1>2. Versions
  BY <1>1 DEF Init, Versions
<1>3. Compiling /\ Built /\ Declaring /\ Completed
  BY DEF Init, Compiling, Built, Declaring, Completed, Stopped, Quiet
<1>4. DeclarationsAreOnChain
  BY DEF Init, DeclarationsAreOnChain, NoFile
<1> QED
  BY <1>1, <1>2, <1>3, <1>4 DEF IInv

-----------------------------------------------------------------------------
(* The sources and the compilation                                         *)

LEMMA EditInv ==
  ASSUME IInv, NEW n \in Name, Edit(n)
  PROVE  IInv'
<1> USE DEF Edit, files
<1>1. source[n] \in Version /\ world.edits \in 0..MaxEdits /\ world.edits < MaxEdits
      /\ source[n] <= world.edits + 1 /\ MaxEdits \in Nat
  BY ContractsAssumption DEF IInv, Types, Versions
<1>2. source' \in [Name -> Version] /\ \A m \in Name : source'[m] = IF m = n THEN source[n] + 1 ELSE source[m]
  BY <1>1 DEF IInv, Types, Version
<1>3. world' \in [make : BOOLEAN, abandons : BOOLEAN, edits : 0..MaxEdits]
      /\ world'.edits = world.edits + 1 /\ world'.make = world.make /\ world'.abandons = world.abandons
  <2>1. world.edits + 1 \in 0..MaxEdits
    BY <1>1
  <2>2. world \in [make : BOOLEAN, abandons : BOOLEAN, edits : 0..MaxEdits]
    BY DEF IInv, Types
  <2>3. world' = [world EXCEPT !.edits = world.edits + 1]
    OBVIOUS
  <2> HIDE DEF Edit
  <2> QED
    BY <2>1, <2>2, <2>3
<1>4. Types'
  BY <1>2, <1>3 DEF IInv, Types
<1>5. \A m \in Name : source[m] \in Nat /\ source[m] <= source'[m]
  BY <1>1, <1>2 DEF IInv, Types, Version
<1>6. Versions'
  BY SMTT(30), <1>1, <1>2, <1>3, <1>5, <1>4 DEF IInv, Versions, Types, Version
<1>7. Compiling' /\ Built'
  BY SMTT(30), <1>5, <1>4 DEF IInv, Compiling, Built, ArtifactHashes, ArtifactClass, Artifact, Types, Sources, Partial, Version
<1>8. Declaring' /\ DeclarationsAreOnChain'
  BY <1>3 DEF IInv, Declaring, DeclarationsAreOnChain
<1>9. Completed'
  <2>1. CASE world.make /\ declare.done
    <3>1. declare.from \in [Name -> Version] /\ declarations \in [Name -> Class]
      BY <2>1 DEF IInv, Completed
    <3>2. \A m \in Name : declarations[m].version \in Nat /\ source'[m] \in Nat
      BY <1>2, <3>1 DEF Class, Version
    <3>3. \A m \in Name : Pattern[m] = {m} => declarations[m].version <= source'[m]
      BY <2>1, <1>5, <3>2 DEF IInv, Completed
    <3> QED
      BY <2>1, <3>1, <3>3 DEF IInv, Completed
  <2> QED
    BY <2>1, <1>3 DEF Completed
<1> QED
  BY <1>4, <1>6, <1>7, <1>8, <1>9 DEF IInv

\* A step of the compilation that makes no artifact and keeps the others' hashes.
LEMMA CompileStep ==
  ASSUME IInv, compile' \in Compile, hashes' \in Hashes, built' \in Sources,
         UNCHANGED <<world, source, build, first, declare, pool, chain, declarations>>,
         Compiling', Built',
         world.make => declare.step = "idle"
  PROVE  IInv'
<1>1. Types' /\ Versions'
  BY DEF IInv, Types, Versions
<1>2. Declaring' /\ Completed' /\ DeclarationsAreOnChain'
  BY DEF IInv, Declaring, Completed, DeclarationsAreOnChain
<1> QED
  BY <1>1, <1>2 DEF IInv

\* A compilation that runs is not beside a declaration of make.
LEMMA CompilesAlone ==
  ASSUME IInv, compile.step # "idle"
  PROVE  built = NoFile /\ (world.make => declare.step = "idle")
BY DEF IInv, Compiling, Declaring

LEMMA StoppedType == Stopped \in Compile /\ Stopped.step = "idle"
BY DEF Stopped, Compile, Hashes, Sources, Partial, NoFile

LEMMA StartCompileInv ==
  ASSUME IInv, StartCompile
  PROVE  IInv'
<1> USE DEF StartCompile, files
<1>1. /\ compile' \in Compile /\ compile'.step = "compile" /\ compile'.todo = Name
      /\ compile'.from = source /\ source \in [Name -> Version]
  BY StoppedType DEF IInv, Types, Stopped, Compile, Sources, Partial
<1>2. Compiling' /\ Built'
  BY <1>1 DEF Compiling, Built, Version
<1>3. built' \in Sources
  BY DEF Sources, Partial
<1> QED
  BY <1>1, <1>2, <1>3, CompileStep DEF IInv, Types

LEMMA KillCompileInv ==
  ASSUME IInv, KillCompile
  PROVE  IInv'
<1> USE DEF KillCompile, files
<1>1. Compiling' /\ Built'
  BY DEF IInv, Compiling, Built, Stopped, ArtifactHashes, ArtifactClass, Artifact
<1> QED
  BY <1>1, StoppedType, CompilesAlone, CompileStep DEF IInv, Types

LEMMA ComputeClassHashesInv ==
  ASSUME IInv, ComputeClassHashes
  PROVE  IInv'
<1> USE DEF ComputeClassHashes, files
<1>1. built = NoFile /\ (world.make => declare.step = "idle")
  BY CompilesAlone
<1>2. UNCHANGED <<hashes, built>> /\ hashes' \in Hashes /\ built' \in Sources
  BY DEF IInv, Types
<1>3. CASE compile.failed
  <2>1. compile' = Stopped
    BY <1>3
  <2>2. compile'.step = "idle"
    BY <2>1, StoppedType
  <2>4. built' = NoFile
    BY <1>1, <1>2
  <2>3. Compiling' /\ Built'
    BY <2>2, <2>4 DEF Compiling, Built
  <2> QED
    BY <1>1, <1>2, <2>1, <2>3, StoppedType, CompileStep
<1>4. CASE ~compile.failed
  <2>1. compile' = [compile EXCEPT !.step = "dump", !.found = ArtifactHashes]
    BY <1>4 DEF ArtifactHashes
  <2>2. \A n \in Name : compile.from[n] <= build[n] /\ compile.from[n] \in Version
    BY <1>4 DEF IInv, Compiling
  <2>3. \A n \in Name : HasArtifact(n)
    BY SMTT(30), <2>2, PatternAssumption DEF HasArtifact, Version, IInv, Types
  <2>4. ArtifactHashes \in Hashes
    BY <2>3, ArtifactExists DEF ArtifactHashes, Hashes, Partial, IInv
  <2>5. compile' \in Compile
    BY <2>1, <2>4 DEF IInv, Types, Compile
  <2>6. ArtifactHashes' = ArtifactHashes
    BY DEF ArtifactHashes, ArtifactClass, Artifact
  <2>7. compile'.step = "dump" /\ compile'.found = ArtifactHashes /\ compile'.from = compile.from
    BY <2>1 DEF IInv, Types, Compile
  <2>8. Compiling' /\ Built'
    BY <1>1, <1>2, <2>2, <2>6, <2>7 DEF IInv, Compiling, Built
  <2> QED
    BY <1>1, <1>2, <2>5, <2>8, CompileStep
<1> QED
  BY <1>3, <1>4

LEMMA OpenClassHashesInv ==
  ASSUME IInv, OpenClassHashes
  PROVE  IInv'
<1> USE DEF OpenClassHashes, files
<1>1. built = NoFile /\ (world.make => declare.step = "idle")
  BY CompilesAlone
<1>2. /\ compile' \in Compile /\ compile'.step = "write"
      /\ compile'.found = compile.found /\ compile'.from = compile.from
  BY DEF IInv, Types, Compile
<1>3. Compiling' /\ Built'
  BY <1>1, <1>2 DEF IInv, Compiling, Built, ArtifactHashes, ArtifactClass, Artifact
<1>4. hashes' \in Hashes /\ built' \in Sources
  BY DEF IInv, Types, Hashes, Partial
<1> QED
  BY <1>1, <1>2, <1>3, <1>4, CompileStep

LEMMA DumpClassHashesInv ==
  ASSUME IInv, DumpClassHashes
  PROVE  IInv'
<1> USE DEF DumpClassHashes, files
<1>1. world.make => declare.step = "idle"
  BY CompilesAlone
<1>2. /\ hashes' = ArtifactHashes /\ built' = compile.from /\ compile.from \in [Name -> Version]
      /\ \A n \in Name : compile.from[n] <= build[n]
      /\ compile.found \in Hashes
  BY DEF IInv, Compiling, Types, Compile
<1>3. Compiling' /\ Built'
  BY <1>2 DEF Compiling, Built, Stopped, ArtifactHashes, ArtifactClass, Artifact
<1>4. hashes' \in Hashes /\ built' \in Sources
  BY <1>2 DEF Sources, Partial
<1> QED
  BY <1>1, <1>3, <1>4, StoppedType, CompileStep

\* The pools of compilers: artifacts of the names compiled are made from their sources,
\* and names that are left out for good are of a compilation that has failed.
LEMMA PoolStep ==
  ASSUME IInv, compile.step = "compile",
         NEW done \in SUBSET Name, NEW failed \in BOOLEAN, NEW made \in SUBSET done,
         compile' = [compile EXCEPT !.todo = @ \ done, !.failed = failed],
         build' = [n \in Name |-> IF n \in made THEN source[n] ELSE build[n]],
         ~failed => ~compile.failed /\ made = done,
         UNCHANGED <<world, source, first, hashes, declare, pool, chain, declarations, built>>
  PROVE  IInv'
<1>1. built = NoFile /\ (world.make => declare.step = "idle")
  BY CompilesAlone
<1>2. /\ compile' \in Compile /\ compile'.step = "compile" /\ compile'.from = compile.from
      /\ compile'.todo = compile.todo \ done /\ compile'.failed = failed
  BY DEF IInv, Types, Compile
<1>3. \A n \in Name : source[n] \in 1..(MaxEdits + 1) /\ build[n] \in 0..(MaxEdits + 1)
  BY DEF IInv, Types, Version
<1>4. build' \in [Name -> 0..(MaxEdits + 1)]
  BY <1>3, ContractsAssumption
<1>5. Types' /\ Versions'
  BY <1>2, <1>3, <1>4 DEF IInv, Types, Versions
<1>6. Compiling'
  BY <1>1, <1>2, <1>3 DEF IInv, Compiling
<1>7. Built' /\ Declaring' /\ Completed' /\ DeclarationsAreOnChain'
  BY <1>1 DEF IInv, Built, Declaring, Completed, DeclarationsAreOnChain
<1> QED
  BY <1>5, <1>6, <1>7 DEF IInv

LEMMA CompileCairoZeroContractInv ==
  ASSUME IInv, NEW n \in Name, CompileCairoZeroContract(n)
  PROVE  IInv'
<1> USE DEF CompileCairoZeroContract
<1>1. build = [m \in Name |-> build[m]] /\ compile.todo \in SUBSET Name /\ compile.failed \in BOOLEAN
      /\ compile = [compile EXCEPT !.failed = compile.failed]
  BY DEF IInv, Types, Compile
<1>2. CASE n \in broken
  <2>1. PICK chunk \in SUBSET (compile.todo \ Cairo1) :
          compile' = [compile EXCEPT !.todo = @ \ (chunk \cup {n}), !.failed = TRUE]
    BY <1>2
  <2> DEFINE done == chunk \cup {n}
             made == {}
  <2>2. done \in SUBSET Name /\ made \in SUBSET done
    BY <1>1
  <2>3. build' = [m \in Name |-> IF m \in made THEN source[m] ELSE build[m]]
    BY <1>1, <1>2
  <2>4. compile' = [compile EXCEPT !.todo = @ \ done, !.failed = TRUE]
    BY <2>1
  <2> HIDE DEF done, made
  <2> QED
    BY <2>2, <2>3, <2>4, PoolStep
<1>3. CASE n \notin broken
  <2> DEFINE done == {n}
             failed == compile.failed
  <2>1. compile' = [compile EXCEPT !.todo = @ \ done, !.failed = failed]
    BY <1>3, <1>1 DEF IInv, Types, Compile
  <2>2. build' = [m \in Name |-> IF m \in done THEN source[m] ELSE build[m]]
    BY <1>3, <1>1
  <2>3. done \in SUBSET Name /\ done \in SUBSET done /\ failed \in BOOLEAN
        /\ (~failed => ~compile.failed)
    BY <1>1
  <2> HIDE DEF done, failed
  <2> QED
    BY <2>1, <2>2, <2>3, PoolStep
<1> QED
  BY <1>2, <1>3

LEMMA CompileScarbPackageInv ==
  ASSUME IInv, CompileScarbPackage
  PROVE  IInv'
<1> USE DEF CompileScarbPackage
<1> DEFINE failed == compile.failed \/ Cairo1 \cap broken # {}
           made == IF Cairo1 \cap broken # {} THEN {} ELSE Cairo1
<1>1. build = [m \in Name |-> build[m]] /\ compile.failed \in BOOLEAN
  BY DEF IInv, Types, Compile
<1>2. Cairo1 \in SUBSET Name /\ made \in SUBSET Cairo1
  BY ContractsAssumption
<1>3. build' = [m \in Name |-> IF m \in made THEN source[m] ELSE build[m]]
  BY <1>1
<1>4. failed \in BOOLEAN /\ compile' = [compile EXCEPT !.todo = @ \ Cairo1, !.failed = failed]
  BY <1>1
<1>5. ~failed => ~compile.failed /\ made = Cairo1
  BY <1>1
<1> HIDE DEF failed, made
<1> QED
  BY <1>2, <1>3, <1>4, <1>5, PoolStep

-----------------------------------------------------------------------------
(* The declaration                                                         *)

\* A step of the declaration that leaves the file and the results alone.
LEMMA DeclareStep ==
  ASSUME IInv, declare' \in Declaration, pool' \in SUBSET Class,
         Len(declare'.found) <= Len(Contracts),
         declare'.step = "wait" => declare'.expects \in Class /\ declare'.sent \in Class
                                   /\ Len(declare'.found) < Len(Contracts),
         UNCHANGED <<world, source, build, first, hashes, compile, chain, declarations, built>>,
         Declaring', ~declare'.done
  PROVE  IInv'
<1>1. Types' /\ Versions'
  BY DEF IInv, Types, Versions
<1>2. Compiling' /\ Built'
  BY DEF IInv, Compiling, Built, ArtifactHashes, ArtifactClass, Artifact
<1>3. Completed' /\ DeclarationsAreOnChain'
  BY DEF IInv, Completed, DeclarationsAreOnChain
<1> QED
  BY <1>1, <1>2, <1>3 DEF IInv

LEMMA QuietType ==
  /\ Quiet \in Declaration /\ Quiet.step = "idle" /\ Quiet.found = <<>> /\ ~Quiet.done
  /\ Len(Quiet.found) <= Len(Contracts)
<1>1. NoFile \in Sources
  BY DEF Sources, Partial
<1> QED
  BY <1>1, ContractsAssumption DEF Quiet, Declaration

LEMMA StartDeclareInv ==
  ASSUME IInv, StartDeclare
  PROVE  IInv'
<1> USE DEF StartDeclare, files
<1>1. built \in Sources /\ pool \in SUBSET Class
  BY DEF IInv, Types
<1>2. /\ declare' \in Declaration /\ declare'.step = "next" /\ declare'.found = <<>>
      /\ declare'.from = built /\ ~declare'.done
  BY <1>1, QuietType DEF Declaration
<1>3. Len(declare'.found) = 0 /\ Len(declare'.found) <= Len(Contracts)
  BY <1>2, ContractsAssumption
<1>4. Declaring'
  BY <1>2, <1>3 DEF Declaring
<1> QED
  BY <1>1, <1>2, <1>3, <1>4, DeclareStep

LEMMA BackToQuiet ==
  ASSUME IInv, declare' = Quiet, pool' = pool,
         UNCHANGED <<world, source, build, first, hashes, compile, chain, declarations, built>>
  PROVE  IInv'
<1>1. pool' \in SUBSET Class
  BY DEF IInv, Types
<1>2. declare'.step = "idle"
  BY QuietType
<1>3. Declaring'
  BY <1>2 DEF Declaring
<1> QED
  BY <1>1, <1>2, <1>3, QuietType, DeclareStep

LEMMA KillDeclareInv ==
  ASSUME IInv, KillDeclare
  PROVE  IInv'
BY BackToQuiet DEF KillDeclare, files

\* A class that is found is the one class_hashes.json names, and is on the chain.
LEMMA FindStep ==
  ASSUME IInv, declare.step # "idle",
         Len(declare.found) < Len(Contracts),
         NEW hash \in Class, declare' = Declared(hash), pool' = pool,
         world.make => hash = hashes[Contracts[Len(declare.found) + 1]],
         world.make /\ ~world.abandons => hash \in chain,
         UNCHANGED <<world, source, build, first, hashes, compile, chain, declarations, built>>
  PROVE  IInv'
<1>1. declare \in Declaration /\ declare.found \in Seq(Class) /\ Len(Contracts) \in Nat
      /\ pool \in SUBSET Class /\ ~declare.done
  BY ContractsAssumption DEF IInv, Types, Declaration
<1>2. /\ declare' \in Declaration /\ declare'.step = "next"
      /\ declare'.found = Append(declare.found, hash)
      /\ declare'.from = declare.from /\ declare'.done = declare.done
  <2>1. Append(declare.found, hash) \in Seq(Class)
    BY <1>1
  <2>2. declare' = [declare EXCEPT !.step = "next", !.found = Append(declare.found, hash)]
    BY <1>1 DEF Declared, Declaration
  <2> QED
    BY <1>1, <2>1, <2>2 DEF Declaration
<1>3. /\ Len(declare'.found) = Len(declare.found) + 1
      /\ \A i \in 1..Len(declare'.found) :
           declare'.found[i] = IF i = Len(declare.found) + 1 THEN hash ELSE declare.found[i]
      /\ \A i \in 1..Len(declare'.found) : i # Len(declare.found) + 1 => i \in 1..Len(declare.found)
  BY <1>1, <1>2
<1>4. Len(declare'.found) <= Len(Contracts)
  BY <1>1, <1>3
<1>5. Declaring'
  BY <1>2, <1>3 DEF IInv, Declaring
<1> QED
  BY <1>1, <1>2, <1>4, <1>5, DeclareStep

\* The hash that is expected when make declares is that of the artifact that is sent.
LEMMA DeclareInv ==
  ASSUME IInv, Declare
  PROVE  IInv'
<1> DEFINE n == Contracts[Len(declare.found) + 1]
<1>1. /\ declare.step = "next" /\ Len(declare.found) < Len(Contracts)
      /\ UNCHANGED <<world, source, build, first, hashes, compile, chain, declarations, built>>
  BY DEF Declare, files
<1>2. declare \in Declaration /\ declare.found \in Seq(Class) /\ hashes \in Hashes
  BY DEF IInv, Types, Declaration
<1>3. n \in Name
  BY <1>1, <1>2, ContractsAssumption
<1>4. n \in DOMAIN hashes => hashes[n] \in Class
  BY <1>2 DEF Hashes, Partial, NoFile
<1>5. CASE declare' = Quiet /\ pool' = pool
  BY <1>1, <1>5, BackToQuiet
<1>6. CASE n \in DOMAIN hashes /\ hashes[n] \in chain /\ declare' = Declared(hashes[n]) /\ pool' = pool
  BY <1>1, <1>4, <1>6, FindStep
<1>7. CASE /\ n \in DOMAIN hashes /\ HasArtifact(n)
           /\ declare' = [declare EXCEPT !.step = "wait", !.expects = hashes[n], !.sent = ArtifactClass(n)]
           /\ pool' = pool \cup {ArtifactClass(n)}
  <2>1. ArtifactClass(n) \in Class /\ pool' \in SUBSET Class /\ hashes[n] \in Class
    BY <1>3, <1>4, <1>7, ArtifactExists DEF IInv, Types
  <2>2. /\ declare' \in Declaration /\ declare'.step = "wait" /\ declare'.found = declare.found
        /\ declare'.expects = hashes[n] /\ declare'.sent = ArtifactClass(n)
        /\ declare'.from = declare.from /\ ~declare'.done
    BY <1>1, <1>2, <1>7, <2>1 DEF Declaration, IInv, Types
  <2>3. world.make => hashes[n] = ArtifactClass(n)
    BY <1>1, <1>3 DEF IInv, Declaring, Built, ArtifactHashes
  <2>4. Len(declare'.found) < Len(Contracts) /\ Len(declare'.found) <= Len(Contracts)
    BY <1>1, <1>2, <2>2, ContractsAssumption
  <2>5. Declaring'
    BY <1>1, <2>2, <2>3 DEF IInv, Declaring
  <2> QED
    BY <1>1, <2>1, <2>2, <2>4, <2>5, DeclareStep
<1> QED
  BY <1>5, <1>6, <1>7 DEF Declare

LEMMA WaitDeclaredInv ==
  ASSUME IInv, WaitDeclared
  PROVE  IInv'
<1>1. /\ declare.step = "wait" /\ (declare.sent \in chain \/ world.abandons)
      /\ declare' = Declared(declare.expects) /\ pool' = pool
      /\ UNCHANGED <<world, source, build, first, hashes, compile, chain, declarations, built>>
  BY DEF WaitDeclared, files
<1>2. declare.expects \in Class /\ Len(declare.found) < Len(Contracts) /\ declare.step # "idle"
  BY <1>1 DEF IInv, Types
<1>3. world.make => /\ declare.expects = hashes[Contracts[Len(declare.found) + 1]]
                    /\ ~world.abandons => declare.expects \in chain
  BY <1>1 DEF IInv, Declaring
<1> QED
  BY <1>1, <1>2, <1>3, FindStep

\* declarations.json names what was found, in the order of the contracts.
LEMMA DumpDeclarationsInv ==
  ASSUME IInv, DumpDeclarations
  PROVE  IInv'
<1> DEFINE at(n) == CHOOSE i \in DOMAIN Contracts : Contracts[i] = n
<1>1. /\ declare.step = "next" /\ Len(declare.found) = Len(Contracts)
      /\ declare' = [Quiet EXCEPT !.from = declare.from, !.done = TRUE]
      /\ declarations' = [n \in Name |-> declare.found[at(n)]]
      /\ UNCHANGED <<world, source, build, first, hashes, compile, pool, chain, built>>
  BY DEF DumpDeclarations
<1>2. declare \in Declaration /\ declare.found \in Seq(Class) /\ declare.from \in Sources
      /\ Len(Contracts) \in Nat /\ DOMAIN Contracts = 1..Len(Contracts)
  BY ContractsAssumption DEF IInv, Types, Declaration
<1>3. /\ declare' \in Declaration /\ declare'.step = "idle" /\ declare'.from = declare.from
      /\ declare'.found = <<>>
  BY <1>1, <1>2, QuietType DEF Declaration
<1>4. \A n \in Name : at(n) \in 1..Len(declare.found) /\ Contracts[at(n)] = n
  BY <1>1, <1>2 DEF Name
<1> HIDE DEF at
<1>5. declarations' \in [Name -> Class]
  BY <1>1, <1>2, <1>4
<1>6. Types' /\ Versions'
  BY <1>1, <1>2, <1>3, <1>5 DEF IInv, Types, Versions, Hashes, Partial
<1>7. Compiling' /\ Built'
  BY <1>1 DEF IInv, Compiling, Built, ArtifactHashes, ArtifactClass, Artifact
<1>8. Declaring'
  BY <1>3 DEF Declaring
<1>9. DeclarationsAreOnChain'
  BY <1>1, <1>4, <1>5 DEF IInv, Declaring, DeclarationsAreOnChain
<1>10. Completed'
  <2> SUFFICES ASSUME world.make PROVE Completed'
    BY <1>1 DEF Completed
  <2>1. built # NoFile /\ declare.from = built /\ built \in [Name -> Version] /\ hashes = ArtifactHashes
    BY <1>1 DEF IInv, Declaring, Built
  <2>2. \A n \in Name : declarations'[n] = ArtifactClass(n)
    <3> SUFFICES ASSUME NEW n \in Name PROVE declarations'[n] = ArtifactClass(n)
      OBVIOUS
    <3>1. declarations'[n] = hashes[Contracts[at(n)]]
      BY <1>1, <1>4 DEF IInv, Declaring
    <3> QED
      BY <1>4, <2>1, <3>1 DEF ArtifactHashes
  <2>3. \A n \in Name : built[n] <= build[n] /\ built[n] \in Version
    BY <2>1 DEF IInv, Built
  <2>4. ASSUME NEW n \in Name, Pattern[n] = {n}
        PROVE  /\ declarations'[n].name = n
               /\ built[n] <= declarations'[n].version
               /\ declarations'[n].version <= source[n]
    <3>1. HasArtifact(n)
      BY <2>3, <2>4 DEF HasArtifact, Version, IInv, Types
    <3>2. ArtifactClass(n) = [name |-> n, version |-> build[n]]
      BY <2>4, <3>1, ArtifactExists DEF IInv
    <3> QED
      BY <2>2, <2>3, <3>2 DEF IInv, Versions
  <2> QED
    BY <1>1, <1>3, <1>5, <2>1, <2>4 DEF Completed
<1> QED
  BY <1>6, <1>7, <1>8, <1>9, <1>10 DEF IInv

LEMMA IncludeInv ==
  ASSUME IInv, Include
  PROVE  IInv'
<1>1. PICK class \in pool : chain' = chain \cup {class} /\ pool' = pool \ {class}
  BY DEF Include
<1>2. UNCHANGED <<world, source, build, first, hashes, compile, declare, declarations, built>>
  BY DEF Include, files
<1>3. Types' /\ Versions'
  BY <1>1, <1>2 DEF IInv, Types, Versions
<1>4. Compiling' /\ Built'
  BY <1>2 DEF IInv, Compiling, Built, ArtifactHashes, ArtifactClass, Artifact
<1>5. Declaring' /\ Completed' /\ DeclarationsAreOnChain'
  BY <1>1, <1>2 DEF IInv, Declaring, Completed, DeclarationsAreOnChain
<1> QED
  BY <1>3, <1>4, <1>5 DEF IInv

-----------------------------------------------------------------------------
(* The theorems                                                            *)

LEMMA StutterInv == IInv /\ UNCHANGED vars => IInv'
<1> SUFFICES ASSUME IInv, UNCHANGED vars PROVE IInv'
  OBVIOUS
<1> USE DEF vars, files
<1>1. Types' /\ Versions'
  BY DEF IInv, Types, Versions
<1>2. Compiling' /\ Built'
  BY DEF IInv, Compiling, Built, ArtifactHashes, ArtifactClass, Artifact
<1>3. Declaring' /\ Completed' /\ DeclarationsAreOnChain'
  BY DEF IInv, Declaring, Completed, DeclarationsAreOnChain
<1> QED
  BY <1>1, <1>2, <1>3 DEF IInv

LEMMA NextInv == IInv /\ [Next]_vars => IInv'
<1> SUFFICES ASSUME IInv, [Next]_vars PROVE IInv'
  OBVIOUS
<1>1. ASSUME NEW n \in Name, Edit(n) PROVE IInv'
  BY <1>1, EditInv
<1>2. ASSUME NEW n \in Name, CompileCairoZeroContract(n) PROVE IInv'
  BY <1>2, CompileCairoZeroContractInv
<1>3. CASE StartCompile \/ KillCompile
  BY <1>3, StartCompileInv, KillCompileInv
<1>4. CASE CompileScarbPackage \/ ComputeClassHashes
  BY <1>4, CompileScarbPackageInv, ComputeClassHashesInv
<1>5. CASE OpenClassHashes \/ DumpClassHashes
  BY <1>5, OpenClassHashesInv, DumpClassHashesInv
<1>6. CASE StartDeclare \/ KillDeclare
  BY <1>6, StartDeclareInv, KillDeclareInv
<1>7. CASE Declare \/ WaitDeclared \/ DumpDeclarations
  BY <1>7, DeclareInv, WaitDeclaredInv, DumpDeclarationsInv
<1>8. CASE Include
  BY <1>8, IncludeInv
<1>9. CASE UNCHANGED vars
  BY <1>9, StutterInv
<1> QED
  BY <1>1, <1>2, <1>3, <1>4, <1>5, <1>6, <1>7, <1>8, <1>9 DEF Next

LEMMA InvImplies == IInv => TypeOK /\ MakeDeclaresSources
<1> SUFFICES ASSUME IInv PROVE TypeOK /\ MakeDeclaresSources
  OBVIOUS
<1>1. TypeOK
  BY DEF IInv, Types, TypeOK, Hashes, Compile
<1>2. MakeDeclaresSources
  <2> SUFFICES ASSUME world.make, declare.done, declare.from = source,
                      NEW n \in Name, Pattern[n] = {n}
               PROVE  declarations[n] = [name |-> n, version |-> source[n]]
    BY DEF MakeDeclaresSources
  <2>1. declarations[n] \in Class /\ declarations[n].name = n
        /\ source[n] <= declarations[n].version /\ declarations[n].version <= source[n]
    BY DEF IInv, Completed
  <2>2. source[n] \in Nat /\ declarations[n].version \in Nat
    BY <2>1 DEF IInv, Types, Version, Class
  <2>3. declarations[n].version = source[n]
    BY <2>1, <2>2
  <2> QED
    BY <2>1, <2>3 DEF Class
<1> QED
  BY <1>1, <1>2

\* For any contracts, globs and edits, files, processes and chain keep their types: what
\* class_hashes.json names was compiled, and a declaration finds one hash per contract.
THEOREM TypeCorrect == Spec => []TypeOK
<1>1. Init => IInv
  BY InitInv
<1>2. IInv /\ [Next]_vars => IInv'
  BY NextInv
<1>3. IInv => TypeOK
  BY InvImplies
<1> QED
  BY <1>1, <1>2, <1>3, PTL DEF Spec

\* What make declares and waits for is on the chain under the hash that
\* declarations.json gives it, whatever is killed, edited or not compiled.
THEOREM DeclarationsAreOnChainHolds == Spec => []DeclarationsAreOnChain
<1>1. Init => IInv
  BY InitInv
<1>2. IInv /\ [Next]_vars => IInv'
  BY NextInv
<1>3. IInv => DeclarationsAreOnChain
  BY DEF IInv
<1> QED
  BY <1>1, <1>2, <1>3, PTL DEF Spec

\* A make declare that has completed declared the sources, if they are still what
\* its compilation began from, for each name whose glob is not ambiguous.
THEOREM MakeDeclaresSourcesHolds == Spec => []MakeDeclaresSources
<1>1. Init => IInv
  BY InitInv
<1>2. IInv /\ [Next]_vars => IInv'
  BY NextInv
<1>3. IInv => MakeDeclaresSources
  BY InvImplies
<1> QED
  BY <1>1, <1>2, <1>3, PTL DEF Spec

=============================================================================
