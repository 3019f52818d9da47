------------------------------ MODULE Artifacts ------------------------------
(***************************************************************************)
(* From the sources to declared classes: compile_kakarot.py, the artifact   *)
(* functions of utils/starknet.py and declarations.py.                      *)
(*                                                                         *)
(* A compilation writes one file per contract, from a pool of workers, and  *)
(* in the end class_hashes.json.  A declaration reads both, sends the       *)
(* classes that are not on the chain and writes declarations.json.  Sources *)
(* are edited at any time, a source may not compile, and either process may *)
(* be killed between two steps.                                            *)
(*                                                                         *)
(* The contracts are those built from the sources.  For a contract that has *)
(* a file in build/ssj, an archive that make downloads once (Cairo1Helpers,  *)
(* Cairo1HelpersFixture), get_artifact takes that file, whatever was         *)
(* compiled: its class never changes, and it is left out.                   *)
(***************************************************************************)
EXTENDS Integers, Sequences, FiniteSets

CONSTANTS
  Contracts,  \* DECLARED_CONTRACTS, in order
  Cairo1,     \* those of the Scarb package; the others are Cairo 0
  Pattern,    \* the files whose name matches the glob of a contract
  Worlds,     \* the circumstances to consider
  MaxEdits    \* bound: edits of the sources

Name == {Contracts[i] : i \in DOMAIN Contracts}

ASSUME ContractsAssumption ==
  /\ Contracts \in Seq(Name)
  /\ Cairo1 \subseteq Name
  /\ MaxEdits \in Nat
ASSUME WorldsAssumption ==
  Worlds \subseteq [make : BOOLEAN,      \* declare runs after a compilation that succeeded, as make does
                    abandons : BOOLEAN]  \* the wait for a transaction may end before it is included
ASSUME PatternAssumption ==
  /\ Pattern \in [Name -> SUBSET Name]
  /\ \A n \in Name : n \in Pattern[n]

VARIABLES
  world,         \* one of Worlds, which stays, with the edits so far
  source,        \* the version of each source
  broken,        \* the contracts whose source does not compile
  build,         \* the version each artifact was compiled from, 0 if there is none
  first,         \* the file the glob of a contract lists first
  hashes,        \* class_hashes.json
  compile,       \* the compilation
  declare,       \* the declaration
  pool,          \* declarations sent and not included yet
  chain,         \* the declared classes
  declarations,  \* declarations.json
  built          \* the sources the last compilation that succeeded started from

files == <<build, hashes, declarations>>
vars == <<world, source, broken, build, first, hashes, compile, declare, pool, chain,
          declarations, built>>

\* A class is its contract and the version of its source.
Class == [name : Name, version : 1..(MaxEdits + 1)]
NoFile == [n \in {} |-> 0]  \* a json file that is missing, or was opened and not written
Stopped == [step |-> "idle", todo |-> {}, failed |-> FALSE, found |-> NoFile, from |-> NoFile]
Quiet == [step |-> "idle", found |-> <<>>, expects |-> NoFile, sent |-> NoFile,
          from |-> NoFile, done |-> FALSE]

Init ==
  /\ \E w \in Worlds : world = [make |-> w.make, abandons |-> w.abandons, edits |-> 0]
  /\ source = [n \in Name |-> 1]
  /\ broken = {}
  /\ build = [n \in Name |-> 0]
  /\ first \in [Name -> Name]
  /\ \A n \in Name : first[n] \in Pattern[n]
  /\ hashes = NoFile
  /\ compile = Stopped
  /\ declare = Quiet
  /\ pool = {}
  /\ chain = {}
  /\ declarations = NoFile
  /\ built = NoFile

Edit(n) ==
  /\ world.edits < MaxEdits
  /\ world' = [world EXCEPT !.edits = @ + 1]
  /\ source' = [source EXCEPT ![n] = @ + 1]
  /\ broken' \in {broken \cup {n}, broken \ {n}}
  /\ UNCHANGED <<files, first, compile, declare, pool, chain, built>>

-----------------------------------------------------------------------------
(* uv run compile                                                          *)

StartCompile ==
  /\ compile.step = "idle"
  /\ world.make => declare.step = "idle"
  /\ compile' = [Stopped EXCEPT !.step = "compile", !.todo = Name, !.from = source]
  /\ built' = NoFile
  /\ UNCHANGED <<world, source, broken, files, first, declare, pool, chain, declarations>>

\* A worker compiles one Cairo 0 contract; when it fails, the rest of its chunk is
\* not compiled either.
CompileCairoZeroContract(n) ==
  /\ compile.step = "compile"
  /\ n \in compile.todo \ Cairo1
  /\ IF n \in broken
     THEN /\ \E chunk \in SUBSET (compile.todo \ Cairo1) :
               compile' = [compile EXCEPT !.todo = @ \ (chunk \cup {n}), !.failed = TRUE]
          /\ build' = build
     ELSE /\ compile' = [compile EXCEPT !.todo = @ \ {n}]
          /\ build' = [build EXCEPT ![n] = source[n]]
  /\ UNCHANGED <<world, source, broken, first, hashes, declare, pool, chain, declarations, built>>

\* scarb build compiles the contracts of the package together.
CompileScarbPackage ==
  /\ compile.step = "compile"
  /\ compile.todo \cap Cairo1 # {}
  /\ compile' = [compile EXCEPT !.todo = @ \ Cairo1, !.failed = @ \/ Cairo1 \cap broken # {}]
  /\ build' = IF Cairo1 \cap broken # {} THEN build
              ELSE [n \in Name |-> IF n \in Cairo1 THEN source[n] ELSE build[n]]
  /\ UNCHANGED <<world, source, broken, first, hashes, declare, pool, chain, declarations, built>>

\* get_artifact: the first file the directory lists that matches the name.  (No file
\* of build/ssj does: see the head of the module.)
Artifact(n) ==
  LET matching == {m \in Pattern[n] : build[m] > 0}
  IN  IF first[n] \in matching THEN first[n] ELSE CHOOSE m \in matching : TRUE

HasArtifact(n) == \E m \in Pattern[n] : build[m] > 0
ArtifactClass(n) == [name |-> Artifact(n), version |-> build[Artifact(n)]]

\* Mutant of ComputeClassHashes: what could be compiled is hashed.
ComputeAvailableHashes ==
  /\ compile.step = "compile"
  /\ compile.todo = {}
  /\ compile' = IF \E n \in Name : ~HasArtifact(n) THEN Stopped
                ELSE [compile EXCEPT !.step = "dump", !.found = [n \in Name |-> ArtifactClass(n)]]
  /\ UNCHANGED <<world, source, broken, files, first, declare, pool, chain, built>>

\* Both pools have ended: an error of either is raised, otherwise the class hash of
\* every artifact is computed.
ComputeClassHashes ==
  /\ compile.step = "compile"
  /\ compile.todo = {}
  /\ compile' = IF compile.failed THEN Stopped
                ELSE [compile EXCEPT !.step = "dump", !.found = [n \in Name |-> ArtifactClass(n)]]
  /\ UNCHANGED <<world, source, broken, files, first, declare, pool, chain, built>>

\* dump_class_hashes opens the file, which empties it, and then writes it.
OpenClassHashes ==
  /\ compile.step = "dump"
  /\ compile' = [compile EXCEPT !.step = "write"]
  /\ hashes' = NoFile
  /\ UNCHANGED <<world, source, broken, build, first, declare, pool, chain, declarations, built>>

DumpClassHashes ==
  /\ compile.step = "write"
  /\ compile' = Stopped
  /\ hashes' = compile.found
  /\ built' = compile.from
  /\ UNCHANGED <<world, source, broken, build, first, declare, pool, chain, declarations>>

KillCompile ==
  /\ compile.step # "idle"
  /\ compile' = Stopped
  /\ UNCHANGED <<world, source, broken, files, first, declare, pool, chain, built>>

-----------------------------------------------------------------------------
(* uv run declare                                                          *)

StartDeclare ==
  /\ declare.step = "idle"
  /\ world.make => built # NoFile
  /\ declare' = [Quiet EXCEPT !.step = "next", !.from = built]
  /\ UNCHANGED <<world, source, broken, files, first, compile, pool, chain, built>>

Declared(hash) == [declare EXCEPT !.step = "next", !.found = Append(@, hash)]

\* declare, up to the transaction.  A missing artifact or hash raises.  The hash of
\* class_hashes.json decides whether the class is declared already.  The node
\* computes the hash of the class that is sent: it refuses the signature of a Cairo 0
\* declaration over another one, and a Cairo 1 class that is declared already.
Declare ==
  /\ declare.step = "next"
  /\ Len(declare.found) < Len(Contracts)
  /\ LET n == Contracts[Len(declare.found) + 1] IN
       \/ /\ n \notin DOMAIN hashes \/ ~HasArtifact(n)
          /\ declare' = Quiet
          /\ pool' = pool
       \/ /\ n \in DOMAIN hashes
          /\ HasArtifact(n)
          /\ hashes[n] \in chain
          /\ declare' = Declared(hashes[n])
          /\ pool' = pool
       \/ /\ n \in DOMAIN hashes
          /\ HasArtifact(n)
          /\ hashes[n] \notin chain
          /\ LET class == ArtifactClass(n)
                 refused == IF n \in Cairo1 THEN class \in chain \cup pool ELSE class # hashes[n]
             IN  /\ declare' = IF refused THEN Quiet
                               ELSE [declare EXCEPT !.step = "wait", !.expects = hashes[n], !.sent = class]
                 /\ pool' = IF refused THEN pool ELSE pool \cup {class}
  /\ UNCHANGED <<world, source, broken, files, first, compile, chain, built>>

\* Mutant of WaitDeclared: the transaction is not waited for.
WaitForNothing ==
  /\ declare.step = "wait"
  /\ declare' = Declared(declare.expects)
  /\ UNCHANGED <<world, source, broken, files, first, compile, pool, chain, built>>

\* The status of the transaction is logged only.  The hash of class_hashes.json is
\* what is returned; for Cairo 0 the node has confirmed it.
WaitDeclared ==
  /\ declare.step = "wait"
  /\ declare.sent \in chain \/ world.abandons
  /\ declare' = Declared(declare.expects)
  /\ UNCHANGED <<world, source, broken, files, first, compile, pool, chain, built>>

\* Mutant of DumpDeclarations: the file is written as the declarations go.
DumpAsDeclared ==
  /\ declare.step = "next"
  /\ declare' = IF Len(declare.found) = Len(Contracts) THEN [Quiet EXCEPT !.from = declare.from, !.done = TRUE]
                ELSE declare
  /\ declarations' =
       [n \in {Contracts[i] : i \in DOMAIN declare.found} |->
          declare.found[CHOOSE i \in DOMAIN Contracts : Contracts[i] = n]]
  /\ UNCHANGED <<world, source, broken, build, first, hashes, compile, pool, chain, built>>

DumpDeclarations ==
  /\ declare.step = "next"
  /\ Len(declare.found) = Len(Contracts)
  /\ declare' = [Quiet EXCEPT !.from = declare.from, !.done = TRUE]
  /\ declarations' =
       [n \in Name |-> declare.found[CHOOSE i \in DOMAIN Contracts : Contracts[i] = n]]
  /\ UNCHANGED <<world, source, broken, build, first, hashes, compile, pool, chain, built>>

KillDeclare ==
  /\ declare.step # "idle"
  /\ declare' = Quiet
  /\ UNCHANGED <<world, source, broken, files, first, compile, pool, chain, built>>

\* The node includes a declaration.
Include ==
  /\ \E class \in pool : chain' = chain \cup {class} /\ pool' = pool \ {class}
  /\ UNCHANGED <<world, source, broken, files, first, compile, declare, built>>

Next ==
  \/ \E n \in Name : Edit(n) \/ CompileCairoZeroContract(n)
  \/ StartCompile \/ CompileScarbPackage \/ ComputeClassHashes \/ OpenClassHashes
  \/ DumpClassHashes \/ KillCompile
  \/ StartDeclare \/ Declare \/ WaitDeclared \/ DumpDeclarations \/ KillDeclare
  \/ Include

Spec == Init /\ [][Next]_vars

-----------------------------------------------------------------------------
(* Properties                                                              *)

Partial(S, T) == [S -> T] \cup {NoFile}

TypeOK ==
  /\ build \in [Name -> 0..(MaxEdits + 1)]
  /\ hashes \in Partial(Name, Class)
  /\ declarations \in Partial(Name, Class)
  /\ pool \subseteq Class
  /\ chain \subseteq Class
  /\ compile.found \in Partial(Name, Class)
  /\ Len(declare.found) <= Len(Contracts)

\* Every class that declarations.json names can be deployed, whatever was killed, when
\* declare is run by make and waits for its transactions: declare returns the hash it
\* read, which need not be the one it sent.
DeclarationsAreOnChain ==
  world.make /\ ~world.abandons => \A n \in DOMAIN declarations : declarations[n] \in chain

\* make declare declares what is in the sources: when it has completed, and nothing
\* was edited since its compilation began, each name stands for its own class, unless
\* the glob of the name matches another artifact too.
MakeDeclaresSources ==
  world.make /\ declare.done /\ declare.from = source =>
    \A n \in Name : Pattern[n] = {n} => declarations[n] = [name |-> n, version |-> source[n]]

=============================================================================
