---------------------------- MODULE AgentProofs ----------------------------
(***************************************************************************)
(* Theorems about AgentIdentity, for every set of programs and any number  *)
(* of identities, crashes and restarts.                                    *)
(*                                                                         *)
(* The idea: while one program makes an identity, the key file is not a    *)
(* key from the moment the loading failed until the last write of the      *)
(* save; so a key in the file proves that the certificate beside it is its *)
(* own, and that nobody is about to replace either.                        *)
(***************************************************************************)
EXTENDS AgentIdentity, TLAPS

Saving == Replacing \ {"generate"}

(* A program in the middle of save_to_pem() holds the pair it has made, and *)
(* one in the middle of load_from_pem() holds what it has read.             *)
HeldInv ==
  \A p \in Program :
    /\ pc[p] \in Saving =>
         held[p].key \in Identity /\ held[p].cert = held[p].key
    /\ pc[p] = "readKey" => held[p].cert # Missing

TypeInv == TypeOK /\ HeldInv

(* What the files say ... *)
FilesInv ==
  /\ key \in Identity => cert = key
  /\ \A a \in served : Complete /\ a = [cert |-> cert, key |-> key]

(* ... and how far a start can be. *)
StartInv(p) ==
  /\ pc[p] \in Replacing => key \notin Identity
  /\ pc[p] = "readKey" => held[p].cert = cert
  /\ pc[p] \in {"openKey", "writeKey"} => cert = held[p].cert
  /\ pc[p] = "running" => held[p] \in served

OneStarts == \A p, q \in Program :
               Starting(p) /\ Starting(q) => p = q \/ Complete

Inv == FilesInv /\ (\A p \in Program : StartInv(p)) /\ OneStarts

IdentityInv == ~overlapped => Inv

----------------------------------------------------------------------------
(* Types *)

LEMMA InitTypes == Init => TypeInv
<1>. SUFFICES ASSUME Init PROVE TypeInv
  OBVIOUS
<1>1. held \in [Program -> [cert : File, key : File]]
  BY DEF Init, Nothing, File
<1>2. 0 \in 0 .. MaxIdentity
  BY MaxIdentityAssumption
<1>3. HeldInv
  BY DEF Init, HeldInv, Saving, Replacing
<1>. QED
  BY <1>1, <1>2, <1>3 DEF Init, TypeInv, TypeOK, File

LEMMA LoadTypes ==
  ASSUME TypeInv, NEW p \in Program, Start(p) \/ Load(p) \/ Stop(p)
  PROVE  TypeInv'
<1>. USE DEF TypeInv, TypeOK, HeldInv, File, Nothing, Saving, Replacing, Reading
<1>1. CASE Start(p)
  BY <1>1 DEF Start
<1>2. CASE ReadCert(p)
  BY <1>2 DEF ReadCert
<1>3. CASE ReadKey(p)
  BY <1>3 DEF ReadKey, Run, Found, Parse
<1>4. CASE LoadFails(p)
  BY <1>4 DEF LoadFails
<1>5. CASE Stop(p)
  BY <1>5 DEF Stop
<1>. QED
  BY <1>1, <1>2, <1>3, <1>4, <1>5 DEF Load

LEMMA SaveTypes ==
  ASSUME TypeInv, NEW p \in Program, Generate(p) \/ Save(p)
  PROVE  TypeInv'
<1>. USE DEF TypeInv, TypeOK, HeldInv, File, Saving, Replacing, Reading
<1>1. CASE Generate(p)
  <2>1. made + 1 \in Identity /\ made' \in 0 .. MaxIdentity
    BY <1>1, MaxIdentityAssumption DEF Generate, Identity
  <2>. QED
    BY <1>1, <2>1 DEF Generate
<1>2. CASE OpenCert(p)
  BY <1>2 DEF OpenCert
<1>3. CASE WriteCert(p)
  BY <1>3 DEF WriteCert
<1>4. CASE OpenKey(p)
  BY <1>4 DEF OpenKey
<1>5. CASE WriteKey(p)
  BY <1>5 DEF WriteKey, Run
<1>. QED
  BY <1>1, <1>2, <1>3, <1>4, <1>5 DEF Save

(* A step of any program keeps the types. *)
LEMMA NextTypes == TypeInv /\ [Next]_vars => TypeInv'
<1>. SUFFICES ASSUME TypeInv, [Next]_vars PROVE TypeInv'
  OBVIOUS
<1>1. CASE UNCHANGED vars
  BY <1>1 DEF vars, TypeInv, TypeOK, HeldInv
<1>2. ASSUME NEW p \in Program,
             Start(p) \/ Load(p) \/ Generate(p) \/ Save(p) \/ Stop(p)
      PROVE  TypeInv'
  BY <1>2, LoadTypes, SaveTypes
<1>. QED
  BY <1>1, <1>2 DEF Next

THEOREM TypesHold == Spec => []TypeInv
BY InitTypes, NextTypes, PTL DEF Spec

(* The pairs that programs run with are whole, whatever was torn by        *)
(* crashes or by two programs at once.                                     *)
THEOREM TypeCorrect == Spec => []TypeOK
<1>1. TypeInv => TypeOK
  BY DEF TypeInv
<1>. QED
  BY <1>1, TypesHold, PTL

----------------------------------------------------------------------------
(* One identity *)

LEMMA InitIdentity == Init => Inv
BY FileAssumption
   DEF Init, Inv, FilesInv, StartInv, OneStarts, Starting, Identity, Reading,
       Replacing, Complete

(* A start that finds no identity while another one looks for it counts    *)
(* as overlapping it.                                                      *)
LEMMA StartIdentity ==
  ASSUME TypeInv, Inv, NEW p \in Program, Start(p), ~overlapped'
  PROVE  Inv'
<1>1. FilesInv'
  BY DEF Inv, FilesInv, Start, Complete
<1>2. ASSUME NEW q \in Program PROVE StartInv(q)'
  BY DEF Inv, StartInv, Start, TypeInv, TypeOK, Replacing
<1>3. Complete' <=> Complete
  BY DEF Start, Complete
<1>4. \A q \in Program \ {p} : Starting(q)' <=> Starting(q)
  BY DEF Start, Starting, TypeInv, TypeOK
<1>5. Complete \/ \A q \in Program \ {p} : ~Starting(q)
  BY DEF Start
<1>6. OneStarts'
  BY <1>3, <1>4, <1>5 DEF OneStarts, Inv
<1>. QED
  BY <1>1, <1>2, <1>6 DEF Inv

(* Whoever is not starting does not start in a step of another kind. *)
LEMMA StillOne ==
  ASSUME OneStarts, Complete => Complete',
         \A q \in Program : Starting(q)' => Starting(q)
  PROVE  OneStarts'
BY DEF OneStarts

(* Loading: a key in the file was read with its own certificate, and a     *)
(* start that goes on to replace the files has seen that there is no key.  *)
LEMMA LoadIdentity ==
  ASSUME TypeInv, Inv, NEW p \in Program, Load(p) \/ Stop(p), ~ReadErrors
  PROVE  Inv'
<1>. USE DEF Load
<1>1. Complete' <=> Complete
  BY DEF ReadCert, ReadKey, LoadFails, Stop, Complete
<1>2. \A q \in Program : Starting(q)' => Starting(q)
  BY DEF ReadCert, ReadKey, LoadFails, Stop, Run, Starting, TypeInv, TypeOK,
         Reading, Replacing
<1>3. OneStarts'
  BY <1>1, <1>2, StillOne DEF Inv
<1>4. CASE ReadKey(p)
  <2>1. Found(p) = [cert |-> cert, key |-> key]
    BY <1>4 DEF ReadKey, Found, Inv, StartInv, TypeInv, TypeOK
  <2>2. Complete
    BY <1>4, <2>1 DEF ReadKey, Parse, Inv, FilesInv, Complete
  <2>3. FilesInv'
    BY <1>4, <2>1, <2>2 DEF ReadKey, Run, Inv, FilesInv, Complete
  <2>4. ASSUME NEW q \in Program PROVE StartInv(q)'
    BY <1>4 DEF ReadKey, Run, Inv, StartInv, TypeInv, TypeOK, Replacing
  <2>. QED
    BY <1>3, <2>3, <2>4 DEF Inv
<1>5. CASE LoadFails(p)
  <2>1. key \notin Identity
    <3>1. CASE pc[p] = "readCert" /\ cert = Missing
      BY <3>1, FileAssumption DEF Inv, FilesInv, Identity
    <3>2. CASE pc[p] = "readKey" /\ ~Parse(Found(p))
      <4>1. Found(p) = [cert |-> cert, key |-> key]
        BY <3>2 DEF Found, Inv, StartInv, TypeInv, TypeOK
      <4>. QED
        BY <3>2, <4>1 DEF Parse, Inv, FilesInv
    <3>. QED
      BY <1>5, <3>1, <3>2 DEF LoadFails
  <2>2. FilesInv'
    BY <1>5 DEF LoadFails, Inv, FilesInv, Complete
  <2>3. ASSUME NEW q \in Program PROVE StartInv(q)'
    BY <1>5, <2>1 DEF LoadFails, Inv, StartInv, TypeInv, TypeOK, Replacing
  <2>. QED
    BY <1>3, <2>2, <2>3 DEF Inv
<1>6. CASE ReadCert(p) \/ Stop(p)
  <2>1. FilesInv'
    BY <1>6 DEF ReadCert, Stop, Inv, FilesInv, Complete
  <2>2. ASSUME NEW q \in Program PROVE StartInv(q)'
    BY <1>6 DEF ReadCert, Stop, Inv, StartInv, TypeInv, TypeOK, Replacing
  <2>. QED
    BY <1>3, <2>1, <2>2 DEF Inv
<1>. QED
  BY <1>4, <1>5, <1>6

(* Saving: there is no key, so the program that saves is the only one that *)
(* starts, and nobody has run with anything yet.                           *)
LEMMA SaveIdentity ==
  ASSUME TypeInv, Inv, NEW p \in Program, Generate(p) \/ Save(p)
  PROVE  Inv'
<1>. USE DEF Save
<1>1. pc[p] \in Replacing /\ Starting(p)
  BY DEF Generate, OpenCert, WriteCert, OpenKey, WriteKey, Replacing, Starting
<1>2. key \notin Identity /\ ~Complete /\ served = {}
  BY <1>1 DEF Inv, StartInv, FilesInv, Complete
<1>3. \A q \in Program \ {p} : ~Starting(q)
  BY <1>1, <1>2 DEF Inv, OneStarts
<1>4. \A q \in Program : Starting(q)' => Starting(q)
  BY DEF Generate, OpenCert, WriteCert, OpenKey, WriteKey, Run, Starting,
         TypeInv, TypeOK, Reading, Replacing
<1>5. OneStarts'
  BY <1>2, <1>4, StillOne DEF Inv
<1>6. CASE Generate(p) \/ OpenCert(p) \/ WriteCert(p) \/ OpenKey(p)
  <2>1. key' \notin Identity
    BY <1>2, <1>6, FileAssumption
       DEF Generate, OpenCert, WriteCert, OpenKey, Identity
  <2>2. FilesInv'
    BY <1>2, <1>6, <2>1
       DEF Generate, OpenCert, WriteCert, OpenKey, FilesInv
  <2>3. ASSUME NEW q \in Program \ {p} PROVE StartInv(q)'
    BY <1>2, <1>3, <1>6
       DEF Generate, OpenCert, WriteCert, OpenKey, Inv, StartInv, Starting,
           TypeInv, TypeOK, Reading, Replacing
  <2>4. StartInv(p)'
    BY <1>6, <2>1
       DEF Generate, OpenCert, WriteCert, OpenKey, Inv, StartInv, TypeInv,
           TypeOK
  <2>. QED
    BY <1>5, <2>2, <2>3, <2>4 DEF Inv
<1>7. CASE WriteKey(p)
  <2>1. key' \in Identity /\ cert' = key' /\ held[p] = [cert |-> cert', key |-> key']
    BY <1>7 DEF WriteKey, Run, Inv, StartInv, TypeInv, TypeOK, HeldInv,
                Saving, Replacing
  <2>2. FilesInv'
    BY <1>2, <1>7, <2>1 DEF WriteKey, Run, FilesInv, Complete
  <2>3. ASSUME NEW q \in Program \ {p} PROVE StartInv(q)'
    BY <1>2, <1>3, <1>7
       DEF WriteKey, Run, Inv, StartInv, Starting, TypeInv, TypeOK, Reading,
           Replacing
  <2>4. StartInv(p)'
    BY <1>7 DEF WriteKey, Run, StartInv, TypeInv, TypeOK, Replacing
  <2>. QED
    BY <1>5, <2>2, <2>3, <2>4 DEF Inv
<1>. QED
  BY <1>6, <1>7

(* Every step keeps the identity, as long as no two starts overlap. *)
LEMMA NextIdentity ==
  ASSUME ReadErrors = FALSE
  PROVE  TypeInv /\ IdentityInv /\ [Next]_vars => IdentityInv'
<1>. SUFFICES ASSUME TypeInv, IdentityInv, [Next]_vars, ~overlapped' PROVE Inv'
  BY DEF IdentityInv
<1>1. CASE UNCHANGED vars
  BY <1>1 DEF vars, IdentityInv, Inv, FilesInv, StartInv, OneStarts, Starting,
              Complete
<1>2. ASSUME NEW p \in Program,
             Start(p) \/ Load(p) \/ Generate(p) \/ Save(p) \/ Stop(p)
      PROVE  Inv'
  <2>1. ~overlapped
    BY <1>2 DEF Start, Load, Generate, Save, Stop, ReadCert, ReadKey, LoadFails,
                OpenCert, WriteCert, OpenKey, WriteKey
  <2>2. Inv
    BY <2>1 DEF IdentityInv
  <2>. QED
    BY <1>2, <2>2, StartIdentity, LoadIdentity, SaveIdentity
<1>. QED
  BY <1>1, <1>2 DEF Next

THEOREM IdentityHolds ==
  ASSUME ReadErrors = FALSE
  PROVE  Spec => []IdentityInv
<1>1. Init => IdentityInv
  BY InitIdentity DEF IdentityInv
<1>2. TypeInv /\ IdentityInv /\ [Next]_vars => IdentityInv'
  BY NextIdentity
<1>. QED
  BY <1>1, <1>2, TypesHold, PTL DEF Spec

(* The certificate a program serves belongs to its key, after any crashes. *)
THEOREM PairsMatch ==
  ASSUME ReadErrors = FALSE
  PROVE  Spec => []LoadedPairMatches
<1>1. IdentityInv => LoadedPairMatches
  <2>. SUFFICES ASSUME IdentityInv, ~overlapped, NEW p \in Program,
                       pc[p] = "running"
                PROVE  held[p].cert = held[p].key
    BY DEF LoadedPairMatches
  <2>. QED
    BY DEF IdentityInv, Inv, FilesInv, StartInv, Complete
<1>. QED
  BY <1>1, IdentityHolds, PTL

(* An agent has one identity, across restarts and crashes. *)
THEOREM OneIdentity ==
  ASSUME ReadErrors = FALSE
  PROVE  Spec => []IdentityPersists
<1>1. IdentityInv => IdentityPersists
  BY DEF IdentityInv, Inv, FilesInv, IdentityPersists
<1>. QED
  BY <1>1, IdentityHolds, PTL

(* A complete identity that nobody is replacing is never replaced. *)
THEOREM IdentityStays ==
  ASSUME ReadErrors = FALSE
  PROVE  Spec => StoredIdentityStays
<1>1. TypeInv /\ [Next]_vars => [Settled => Settled' /\ cert' = cert]_vars
  <2>. SUFFICES ASSUME TypeInv, Settled, Next PROVE Settled' /\ cert' = cert
    BY DEF vars
  <2>1. PICK p \in Program :
          Start(p) \/ Load(p) \/ Generate(p) \/ Save(p) \/ Stop(p)
    BY DEF Next
  <2>2. ~Generate(p) /\ ~Save(p)
    BY DEF Settled, Generate, Save, OpenCert, WriteCert, OpenKey, WriteKey,
           Replacing
  <2>3. ~LoadFails(p)
    <3>1. cert \in Identity /\ cert # Missing /\ key = cert
      BY FileAssumption DEF Settled, Complete, Identity
    <3>. SUFFICES ASSUME pc[p] = "readKey", ~Parse(Found(p)) PROVE FALSE
      BY <3>1 DEF LoadFails
    <3>. QED
      BY <3>1 DEF Settled, Found, Parse, TypeInv, TypeOK, HeldInv, File
  <2>4. cert' = cert /\ key' = key
    BY <2>1, <2>2, <2>3 DEF Load, Start, ReadCert, ReadKey, Stop
  <2>5. \A q \in Program : pc'[q] \notin Replacing
    BY <2>1, <2>2, <2>3
       DEF Load, Start, ReadCert, ReadKey, Run, Stop, Settled, TypeInv, TypeOK,
           Replacing
  <2>6. cert # Torn
    BY FileAssumption DEF Settled, Complete, Identity
  <2>7. \A q \in Program : pc'[q] = "readKey" => held'[q].cert # Torn
    BY <2>1, <2>2, <2>3, <2>6
       DEF Load, Start, ReadCert, ReadKey, Run, Stop, Settled, TypeInv, TypeOK
  <2>. QED
    BY <2>4, <2>5, <2>7 DEF Settled, Complete
<1>. QED
  BY <1>1, TypesHold, PTL DEF Spec, StoredIdentityStays
=============================================================================
