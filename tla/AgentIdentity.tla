--------------------------- MODULE AgentIdentity ---------------------------
(***************************************************************************)
(* The identity of an agent (openscreen-application, cert.rs): a           *)
(* certificate and its private key in two files of one directory.  A       *)
(* program loads both when it starts; when it cannot, it makes a new pair  *)
(* and writes the files one after the other, in place.                     *)
(*                                                                         *)
(* A program can stop at any point and be started again, and several       *)
(* programs can share the directory (its default is ".openscreen").  A     *)
(* certificate and a key are abstracted to the pair they were made in;     *)
(* Torn is a file between its truncation and the end of its write.         *)
(***************************************************************************)
EXTENDS Naturals

CONSTANTS
  Program,
  MaxIdentity,  \* bound on the pairs that are made
  ReadErrors,   \* reading an intact file can fail
  Missing, Torn

Identity == 1 .. MaxIdentity
File == Identity \cup {Missing, Torn}

ASSUME MaxIdentityAssumption == MaxIdentity \in Nat
ASSUME ReadErrorsAssumption == ReadErrors \in BOOLEAN
ASSUME FileAssumption ==
  Missing \notin Nat /\ Torn \notin Nat /\ Missing # Torn

VARIABLES
  cert, key,   \* cert.pem and key.pem
  pc,          \* how far the start of a program is
  held,        \* CertificateKey.cert_der and key_der
  made,        \* pairs made so far
  served,      \* history: the pairs programs have run with
  overlapped   \* history: two programs have looked for an identity at once

vars == <<cert, key, pc, held, made, served, overlapped>>

Reading == {"readCert", "readKey"}
Replacing == {"generate", "openCert", "writeCert", "openKey", "writeKey"}

Nothing == [cert |-> Missing, key |-> Missing]

TypeOK ==
  /\ cert \in File /\ key \in File
  /\ pc \in [Program -> {"off", "running"} \cup Reading \cup Replacing]
  /\ held \in [Program -> [cert : File, key : File]]
  /\ made \in 0 .. MaxIdentity
  /\ served \subseteq [cert : Identity, key : Identity]
  /\ overlapped \in BOOLEAN

Init ==
  /\ cert = Missing /\ key = Missing
  /\ pc = [p \in Program |-> "off"]
  /\ held = [p \in Program |-> Nothing]
  /\ made = 0
  /\ served = {}
  /\ overlapped = FALSE

Starting(p) == pc[p] \in Reading \cup Replacing

(* The files hold one pair. *)
Complete == key \in Identity /\ cert = key

----------------------------------------------------------------------------
(* load_from_pem: both files are read before either is parsed. *)

Start(p) ==
  /\ pc[p] = "off"
  /\ pc' = [pc EXCEPT ![p] = "readCert"]
  /\ overlapped' = \/ overlapped
                   \/ ~Complete /\ \E q \in Program \ {p} : Starting(q)
  /\ UNCHANGED <<cert, key, held, made, served>>

ReadCert(p) ==
  /\ pc[p] = "readCert"
  /\ cert # Missing
  /\ held' = [held EXCEPT ![p].cert = cert]
  /\ pc' = [pc EXCEPT ![p] = "readKey"]
  /\ UNCHANGED <<cert, key, made, served, overlapped>>

Run(p, pair) ==
  /\ held' = [held EXCEPT ![p] = pair]
  /\ pc' = [pc EXCEPT ![p] = "running"]
  /\ served' = served \cup {pair}

(* Mistake: files that exist are taken as they are. *)
Exist(pair) == pair.cert # Missing /\ pair.key # Missing

(* Mistake: the key is saved in a form that cannot be parsed. *)
NeverParse(pair) == FALSE

Parse(pair) == pair.cert \in Identity /\ pair.key \in Identity

Found(p) == [held[p] EXCEPT !.key = key]

ReadKey(p) ==
  /\ pc[p] = "readKey"
  /\ Parse(Found(p))
  /\ Run(p, Found(p))
  /\ UNCHANGED <<cert, key, made, overlapped>>

(* load_or_generate does not look at the error. *)
LoadFails(p) ==
  /\ \/ pc[p] = "readCert" /\ (ReadErrors \/ cert = Missing)
     \/ pc[p] = "readKey" /\ (ReadErrors \/ ~Parse(Found(p)))
  /\ pc' = [pc EXCEPT ![p] = "generate"]
  /\ held' = [held EXCEPT ![p] = Nothing]
  /\ UNCHANGED <<cert, key, made, served, overlapped>>

----------------------------------------------------------------------------
(* generate and save_to_pem: fs::write truncates the file, then fills it. *)

Generate(p) ==
  /\ pc[p] = "generate"
  /\ made < MaxIdentity
  /\ made' = made + 1
  /\ held' = [held EXCEPT ![p] = [cert |-> made + 1, key |-> made + 1]]
  /\ pc' = [pc EXCEPT ![p] = "openCert"]
  /\ UNCHANGED <<cert, key, served, overlapped>>

OpenCert(p) ==
  /\ pc[p] = "openCert"
  /\ cert' = Torn
  /\ pc' = [pc EXCEPT ![p] = "writeCert"]
  /\ UNCHANGED <<key, held, made, served, overlapped>>

(* Mistake: the program runs before its key is saved. *)
WriteCertAndRun(p) ==
  /\ pc[p] = "writeCert"
  /\ cert' = held[p].cert
  /\ Run(p, held[p])
  /\ UNCHANGED <<key, made, overlapped>>

WriteCert(p) ==
  /\ pc[p] = "writeCert"
  /\ cert' = held[p].cert
  /\ pc' = [pc EXCEPT ![p] = "openKey"]
  /\ UNCHANGED <<key, held, made, served, overlapped>>

OpenKey(p) ==
  /\ pc[p] = "openKey"
  /\ key' = Torn
  /\ pc' = [pc EXCEPT ![p] = "writeKey"]
  /\ UNCHANGED <<cert, held, made, served, overlapped>>

WriteKey(p) ==
  /\ pc[p] = "writeKey"
  /\ key' = held[p].key
  /\ Run(p, held[p])
  /\ UNCHANGED <<cert, made, overlapped>>

(* A crash, an error of a write, or the end of a running program. *)
Stop(p) ==
  /\ pc[p] # "off"
  /\ pc' = [pc EXCEPT ![p] = "off"]
  /\ held' = [held EXCEPT ![p] = Nothing]
  /\ UNCHANGED <<cert, key, made, served, overlapped>>

Load(p) == ReadCert(p) \/ ReadKey(p) \/ LoadFails(p)

Save(p) == OpenCert(p) \/ WriteCert(p) \/ OpenKey(p) \/ WriteKey(p)

Next == \E p \in Program :
          Start(p) \/ Load(p) \/ Generate(p) \/ Save(p) \/ Stop(p)

Spec == Init /\ [][Next]_vars

----------------------------------------------------------------------------
(* Properties *)

(* The certificate a program serves, whose fingerprint it advertises, is   *)
(* the one of its key, wherever earlier starts were cut off in             *)
(* save_to_pem().  Two programs that make an identity at once can mix it.  *)
LoadedPairMatches ==
  ~overlapped => \A p \in Program :
                   pc[p] = "running" => held[p].cert = held[p].key

(* "Preserves identity across restarts" (cert.rs, load_from_pem): once a   *)
(* program has run with a pair, every later start finds that pair.         *)
IdentityPersists == ~overlapped => \A a, b \in served : a = b

(* Nobody replaces the files. *)
Settled ==
  /\ Complete
  /\ \A p \in Program : pc[p] \notin Replacing
  /\ \A p \in Program : pc[p] = "readKey" => held[p].cert # Torn

(* A complete identity is not replaced, by whatever starts and crashes of  *)
(* any number of programs: load_or_generate() saves only what it could not *)
(* load.                                                                   *)
StoredIdentityStays == [][Settled => Settled' /\ cert' = cert]_vars
=============================================================================
