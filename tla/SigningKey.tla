----------------------------- MODULE SigningKey -----------------------------
(***************************************************************************)
(* The receipt-signing key of a data directory: every process that builds  *)
(* an AuditPipeline there loads it or, the first time, creates it          *)
(* (TPMInterface._load_or_create; receipts._load_or_create_ephemeral_key   *)
(* has the same steps).  Looking for the file, reading it, creating it and *)
(* filling it are separate steps that nothing locks.                       *)
(*                                                                         *)
(* The n-th key ever generated is n.  write_bytes opens the file, which    *)
(* leaves it empty, and writes the 32 bytes at once: the file is missing,  *)
(* empty or holds a key, the one that was written last.                    *)
(***************************************************************************)
EXTENDS Naturals, FiniteSets

CONSTANT Processes

VARIABLES
    exists,         \* is there a key file
    content,        \* the key it holds, or NoKey when it is empty
    phase,          \* per process: how far its constructor has come
    key,            \* per process: the key in its memory
    generated,      \* number of keys generated so far
    used            \* the keys that signed a receipt

keyVars == <<exists, content, phase, key, generated, used>>

NoKey == 0

KeyInit ==
    /\ exists = FALSE
    /\ content = NoKey
    /\ phase = [p \in Processes |-> "down"]
    /\ key = [p \in Processes |-> NoKey]
    /\ generated = 0
    /\ used = {}

\* key_path.exists()
Look_Always(p) ==
    /\ phase[p] = "down"
    /\ phase' = [phase EXCEPT ![p] = "missing"]
    /\ UNCHANGED <<exists, content, key, generated, used>>
Look(p) ==
    /\ phase[p] = "down"
    /\ phase' = [phase EXCEPT ![p] = IF exists THEN "found" ELSE "missing"]
    /\ UNCHANGED <<exists, content, key, generated, used>>

\* read_bytes and from_private_bytes, which takes 32 bytes ...
Load(p) ==
    /\ phase[p] = "found" /\ content # NoKey
    /\ phase' = [phase EXCEPT ![p] = "up"]
    /\ key' = [key EXCEPT ![p] = content]
    /\ UNCHANGED <<exists, content, generated, used>>

\* ... and raises for an empty file: the pipeline is not constructed.
LoadFails_Recreates(p) ==
    /\ phase[p] = "found" /\ content = NoKey
    /\ phase' = [phase EXCEPT ![p] = "missing"]
    /\ UNCHANGED <<exists, content, key, generated, used>>
LoadFails(p) ==
    /\ phase[p] = "found" /\ content = NoKey
    /\ phase' = [phase EXCEPT ![p] = "down"]
    /\ UNCHANGED <<exists, content, key, generated, used>>

\* generate, mkdir, and the open of write_bytes.
Create(p) ==
    /\ phase[p] = "missing"
    /\ generated' = generated + 1
    /\ key' = [key EXCEPT ![p] = generated + 1]
    /\ exists' = TRUE
    /\ content' = NoKey
    /\ phase' = [phase EXCEPT ![p] = "writing"]
    /\ UNCHANGED used

\* The write of write_bytes; a chmod that fails is ignored.
Fill(p) ==
    /\ phase[p] = "writing"
    /\ content' = key[p]
    /\ phase' = [phase EXCEPT ![p] = "up"]
    /\ UNCHANGED <<exists, key, generated, used>>

\* The process ends or dies, or a step of the constructor raises.
Stop(p) ==
    /\ phase[p] # "down"
    /\ phase' = [phase EXCEPT ![p] = "down"]
    /\ key' = [key EXCEPT ![p] = NoKey]
    /\ UNCHANGED <<exists, content, generated, used>>

\* TPMInterface.sign
Sign(p) ==
    /\ phase[p] = "up"
    /\ used' = used \cup {key[p]}
    /\ UNCHANGED <<exists, content, phase, key, generated>>

ProcessStep(p) ==
    \/ Look(p) \/ Load(p) \/ LoadFails(p) \/ Create(p) \/ Fill(p) \/ Stop(p) \/ Sign(p)

KeyNext == \E p \in Processes : ProcessStep(p)

KeySpec == KeyInit /\ [][KeyNext]_keyVars

-----------------------------------------------------------------------------
KeyTypeOK ==
    /\ exists \in BOOLEAN
    /\ content \in Nat
    /\ phase \in [Processes -> {"down", "found", "missing", "writing", "up"}]
    /\ key \in [Processes -> Nat]
    /\ generated \in Nat
    /\ used \subseteq Nat

\* However many processes start at the same time, stop, die while writing and
\* start again, no more keys are ever used than there are processes: a single
\* process keeps one key for good ("a process restart ... reuses the same key
\* instead of minting a new one", receipts.py).
KeysAreFew == Cardinality(used) <= Cardinality(Processes)

\* There is a file and nobody is about to write it.
Settled == exists /\ \A p \in Processes : phase[p] \notin {"missing", "writing"}

\* From the moment the first starts are over the file never changes again, and
\* whoever starts uses the key it holds; nothing ever repairs a file that was
\* left empty, or replaces its key (_load_or_create).
SettledKeyIsFinal ==
    [][Settled =>
         /\ Settled' /\ content' = content
         /\ \A p \in Processes :
              phase[p] # "up" /\ phase'[p] = "up" => key'[p] = content]_keyVars
=============================================================================
