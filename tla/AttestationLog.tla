---------------------------- MODULE AttestationLog ----------------------------
(***************************************************************************)
(* contracts/src/attestation_log.rs and the part of agent/src/attest.ts    *)
(* that signs: the agent signs the hash of a reasoning blob, and anyone    *)
(* may submit the signature with a decision text.  The same contract is    *)
(* the auditors' log, deployed a second time with another key.             *)
(*                                                                         *)
(* `log' is the contract's storage, a partial function of hashes.          *)
(* `signed' is history: when which key first signed which hash.            *)
(***************************************************************************)
EXTENDS Casper, FiniteSets

CONSTANTS
  Key,          \* Ed25519 keys
  AgentKey,     \* agent_pubkey, set at init
  Hash,         \* hashes of reasoning blobs
  Decision,     \* decision texts
  None          \* no entry

VARIABLES log, signed

logVars == <<log, signed>>
vars == <<now, logVars>>

(* What the constants must satisfy, assumed where the log is instantiated.  *)
LogAssumption ==
  /\ AgentKey \in Key
  /\ None \notin [decision : Decision, signer : Key, block_time : Instants]

(* Entries, signatures and block time keep their types.                    *)
TypeOK ==
  /\ now \in Instants
  /\ log \in [Hash -> [decision : Decision, signer : Key,
                       block_time : Instants] \cup {None}]
  /\ signed \subseteq Key \X Hash \X Instants

Init ==
  /\ now = GenesisTime
  /\ log = [h \in Hash |-> None]
  /\ signed = {}

HasSigned(key, hash) == \E t \in Instants : <<key, hash, t>> \in signed

(* The blob is hashed and the hash signed, off-chain.                      *)
Sign(key, hash) ==
  /\ ~HasSigned(key, hash)
  /\ signed' = signed \cup {<<key, hash, now>>}
  /\ UNCHANGED log

Attest(hash, decision, key) ==
  /\ HasSigned(key, hash)
  /\ key = AgentKey
  /\ log' = [log EXCEPT ![hash] = [decision |-> decision, signer |-> key,
                                   block_time |-> now]]
  /\ UNCHANGED signed

Call ==
  \E h \in Hash, k \in Key :
    \/ Sign(k, h)
    \/ \E d \in Decision : Attest(h, d, k)

Next ==
  \/ Call /\ UNCHANGED now
  \/ Tick /\ UNCHANGED logVars

Spec == Init /\ [][Next]_vars

-----------------------------------------------------------------------------

(* An entry of the log stands for a signature the registered agent key had *)
(* made by the time the entry bears, whoever submitted or resubmitted it   *)
(* (attestation_log.rs:53-70).                                             *)
EntriesWereSignedBefore ==
  \A h \in Hash :
    log[h] # None =>
      \E t \in Instants : /\ <<AgentKey, h, t>> \in signed
                          /\ t <= log[h].block_time
=============================================================================
