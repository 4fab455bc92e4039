-------------------------------- MODULE ZkKyc --------------------------------
(***************************************************************************)
(* contracts/src/zk_kyc.rs: the issuer registers a credential per agent;   *)
(* whoever presents a transcript that proves knowledge of its secret marks *)
(* the agent verified.  The Schnorr equation is taken as sound: only the   *)
(* holder of a credential's secret can make a transcript that it accepts.  *)
(*                                                                         *)
(* `transcripts' is what holders have made and is public from then on;     *)
(* `lastProven' is history: the credential an agent was last verified      *)
(* for.                                                                    *)
(***************************************************************************)
CONSTANTS
  Address,
  Issuer,       \* the authority set at init
  Agents,       \* addresses with a credential
  Credential,   \* credentials Y = x.B; knowing x is what is proved
  NoCredential

VARIABLES credentials, zk_verified, transcripts, lastProven

vars == <<credentials, zk_verified, transcripts, lastProven>>

(* Credentials, flags and transcripts keep their types.                    *)
TypeOK ==
  /\ credentials \in [Agents -> Credential \cup {NoCredential}]
  /\ zk_verified \in [Agents -> BOOLEAN]
  /\ transcripts \subseteq Credential
  /\ lastProven \in [Agents -> Credential \cup {NoCredential}]

Init ==
  /\ credentials = [a \in Agents |-> NoCredential]
  /\ zk_verified = [a \in Agents |-> FALSE]
  /\ transcripts = {}
  /\ lastProven = [a \in Agents |-> NoCredential]

(* agent/src/zk.ts: the holder of the secret makes a transcript.           *)
MakeTranscript(y) ==
  /\ transcripts' = transcripts \cup {y}
  /\ UNCHANGED <<credentials, zk_verified, lastProven>>

(* Mutant: a new credential leaves the flag as it was.                     *)
RegisterKeepingFlag(caller, agent, y) ==
  /\ caller = Issuer
  /\ credentials' = [credentials EXCEPT ![agent] = y]
  /\ UNCHANGED <<zk_verified, transcripts, lastProven>>

RegisterCredential(caller, agent, y) ==
  /\ caller = Issuer
  /\ credentials' = [credentials EXCEPT ![agent] = y]
  /\ zk_verified' = [zk_verified EXCEPT ![agent] = FALSE]
  /\ UNCHANGED <<transcripts, lastProven>>

Verifies(agent, y) == y = credentials[agent] /\ y \in transcripts

(* Anyone may submit a transcript; `ctx' is chosen by the submitter.       *)
ProveKyc(agent, y) ==
  /\ credentials[agent] # NoCredential
  /\ Verifies(agent, y)
  /\ zk_verified' = [zk_verified EXCEPT ![agent] = TRUE]
  /\ lastProven' = [lastProven EXCEPT ![agent] = y]
  /\ UNCHANGED <<credentials, transcripts>>

Next ==
  \/ \E y \in Credential : MakeTranscript(y)
  \/ \E a \in Agents, y \in Credential :
       \/ ProveKyc(a, y)
       \/ \E caller \in Address : RegisterCredential(caller, a, y)

Spec == Init /\ [][Next]_vars

-----------------------------------------------------------------------------

(* A verified agent is verified for the credential the issuer gave it last *)
(* and whose secret someone has shown to know: replacing a credential      *)
(* takes back what was proved of the old one (zk_kyc.rs:42-50, :57-88).    *)
VerifiedForTheLatestCredential ==
  \A a \in Agents :
    zk_verified[a] => /\ lastProven[a] = credentials[a]
                      /\ credentials[a] \in transcripts
=============================================================================
