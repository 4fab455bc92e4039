-------------------------- MODULE ComplianceRegistry --------------------------
(***************************************************************************)
(* contracts/src/compliance_registry.rs: the KYC status of an address.     *)
(* The identity hash stored beside a status is data no contract reads, and *)
(* the reason code is not stored by the code either; both are left out.    *)
(***************************************************************************)
CONSTANTS
  Address,
  Registrar,   \* the deployer, ComplianceRegistry.owner
  Subjects     \* addresses whose status the registrar sets

VARIABLE status

Status == {"Pending", "Valid", "Revoked"}

TypeOK == status \in [Address -> Status]

Init == status = [a \in Address |-> "Pending"]

AssertValid(addr) == status[addr] = "Valid"

SetStatus(caller, addr, s) ==
  /\ caller = Registrar
  /\ status' = [status EXCEPT ![addr] = s]

Revoke(caller, addr) ==
  /\ caller = Registrar
  /\ status' = [status EXCEPT ![addr] = "Revoked"]

Call(caller) ==
  \E a \in Subjects :
    \/ \E s \in Status : SetStatus(caller, a, s)
    \/ Revoke(caller, a)

Next == \E caller \in Address : Call(caller)

Spec == Init /\ [][Next]_status

(* "Permanently blocked." (common.rs:39): an address whose status is       *)
(* Revoked stays blocked.                                                  *)
RevokedIsPermanent ==
  [][ \A a \in Address : status[a] = "Revoked" => status'[a] = "Revoked" ]_status
=============================================================================
