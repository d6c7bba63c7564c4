----------------------------- MODULE PlatformClaims -----------------------------
(***************************************************************************)
(* A statement that the repository makes about multisig proposals and that *)
(* the code does not keep: its run finds a counterexample.                 *)
(***************************************************************************)
EXTENDS MCPlatform

\* contracts/milestone-escrow/src/lib.rs, execute_admin_transfer: the record carries
\* the approvals next to the new_admin they authorize installing.  A transfer that
\* older code left without a record finds the record of a signer change under its
\* id, when the counter gets there.
InstallsWhatWasApproved ==
    [][\A t \in pendingTransfer:
          pendingTransfer' = {} /\ admin' # admin => records[t.id].subject = t.to]_vars
=============================================================================
