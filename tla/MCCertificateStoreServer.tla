---------------------- MODULE MCCertificateStoreServer ----------------------
(***************************************************************************)
(* Instances of CertificateStoreServer for TLC.                            *)
(***************************************************************************)
EXTENDS CertificateStoreServer, TLC

CONSTANTS root, ca, leaf, p, c1, c2

MCNames == {root, ca, leaf}
Symmetry == Permutations(Connections)

RootCa == [subject |-> root, issuer |-> root, type |-> "SELF_SIGNED_CA", password |-> p]
SubCa  == [subject |-> ca, issuer |-> root, type |-> "INTERMEDIATE_CA", password |-> p]
Leaf   == [subject |-> leaf, issuer |-> ca, type |-> "CLIENT", password |-> NoPassword]

Base == [authorities |-> <<RootCa, SubCa>>, certificates |-> <<Leaf>>, master |-> FALSE]

(* The hierarchy root -> ca -> leaf, without and with a master.             *)
Hierarchies == {Base, [Base EXCEPT !.master = TRUE]}

(* An operator who drops the second authority from the file, or restores it.*)
Pruned == {Base, [Base EXCEPT !.authorities = <<RootCa>>]}

NoRevisions == [c \in Configurations |-> {}]
AllRevisions == [c \in Configurations |-> Configurations]

Item(subject, issuer, type) ==
  [subject |-> subject, issuer |-> issuer, type |-> type, complete |-> TRUE]

(* A server with nothing but a root of its own.                             *)
Standalone == {[authorities |-> <<RootCa>>, certificates |-> <<>>, master |-> FALSE]}

(* The second request fails at its second element: its issuer is no         *)
(* authority.                                                               *)
TwoElementRequests ==
  {<<Item(ca, root, "CA"), Item(leaf, root, "SERVER")>>,
   <<Item(leaf, root, "CLIENT"), Item(leaf, leaf, "CLIENT")>>}

Revocation(issuer, serial) ==
  [issuer |-> issuer, serial |-> serial, complete |-> TRUE]

(* Of the leaf, of the leaf and of the second authority, of the leaf under  *)
(* another issuer, of the leaf under the name of no authority, and two that *)
(* fail at their second element.                                            *)
SomeRevocationRequests ==
  {<<Revocation(ca, 3)>>,
   <<Revocation(ca, 3), Revocation(root, 2)>>,
   <<Revocation(root, 3)>>,
   <<Revocation(leaf, 3)>>,
   <<Revocation(ca, 3), Revocation(ca, 9)>>,
   <<Revocation(root, 2), [Revocation(ca, 3) EXCEPT !.complete = FALSE]>>}

FewRevocationRequests ==
  {<<Revocation(ca, 3), Revocation(root, 2)>>, <<Revocation(root, 3)>>}

(* The second request fails at its second element: a child of it is missing.*)
FewCertificateRequests ==
  {<<Item(leaf, ca, "CLIENT")>>,
   <<Item(ca, root, "CA"), [Item(leaf, ca, "SERVER") EXCEPT !.complete = FALSE]>>}

FewVerifyRequests  == {<<3>>}
SomeVerifyRequests == {<<>>, <<3>>, <<3, 2>>}
NoRequests == {}
=============================================================================
