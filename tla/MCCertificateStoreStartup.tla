--------------------- MODULE MCCertificateStoreStartup ---------------------
(***************************************************************************)
(* Instances of CertificateStoreStartup for TLC.                           *)
(***************************************************************************)
EXTENDS CertificateStoreStartup

CONSTANTS root, ca, o1, o2, leaf, p, q

MCNames     == {root, ca, o1, o2, leaf}
MCPasswords == {p, q}

E(subject, issuer, type, password) ==
  [subject |-> subject, issuer |-> issuer, type |-> type, password |-> password]

RootCa == E(root, root, "SELF_SIGNED_CA", p)
SubCa  == E(ca, root, "INTERMEDIATE_CA", q)

(* Authorities lists of one and two entries: well formed ones, entries that *)
(* are refused, passed over, listed before their issuer or listed twice.    *)
AuthorityEntries ==
  {RootCa, SubCa,
   E(root, root, "CA", p), E(ca, root, "CLIENT", q), E(root, root, "SELF_SIGNED_CA", q),
   E(ca, NoName, "CA", p), E(ca, root, "CA", NoPassword)}

CertificateEntries ==
  {E(o1, root, "OCSP_SIGNING", p), E(leaf, ca, "SERVER", NoPassword),
   E(leaf, leaf, "SERVER", NoPassword), E(leaf, root, "CA", p),
   E(o1, root, "UNKNOW", p)}

ListsOf(S, n) == UNION {[1 .. k -> S] : k \in 0 .. n}

Broad ==
  [authorities : ListsOf(AuthorityEntries, 2),
   certificates : ListsOf(CertificateEntries, 2),
   master : BOOLEAN]

(* A hierarchy of two authorities with a signer each, and what an operator  *)
(* may turn it into: another password, one authority less, an entry that an *)
(* initialisation passes over and a load registers, a signer moved.         *)
Hierarchy == [authorities |-> <<RootCa, SubCa>>,
              certificates |-> <<E(o1, root, "OCSP_SIGNING", p),
                                 E(o2, ca, "OCSP_SIGNING", p),
                                 E(leaf, ca, "SERVER", NoPassword)>>,
              master |-> FALSE]

Edited ==
  {Hierarchy,
   [Hierarchy EXCEPT !.authorities = <<RootCa, [SubCa EXCEPT !.password = p]>>],
   [Hierarchy EXCEPT !.authorities = <<RootCa>>],
   [Hierarchy EXCEPT !.authorities = <<RootCa, E(ca, root, "SELF_SIGNED_CA", p),
                                       SubCa>>],
   [Hierarchy EXCEPT !.authorities = <<RootCa, RootCa>>, !.certificates = <<>>],
   [Hierarchy EXCEPT !.certificates = <<E(leaf, ca, "OCSP_SIGNING", p),
                                        E(o2, ca, "OCSP_SIGNING", p)>>],
   [Hierarchy EXCEPT !.certificates = <<>>, !.master = TRUE]}

AllRevisions == [c \in Configurations |-> Configurations]

(* Any of these; only the hierarchy's are edited, into one another.         *)
All == Broad \cup Edited

EditedRevisions == [c \in Configurations |-> IF c \in Edited THEN Edited ELSE {}]
=============================================================================
