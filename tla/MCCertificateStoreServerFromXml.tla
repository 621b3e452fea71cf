------------------ MODULE MCCertificateStoreServerFromXml ------------------
(***************************************************************************)
(* Instances of CertificateStoreServerFromXml for TLC.                     *)
(***************************************************************************)
EXTENDS CertificateStoreServerFromXml, MCCertificateStoreStartup

(* Besides those of the startup: entries only the master can issue, one of  *)
(* them a client's certificate, and an authority below that client.         *)
XmlAuthorityEntries ==
  {RootCa, SubCa, E(root, root, "CA", p), E(ca, root, "CLIENT", q),
   E(NoName, root, "CA", p), E(ca, root, "CA", NoPassword),
   E(o1, leaf, "CLIENT", p), E(ca, o1, "CA", q), E(ca, leaf, "CA", q)}

XmlCertificateEntries ==
  {E(o1, root, "OCSP_SIGNING", p), E(o2, ca, "OCSP_SIGNING", NoPassword),
   E(o2, ca, "OCSP_SIGNING", p), E(leaf, o1, "SERVER", NoPassword),
   E(leaf, leaf, "SERVER", p), E(leaf, root, "UNKNOW", p), E(leaf, root, "CA", p)}

XmlConfigurations ==
  [authorities : ListsOf(XmlAuthorityEntries, 2),
   certificates : ListsOf(XmlCertificateEntries, 1),
   master : BOOLEAN]

(* The operator takes the master out or puts it in, or drops certificates.  *)
XmlRevisions ==
  [c \in Configurations |-> {[c EXCEPT !.master = ~c.master],
                             [c EXCEPT !.certificates = <<>>]}]
=============================================================================
