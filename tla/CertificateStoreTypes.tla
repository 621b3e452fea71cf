----------------------- MODULE CertificateStoreTypes -----------------------
(***************************************************************************)
(* The vocabulary shared by the modules of the certificate store server:   *)
(* certificate types, configuration entries, the rows the database keeps,  *)
(* and std::map::insert.                                                   *)
(***************************************************************************)
EXTENDS Naturals, Sequences, FiniteSets

CONSTANTS
  Names,        (* the common names a configuration or a request may hold   *)
  Passwords,    (* the private key passwords                                *)
  NoName,       (* the empty common name                                    *)
  NoPassword    (* the empty password                                       *)

ASSUME NamesAssumption == NoName \notin Names
ASSUME PasswordsAssumption == NoPassword \notin Passwords

(* Utilities::certificateType, reduced to the values the server's control   *)
(* flow tells apart.                                                        *)
CertificateType ==
  {"UNKNOW", "SELF_SIGNED_CA", "CA", "INTERMEDIATE_CA", "SERVER", "CLIENT",
   "OCSP_SIGNING"}

(* x509CertificateTools::isCertificateAnAuthority                           *)
AuthorityType == {"SELF_SIGNED_CA", "CA", "INTERMEDIATE_CA"}

(* One <defaultCertificateAuthority> or <defaultCertificate> element.       *)
Entry == [subject  : Names \cup {NoName},
          issuer   : Names \cup {NoName},
          type     : CertificateType,
          password : Passwords \cup {NoPassword}]

(* A row of the certificate table; its index in the table is its database   *)
(* identifier and stands for its serial number as well.  signer is the row  *)
(* whose private key signed it, issuer the name the certificate gives it.   *)
Row == [subject : Names \cup {NoName},
        issuer  : Names \cup {NoName},
        type    : CertificateType,
        signer  : Nat]

CertificateRow(subject, issuer, type, signer) ==
  [subject |-> subject, issuer |-> issuer, type |-> type, signer |-> signer]

EmptyMap == [x \in {} |-> {}]

(* std::map::insert: a key that is present keeps its value.                 *)
Insert(map, key, value) ==
  [k \in DOMAIN map \cup {key} |->
     IF k \in DOMAIN map THEN map[k] ELSE value]

(* The identifiers of the rows of table t that the database's lookups by    *)
(* name may return: of an authority, of any other certificate.              *)
AuthorityIds(t, name) ==
  {i \in DOMAIN t : t[i].subject = name /\ t[i].type \in AuthorityType}

CertificateIds(t, name) ==
  {i \in DOMAIN t : t[i].subject = name /\ t[i].type \notin AuthorityType}
=============================================================================
