------------------- MODULE CertificateStoreStartupProofs -------------------
(***************************************************************************)
(* Theorems about CertificateStoreStartup, for every set of names,         *)
(* passwords and configurations: the type invariant, the agreement of the  *)
(* maps with each other and with the database, and the well-foundedness of *)
(* what the database holds.                                                *)
(***************************************************************************)
EXTENDS CertificateStoreStartup, TLAPS

(* Between the request and the certificate of an authority, the entry is    *)
(* still one that a registered authority signs.                             *)
SigningAgrees ==
  phase = "signing" =>
    /\ entry <= Len(config.authorities)
    /\ Authority.issuer \in DOMAIN caIndex
    /\ Authority.type \in {"CA", "INTERMEDIATE_CA"}

(* No map survives the process, so none refers to the tables that           *)
(* initializeDatabase is about to drop.                                     *)
RegistryEmpty ==
  phase = "initializing" =>
    /\ DOMAIN caPassword = {} /\ DOMAIN caIndex = {}
    /\ DOMAIN ocspPassword = {} /\ DOMAIN ocspIndex = {}
    /\ DOMAIN caOcsp = {}

IInv == /\ TypeOK
        /\ RegistryAgrees
        /\ IssuedByAuthority
        /\ SigningAgrees
        /\ RegistryEmpty

-----------------------------------------------------------------------------
(* The operators the model is built from.                                  *)

(* A row appended to the table keeps every identifier a lookup by name may  *)
(* return, and adds its own.                                                *)
LEMMA AppendIds ==
  ASSUME NEW t \in Seq(Row), NEW r \in Row
  PROVE  /\ Append(t, r) \in Seq(Row)
         /\ DOMAIN Append(t, r) = DOMAIN t \cup {Len(t) + 1}
         /\ Len(t) + 1 \notin DOMAIN t
         /\ \A i \in DOMAIN t : Append(t, r)[i] = t[i] /\ i < Len(t) + 1
         /\ Append(t, r)[Len(t) + 1] = r
         /\ \A n : AuthorityIds(t, n) \subseteq AuthorityIds(Append(t, r), n)
         /\ \A n : CertificateIds(t, n) \subseteq CertificateIds(Append(t, r), n)
<1>1. /\ Append(t, r) \in Seq(Row)
      /\ DOMAIN t = 1 .. Len(t)
      /\ DOMAIN Append(t, r) = 1 .. Len(t) + 1
      /\ Len(t) \in Nat
  OBVIOUS
<1>2. \A i \in 1 .. Len(t) : Append(t, r)[i] = t[i]
  OBVIOUS
<1>3. Append(t, r)[Len(t) + 1] = r
  OBVIOUS
<1>4. QED
  BY <1>1, <1>2, <1>3 DEF AuthorityIds, CertificateIds

(* A registered authority keeps the maps in agreement when its index is     *)
(* that of an authority of its name.                                        *)
LEMMA RegisterAuthorityAgrees ==
  ASSUME NEW name, NEW password, NEW id,
         RegistryAgrees,
         RegisterAuthority(name, password, id),
         id \in AuthorityIds(certificates', name),
         \A n : AuthorityIds(certificates, n) \subseteq AuthorityIds(certificates', n),
         \A n : CertificateIds(certificates, n) \subseteq CertificateIds(certificates', n)
  PROVE  RegistryAgrees'
<1>1. /\ DOMAIN caPassword' = DOMAIN caPassword \cup {name}
      /\ DOMAIN caIndex' = DOMAIN caIndex \cup {name}
      /\ \A n \in DOMAIN caIndex : caIndex'[n] = caIndex[n]
      /\ name \notin DOMAIN caIndex => caIndex'[name] = id
  BY DEF RegisterAuthority, Insert
<1>2. \A n \in DOMAIN caIndex' : caIndex'[n] \in AuthorityIds(certificates', n)
  BY <1>1 DEF RegistryAgrees
<1>3. QED
  BY <1>1, <1>2 DEF RegistryAgrees, RegisterAuthority

LEMMA RegisterOcspAgrees ==
  ASSUME NEW issuer, NEW name, NEW password, NEW id,
         RegistryAgrees,
         RegisterOcsp(issuer, name, password, id),
         id \in CertificateIds(certificates', name),
         \A n : AuthorityIds(certificates, n) \subseteq AuthorityIds(certificates', n),
         \A n : CertificateIds(certificates, n) \subseteq CertificateIds(certificates', n)
  PROVE  RegistryAgrees'
<1>1. /\ DOMAIN ocspPassword' = DOMAIN ocspPassword \cup {name}
      /\ DOMAIN ocspIndex' = DOMAIN ocspIndex \cup {name}
      /\ \A n \in DOMAIN ocspIndex : ocspIndex'[n] = ocspIndex[n]
      /\ name \notin DOMAIN ocspIndex => ocspIndex'[name] = id
  BY DEF RegisterOcsp, Insert
<1>2. /\ DOMAIN caOcsp' = DOMAIN caOcsp \cup {issuer}
      /\ \A n \in DOMAIN caOcsp : caOcsp'[n] = caOcsp[n]
      /\ issuer \notin DOMAIN caOcsp => caOcsp'[issuer] = name
  BY DEF RegisterOcsp, Insert
<1>3. \A n \in DOMAIN ocspIndex' : ocspIndex'[n] \in CertificateIds(certificates', n)
  BY <1>1 DEF RegistryAgrees
<1>4. \A n \in DOMAIN caOcsp' : caOcsp'[n] \in DOMAIN ocspPassword'
  BY <1>1, <1>2 DEF RegistryAgrees
<1>5. QED
  BY <1>1, <1>3, <1>4 DEF RegistryAgrees, RegisterOcsp

(* A certificate signed by an authority of the table keeps the table        *)
(* well-founded, and so does a self-signed authority.                       *)
LEMMA AppendIssued ==
  ASSUME certificates \in Seq(Row), IssuedByAuthority,
         NEW subject \in Names \cup {NoName}, NEW issuer \in Names \cup {NoName},
         NEW type \in CertificateType, NEW signer,
         \/ signer \in AuthorityIds(certificates, issuer)
         \/ /\ signer = Len(certificates) + 1
            /\ issuer = subject
            /\ type = "SELF_SIGNED_CA",
         certificates' = Append(certificates,
                                CertificateRow(subject, issuer, type, signer))
  PROVE  IssuedByAuthority'
<1> DEFINE row == CertificateRow(subject, issuer, type, signer)
<1>1. /\ row \in Row
      /\ row.subject = subject /\ row.issuer = issuer
      /\ row.type = type /\ row.signer = signer
  BY DEF CertificateRow, Row, AuthorityIds
<1> HIDE DEF row
<1>2. certificates' = Append(certificates, row)
  BY DEF row
<1>3. SUFFICES ASSUME NEW i \in DOMAIN certificates'
               PROVE  /\ certificates'[i].signer
                           \in AuthorityIds(certificates', certificates'[i].issuer)
                      /\ IF certificates'[i].signer = i
                         THEN certificates'[i].type = "SELF_SIGNED_CA"
                         ELSE certificates'[i].signer < i
  BY DEF IssuedByAuthority
<1>4. CASE i \in DOMAIN certificates
  BY <1>1, <1>2, <1>4, AppendIds DEF IssuedByAuthority
<1>5. CASE i \notin DOMAIN certificates
  <2>1. i = Len(certificates) + 1 /\ certificates'[i] = row
    BY <1>1, <1>2, <1>5, AppendIds
  <2>2. CASE signer \in AuthorityIds(certificates, issuer)
    <3>1. signer \in DOMAIN certificates /\ signer < i
      BY <2>1, <2>2, <1>1, AppendIds DEF AuthorityIds
    <3>2. signer \in AuthorityIds(certificates', issuer)
      BY <2>2, <1>1, <1>2, AppendIds
    <3>3. i \in Nat /\ signer \in Nat
      BY <3>1, <2>1
    <3>4. QED
      BY <3>1, <3>2, <3>3, <2>1, <1>1
  <2>3. CASE /\ signer = Len(certificates) + 1
             /\ issuer = subject
             /\ type = "SELF_SIGNED_CA"
    <3>1. signer \in AuthorityIds(certificates', issuer)
      BY <2>1, <2>3, <1>1 DEF AuthorityIds, AuthorityType
    <3>2. QED
      BY <3>1, <2>1, <2>3, <1>1
  <2>4. QED
    BY <2>2, <2>3
<1>6. QED
  BY <1>4, <1>5

-----------------------------------------------------------------------------
(* The entry a loop is at is an entry of the configuration.                 *)
LEMMA EntryTyped ==
  ASSUME TypeOK
  PROVE  /\ entry <= Len(config.authorities) => Authority \in Entry
         /\ entry <= Len(config.certificates) => Certificate \in Entry
<1>1. config.authorities \in Seq(Entry) /\ config.certificates \in Seq(Entry)
  BY ConfigurationsAssumption DEF TypeOK, Configuration
<1>2. entry \in Nat \ {0}
  BY DEF TypeOK
<1>3. QED
  BY <1>1, <1>2 DEF Authority, Certificate

(* A step that changes neither the table of certificates nor the maps.      *)
LEMMA NothingRegistered ==
  ASSUME RegistryAgrees, IssuedByAuthority,
         UNCHANGED <<certificates, caPassword, caIndex, ocspPassword,
                     ocspIndex, caOcsp>>
  PROVE  RegistryAgrees' /\ IssuedByAuthority'
  BY DEF RegistryAgrees, IssuedByAuthority

(* A row typed by the entry it is generated for.                            *)
LEMMA RowTyped ==
  ASSUME NEW subject \in Names \cup {NoName}, NEW issuer \in Names \cup {NoName},
         NEW type \in CertificateType, NEW signer \in Nat
  PROVE  CertificateRow(subject, issuer, type, signer) \in Row
  BY DEF CertificateRow, Row

-----------------------------------------------------------------------------
(* The operator's steps, and the crash.                                     *)
LEMMA OperatorPreserves ==
  ASSUME IInv,
         (\E m \in {"initialize", "load"} : Start(m)) \/ EditConfiguration \/ Crash
  PROVE  IInv'
<1>1. CASE \E m \in {"initialize", "load"} : Start(m)
  <2>1. TypeOK'
    <3>1. /\ UNCHANGED <<certificates, requests, revoked, config, failures>>
          /\ mode' \in {"initialize", "load"}
          /\ phase' \in Phase
          /\ entry' = 1 /\ exit' = "none"
      BY <1>1 DEF Start, database, Phase
    <3>2. ocspOnline' \in BOOLEAN /\ faulted' \in BOOLEAN /\ initialized' \in BOOLEAN
      BY <1>1, Zenon DEF Start
    <3>3. QED
      BY <3>1, <3>2 DEF IInv, TypeOK
  <2>2. RegistryAgrees' /\ RegistryEmpty' /\ SigningAgrees'
    BY <1>1 DEF Start, RegistryAgrees, RegistryEmpty, SigningAgrees, EmptyMap
  <2>3. IssuedByAuthority'
    BY <1>1 DEF IInv, IssuedByAuthority, Start, database
  <2>4. QED
    BY <2>1, <2>2, <2>3 DEF IInv
<1>2. CASE EditConfiguration
  <2>1. RegistryAgrees' /\ IssuedByAuthority'
    BY <1>2, NothingRegistered DEF IInv, EditConfiguration, database, registry
  <2>2. TypeOK' /\ RegistryEmpty' /\ SigningAgrees'
    BY <1>2, ConfigurationsAssumption
    DEF IInv, TypeOK, EditConfiguration, database, registry, history,
        RegistryEmpty, SigningAgrees
  <2>3. QED
    BY <2>1, <2>2 DEF IInv
<1>3. CASE Crash
  <2>1. RegistryAgrees' /\ IssuedByAuthority'
    BY <1>3, NothingRegistered DEF IInv, Crash, database, registry
  <2>2. TypeOK' /\ RegistryEmpty' /\ SigningAgrees'
    BY <1>3 DEF IInv, TypeOK, Crash, database, registry, history, Phase,
                RegistryEmpty, SigningAgrees
  <2>3. QED
    BY <2>1, <2>2 DEF IInv
<1>4. QED
  BY <1>1, <1>2, <1>3

(* initializeDatabase drops the tables before anything refers to them.      *)
LEMMA InitializePreserves ==
  ASSUME IInv, InitializeDatabase
  PROVE  IInv'
<1>1. TypeOK'
  <2>1. /\ certificates' \in Seq(Row)
        /\ requests' \in Seq(Names \cup {NoName})
        /\ revoked' \subseteq DOMAIN certificates'
    <3>1. \/ certificates' = <<>> /\ requests' = <<>> /\ revoked' = {}
          \/ UNCHANGED <<certificates, requests, revoked>>
      BY Zenon DEF InitializeDatabase, database
    <3>2. /\ certificates \in Seq(Row)
          /\ requests \in Seq(Names \cup {NoName})
          /\ revoked \subseteq DOMAIN certificates
      BY DEF IInv, TypeOK
    <3>3. <<>> \in Seq(Row) /\ <<>> \in Seq(Names \cup {NoName})
      OBVIOUS
    <3>4. QED
      BY <3>1, <3>2, <3>3
  <2>2. /\ UNCHANGED <<config, mode, entry, ocspOnline, exit>>
        /\ phase' \in Phase
    BY DEF InitializeDatabase, registry, Phase
  <2>3. failures' \in 0 .. MaxFailures
    BY MaxFailuresAssumption DEF IInv, TypeOK, InitializeDatabase, Fail, NoFailure
  <2>4. faulted' \in BOOLEAN /\ initialized' \in BOOLEAN
    BY Zenon DEF IInv, TypeOK, InitializeDatabase, Fail, NoFailure
  <2>5. QED
    BY <2>1, <2>2, <2>3, <2>4 DEF IInv, TypeOK
<1>2. RegistryAgrees' /\ SigningAgrees' /\ RegistryEmpty'
  BY DEF IInv, InitializeDatabase, RegistryEmpty, RegistryAgrees, SigningAgrees,
         registry
<1>3. IssuedByAuthority'
  BY DEF IInv, InitializeDatabase, IssuedByAuthority, database
<1>4. QED
  BY <1>1, <1>2, <1>3 DEF IInv

(* Steps of the main thread that store no certificate.                      *)
LEMMA QuietPreserves ==
  ASSUME IInv,
         \/ RejectAuthority \/ SkipAuthority \/ RequestAuthority
         \/ RequestAuthorityFromMaster \/ LoadAuthorityThrows \/ AuthoritiesDone
         \/ RejectCertificate \/ SkipCertificate \/ RequestCertificateFromMaster
         \/ LoadOcspThrows \/ CertificatesDone \/ CheckOcsp
         \/ PublishRevocationLists
  PROVE  IInv'
<1> USE DEF database, registry, history, AtAuthority, AtCertificate, Throw,
            Fail, NoFailure
<1>1. /\ UNCHANGED <<certificates, revoked, config, mode, caPassword, caIndex,
                     ocspPassword, ocspIndex, caOcsp>>
      /\ phase # "initializing" /\ phase' # "initializing"
  BY DEF RejectAuthority, SkipAuthority, RequestAuthority,
         RequestAuthorityFromMaster, RequestFromMaster, LoadAuthorityThrows,
         AuthoritiesDone, RejectCertificate, SkipCertificate,
         RequestCertificateFromMaster, LoadOcspThrows, CertificatesDone,
         CheckOcsp, PublishRevocationLists
<1>2. RegistryAgrees' /\ IssuedByAuthority' /\ RegistryEmpty'
  BY <1>1, NothingRegistered DEF IInv, RegistryEmpty
<1>3. /\ phase' \in Phase
      /\ entry' \in Nat \ {0}
      /\ exit' \in {"none", "exception", "crash"}
      /\ failures' \in 0 .. MaxFailures
      /\ faulted' \in BOOLEAN /\ initialized' \in BOOLEAN
      /\ ocspOnline' \in BOOLEAN
  <2>1. /\ phase' \in {phase, "down", "authorities", "signing", "certificates",
                        "coherence", "publishing", "serving"}
        /\ entry' \in {entry, entry + 1, 1}
        /\ exit' \in {exit, "exception"}
        /\ initialized' = initialized
    BY DEF RejectAuthority, SkipAuthority, RequestAuthority,
           RequestAuthorityFromMaster, RequestFromMaster, LoadAuthorityThrows,
           AuthoritiesDone, RejectCertificate, SkipCertificate,
           RequestCertificateFromMaster, LoadOcspThrows, CertificatesDone,
           CheckOcsp, PublishRevocationLists
  <2>2. \/ UNCHANGED <<failures, faulted>>
        \/ failures < MaxFailures /\ failures' = failures + 1 /\ faulted' = TRUE
    BY DEF RejectAuthority, SkipAuthority, RequestAuthority,
           RequestAuthorityFromMaster, RequestFromMaster, LoadAuthorityThrows,
           AuthoritiesDone, RejectCertificate, SkipCertificate,
           RequestCertificateFromMaster, LoadOcspThrows, CertificatesDone,
           CheckOcsp, PublishRevocationLists
  <2>3. ocspOnline' \in {ocspOnline, ~NoOcsp /\ OcspCountMatches}
    BY DEF RejectAuthority, SkipAuthority, RequestAuthority,
           RequestAuthorityFromMaster, RequestFromMaster, LoadAuthorityThrows,
           AuthoritiesDone, RejectCertificate, SkipCertificate,
           RequestCertificateFromMaster, LoadOcspThrows, CertificatesDone,
           CheckOcsp, PublishRevocationLists
  <2>4. failures' \in 0 .. MaxFailures
    BY <2>2, MaxFailuresAssumption DEF IInv, TypeOK
  <2>5. faulted' \in BOOLEAN /\ ocspOnline' \in BOOLEAN
    BY <2>2, <2>3, Zenon DEF IInv, TypeOK
  <2>6. QED
    BY <2>1, <2>4, <2>5 DEF IInv, TypeOK, Phase
<1>4. requests' \in Seq(Names \cup {NoName})
  <2>1. requests \in Seq(Names \cup {NoName})
    BY DEF IInv, TypeOK
  <2>2. \/ requests' = requests
        \/ /\ entry <= Len(config.authorities)
           /\ requests' = Append(requests, Authority.subject)
        \/ /\ entry <= Len(config.certificates)
           /\ requests' = Append(requests, Certificate.subject)
    BY DEF RejectAuthority, SkipAuthority, RequestAuthority,
           RequestAuthorityFromMaster, RequestFromMaster, LoadAuthorityThrows,
           AuthoritiesDone, RejectCertificate, SkipCertificate,
           RequestCertificateFromMaster, LoadOcspThrows, CertificatesDone,
           CheckOcsp, PublishRevocationLists
  <2>3. QED
    BY <2>1, <2>2, EntryTyped DEF IInv, Entry
<1>5. TypeOK'
  BY <1>1, <1>3, <1>4 DEF IInv, TypeOK
<1>6. SigningAgrees'
  <2>1. CASE RequestAuthority
    <3>1. DOMAIN caPassword = DOMAIN caIndex
      BY DEF IInv, RegistryAgrees
    <3>2. /\ entry <= Len(config.authorities)
          /\ Authority.issuer \in DOMAIN caPassword
          /\ Authority.type \in {"CA", "INTERMEDIATE_CA"}
          /\ UNCHANGED <<entry, config>>
      BY <2>1 DEF RequestAuthority, SignedLocally
    <3>3. QED
      BY <1>1, <3>1, <3>2 DEF SigningAgrees, Authority
  <2>2. CASE ~RequestAuthority
    <3>1. phase' # "signing"
      BY <2>2 DEF RejectAuthority, SkipAuthority,
         RequestAuthorityFromMaster, RequestFromMaster, LoadAuthorityThrows,
         AuthoritiesDone, RejectCertificate, SkipCertificate,
         RequestCertificateFromMaster, LoadOcspThrows, CertificatesDone,
         CheckOcsp, PublishRevocationLists
    <3>2. QED
      BY <3>1 DEF SigningAgrees
  <2>3. QED
    BY <2>1, <2>2
<1>7. QED
  BY <1>2, <1>5, <1>6 DEF IInv

(* A call to the database that fails while a certificate is generated.      *)
LEMMA FailurePreserves ==
  ASSUME IInv, Fail, Throw,
         UNCHANGED <<certificates, revoked, config, mode, entry, registry,
                     initialized>>,
         requests' \in Seq(Names \cup {NoName})
  PROVE  IInv'
<1>1. RegistryAgrees' /\ IssuedByAuthority'
  BY NothingRegistered DEF IInv, registry
<1>2. phase' = "down" /\ exit' = "exception"
  BY DEF Throw
<1>3. SigningAgrees' /\ RegistryEmpty'
  BY <1>2 DEF SigningAgrees, RegistryEmpty
<1>4. failures' \in 0 .. MaxFailures
  BY MaxFailuresAssumption DEF Fail, IInv, TypeOK
<1>5. faulted' \in BOOLEAN
  BY Zenon DEF Fail
<1>6. TypeOK'
  BY <1>2, <1>4, <1>5 DEF IInv, TypeOK, Phase, registry
<1>7. QED
  BY <1>1, <1>3, <1>6 DEF IInv

(* The typing of a step that stores one certificate and stays in the loops. *)
LEMMA StoredTyped ==
  ASSUME TypeOK,
         NEW row \in Row,
         certificates' = Append(certificates, row),
         requests' \in Seq(Names \cup {NoName}),
         entry' = entry + 1,
         phase' \in Phase,
         UNCHANGED <<revoked, config, mode, ocspOnline, exit, failures,
                     faulted, initialized>>
  PROVE  TypeOK'
<1>1. certificates' \in Seq(Row) /\ DOMAIN certificates \subseteq DOMAIN certificates'
  BY AppendIds DEF TypeOK
<1>2. QED
  BY <1>1 DEF TypeOK

LEMMA SelfSignedPreserves ==
  ASSUME IInv, GenerateSelfSignedAuthority
  PROVE  IInv'
<1> DEFINE row == CertificateRow(Authority.subject, Authority.subject,
                                 Authority.type, Len(certificates) + 1)
<1>1. Authority \in Entry /\ Authority.type = "SELF_SIGNED_CA"
  BY EntryTyped DEF IInv, GenerateSelfSignedAuthority, AtAuthority
<1>2. certificates \in Seq(Row) /\ Len(certificates) + 1 \in Nat
  BY DEF IInv, TypeOK
<1>3. /\ row \in Row
      /\ row.subject = Authority.subject /\ row.type = "SELF_SIGNED_CA"
  BY <1>1, <1>2, RowTyped DEF Entry, CertificateRow
<1>4. phase = "authorities"
  BY DEF GenerateSelfSignedAuthority, AtAuthority
<1>5. CASE /\ certificates' = Append(certificates, row)
           /\ RegisterAuthority(Authority.subject, Authority.password,
                                Len(certificates) + 1)
           /\ entry' = entry + 1
           /\ NoFailure
           /\ UNCHANGED <<phase, exit>>
  <2> HIDE DEF row
  <2>1. Len(certificates) + 1 \in AuthorityIds(certificates', Authority.subject)
    BY <1>2, <1>3, <1>5, AppendIds DEF AuthorityIds, AuthorityType
  <2>2. RegistryAgrees'
    BY <1>2, <1>3, <1>5, <2>1, AppendIds, RegisterAuthorityAgrees DEF IInv
  <2>3. IssuedByAuthority'
    BY <1>1, <1>2, <1>5, AppendIssued DEF IInv, Entry, row
  <2>4. UNCHANGED <<requests, revoked, config, mode, ocspOnline, exit,
                    failures, faulted, initialized>>
    BY <1>5 DEF GenerateSelfSignedAuthority, RegisterAuthority, NoFailure
  <2>5. TypeOK'
    <3>1. requests' \in Seq(Names \cup {NoName}) /\ phase' \in Phase
      BY <1>5, <2>4 DEF IInv, TypeOK
    <3>2. QED
      BY <1>3, <1>5, <2>4, <3>1, StoredTyped DEF IInv
  <2>6. SigningAgrees' /\ RegistryEmpty'
    BY <1>4, <1>5 DEF SigningAgrees, RegistryEmpty
  <2>7. QED
    BY <2>2, <2>3, <2>5, <2>6 DEF IInv
<1>6. CASE /\ Fail
           /\ Throw
           /\ UNCHANGED <<certificates, registry, entry>>
  <2>1. UNCHANGED <<requests, revoked, config, mode, initialized>>
    BY DEF GenerateSelfSignedAuthority
  <2>2. QED
    BY <1>6, <2>1, FailurePreserves DEF IInv, TypeOK
<1>7. QED
  BY <1>5, <1>6 DEF GenerateSelfSignedAuthority

(* The certificate of an authority: signing recalls that its issuer is      *)
(* registered, and the index leads to a row of the issuer's name.           *)
LEMMA SignPreserves ==
  ASSUME IInv, SignAuthority
  PROVE  IInv'
<1> DEFINE signer == caIndex[Authority.issuer]
           row == CertificateRow(Authority.subject, certificates[signer].subject,
                                 Authority.type, signer)
<1>1. /\ entry <= Len(config.authorities)
      /\ Authority.issuer \in DOMAIN caIndex
      /\ Authority.type \in {"CA", "INTERMEDIATE_CA"}
  BY DEF IInv, SigningAgrees, SignAuthority
<1>2. Authority \in Entry
  BY <1>1, EntryTyped DEF IInv
<1>3. certificates \in Seq(Row) /\ Len(certificates) + 1 \in Nat
  BY DEF IInv, TypeOK
<1>4. /\ signer \in AuthorityIds(certificates, Authority.issuer)
      /\ certificates[signer].subject = Authority.issuer
      /\ signer \in Nat
  BY <1>1, <1>3 DEF IInv, RegistryAgrees, AuthorityIds
<1>5. /\ row \in Row
      /\ row.subject = Authority.subject /\ row.type = Authority.type
      /\ row = CertificateRow(Authority.subject, Authority.issuer,
                              Authority.type, signer)
  BY <1>2, <1>4, RowTyped DEF Entry, CertificateRow
<1>6. CASE /\ certificates' = Append(certificates, row)
           /\ RegisterAuthority(Authority.subject, Authority.password,
                                Len(certificates) + 1)
           /\ entry' = entry + 1
           /\ phase' = "authorities"
           /\ NoFailure
           /\ UNCHANGED exit
  <2> HIDE DEF row, signer
  <2>1. Len(certificates) + 1 \in AuthorityIds(certificates', Authority.subject)
    BY <1>1, <1>3, <1>5, <1>6, AppendIds DEF AuthorityIds, AuthorityType
  <2>2. RegistryAgrees'
    BY <1>3, <1>5, <1>6, <2>1, AppendIds, RegisterAuthorityAgrees DEF IInv
  <2>3. IssuedByAuthority'
    BY <1>2, <1>3, <1>4, <1>5, <1>6, AppendIssued DEF IInv, Entry
  <2>4. UNCHANGED <<requests, revoked, config, mode, ocspOnline, exit,
                    failures, faulted, initialized>>
    BY <1>6 DEF SignAuthority, RegisterAuthority, NoFailure
  <2>5. TypeOK'
    <3>1. requests' \in Seq(Names \cup {NoName}) /\ phase' \in Phase
      BY <1>6, <2>4 DEF IInv, TypeOK, Phase
    <3>2. QED
      BY <1>5, <1>6, <2>4, <3>1, StoredTyped DEF IInv
  <2>6. SigningAgrees' /\ RegistryEmpty'
    BY <1>6 DEF SigningAgrees, RegistryEmpty
  <2>7. QED
    BY <2>2, <2>3, <2>5, <2>6 DEF IInv
<1>7. CASE /\ Fail
           /\ Throw
           /\ UNCHANGED <<certificates, registry, entry>>
  <2>1. UNCHANGED <<requests, revoked, config, mode, initialized>>
    BY DEF SignAuthority
  <2>2. QED
    BY <1>7, <2>1, FailurePreserves DEF IInv, TypeOK
<1>8. QED
  BY <1>6, <1>7 DEF SignAuthority, SignedAuthority

LEMMA GeneratePreserves ==
  ASSUME IInv, GenerateCertificate
  PROVE  IInv'
<1> DEFINE row(i) == CertificateRow(Certificate.subject, Certificate.issuer,
                                    Certificate.type, i)
<1>1. /\ Certificate \in Entry
      /\ Certificate.type \in {"CLIENT", "SERVER", "OCSP_SIGNING"}
      /\ phase = "certificates"
  BY EntryTyped DEF IInv, GenerateCertificate, AtCertificate
<1>2. certificates \in Seq(Row) /\ requests \in Seq(Names \cup {NoName})
  BY DEF IInv, TypeOK
<1>3. Append(requests, Certificate.subject) \in Seq(Names \cup {NoName})
  BY <1>1, <1>2 DEF Entry
<1>4. CASE /\ requests' = Append(requests, Certificate.subject)
           /\ \E i \in AuthorityIds(certificates, Certificate.issuer) :
                certificates' = Append(certificates, row(i))
           /\ IF Certificate.type = "OCSP_SIGNING"
              THEN RegisterOcsp(Certificate.issuer, Certificate.subject,
                                Certificate.password, Len(certificates) + 1)
              ELSE UNCHANGED registry
           /\ entry' = entry + 1
           /\ NoFailure
           /\ UNCHANGED <<phase, exit>>
  <2>1. PICK signer \in AuthorityIds(certificates, Certificate.issuer) :
               certificates' = Append(certificates, row(signer))
    BY <1>4
  <2>2. /\ row(signer) \in Row
        /\ row(signer).subject = Certificate.subject
        /\ row(signer).type = Certificate.type
    BY <1>1, <1>2, RowTyped DEF Entry, AuthorityIds, CertificateRow
  <2>3. IssuedByAuthority'
    BY <1>1, <1>2, <2>1, AppendIssued DEF IInv, Entry
  <2> HIDE DEF row
  <2>4. UNCHANGED <<revoked, config, mode, ocspOnline, exit, failures, faulted,
                    initialized>>
    BY <1>4 DEF GenerateCertificate, RegisterOcsp, registry, NoFailure
  <2>5. TypeOK'
    <3>1. phase' \in Phase
      BY <1>4 DEF IInv, TypeOK
    <3>2. QED
      BY <1>3, <1>4, <2>1, <2>2, <2>4, <3>1, StoredTyped DEF IInv
  <2>6. RegistryAgrees'
    <3>1. CASE Certificate.type = "OCSP_SIGNING"
      <4>1. Len(certificates) + 1 \in CertificateIds(certificates', Certificate.subject)
        BY <1>2, <2>1, <2>2, <3>1, AppendIds DEF CertificateIds, AuthorityType
      <4>2. QED
        BY <1>2, <1>4, <2>1, <2>2, <3>1, <4>1, AppendIds, RegisterOcspAgrees
        DEF IInv
    <3>2. CASE Certificate.type # "OCSP_SIGNING"
      <4>1. UNCHANGED <<caPassword, caIndex, ocspPassword, ocspIndex, caOcsp>>
        BY <1>4, <3>2 DEF registry
      <4>2. QED
        BY <1>2, <2>1, <2>2, <4>1, AppendIds DEF IInv, RegistryAgrees
    <3>3. QED
      BY <3>1, <3>2
  <2>7. SigningAgrees' /\ RegistryEmpty'
    BY <1>1, <1>4 DEF SigningAgrees, RegistryEmpty
  <2>8. QED
    BY <2>3, <2>5, <2>6, <2>7 DEF IInv
<1>5. CASE /\ Fail
           /\ Throw
           /\ requests' \in {requests, Append(requests, Certificate.subject)}
           /\ UNCHANGED <<certificates, registry, entry>>
  <2>1. UNCHANGED <<revoked, config, mode, initialized>>
    BY DEF GenerateCertificate
  <2>2. QED
    BY <1>2, <1>3, <1>5, <2>1, FailurePreserves
<1>6. QED
  BY <1>4, <1>5 DEF GenerateCertificate

(* The typing of a step that loads one entry.                               *)
LEMMA LoadedTyped ==
  ASSUME TypeOK, entry' = entry + 1,
         UNCHANGED <<certificates, requests, revoked, config, phase, mode,
                     ocspOnline, exit, failures, faulted, initialized>>
  PROVE  TypeOK'
  BY DEF TypeOK

LEMMA LoadPreserves ==
  ASSUME IInv, LoadAuthority \/ LoadOcsp
  PROVE  IInv'
<1> USE DEF database, history
<1>1. CASE LoadAuthority
  <2>1. /\ UNCHANGED <<certificates, requests, revoked, config, phase, mode,
                       ocspOnline, exit, failures, faulted, initialized>>
        /\ phase = "authorities" /\ entry' = entry + 1
    BY <1>1 DEF LoadAuthority, AtAuthority, RegisterAuthority
  <2>2. PICK id \in AuthorityIds(certificates, Authority.subject) :
               RegisterAuthority(Authority.subject, Authority.password, id)
    BY <1>1 DEF LoadAuthority
  <2>3. RegistryAgrees'
    BY <2>1, <2>2, RegisterAuthorityAgrees DEF IInv
  <2>4. IssuedByAuthority' /\ TypeOK'
    BY <2>1, LoadedTyped DEF IInv, IssuedByAuthority
  <2>5. SigningAgrees' /\ RegistryEmpty'
    BY <2>1 DEF SigningAgrees, RegistryEmpty
  <2>6. QED
    BY <2>3, <2>4, <2>5 DEF IInv
<1>2. CASE LoadOcsp
  <2>1. /\ UNCHANGED <<certificates, requests, revoked, config, phase, mode,
                       ocspOnline, exit, failures, faulted, initialized>>
        /\ phase = "certificates" /\ entry' = entry + 1
    BY <1>2 DEF LoadOcsp, AtCertificate, RegisterOcsp, registry
  <2>2. RegistryAgrees'
    <3>1. CASE UNCHANGED registry
      BY <2>1, <3>1 DEF IInv, RegistryAgrees, registry
    <3>2. CASE \E id, c \in CertificateIds(certificates, Certificate.subject) :
                 RegisterOcsp(certificates[c].issuer, Certificate.subject,
                              Certificate.password, id)
      <4>1. PICK id, c \in CertificateIds(certificates, Certificate.subject) :
                   RegisterOcsp(certificates[c].issuer, Certificate.subject,
                                Certificate.password, id)
        BY <3>2
      <4>2. QED
        BY <2>1, <4>1, RegisterOcspAgrees DEF IInv
    <3>3. QED
      BY <1>2, <3>1, <3>2 DEF LoadOcsp
  <2>3. IssuedByAuthority' /\ TypeOK'
    BY <2>1, LoadedTyped DEF IInv, IssuedByAuthority
  <2>4. SigningAgrees' /\ RegistryEmpty'
    BY <2>1 DEF SigningAgrees, RegistryEmpty
  <2>5. QED
    BY <2>2, <2>3, <2>4 DEF IInv
<1>3. QED
  BY <1>1, <1>2

-----------------------------------------------------------------------------
(* The inductive invariant.                                                 *)

LEMMA InitIInv == Init => IInv
<1> SUFFICES ASSUME Init PROVE IInv
  OBVIOUS
<1>1. RegistryAgrees /\ IssuedByAuthority /\ SigningAgrees /\ RegistryEmpty
  BY DEF Init, RegistryAgrees, IssuedByAuthority, SigningAgrees, RegistryEmpty,
         EmptyMap
<1>2. TypeOK
  <2>1. ocspOnline \in BOOLEAN /\ faulted \in BOOLEAN /\ initialized \in BOOLEAN
    BY Zenon DEF Init
  <2>2. <<>> \in Seq(Row) /\ <<>> \in Seq(Names \cup {NoName})
    OBVIOUS
  <2>3. /\ certificates = <<>> /\ requests = <<>> /\ revoked = {}
        /\ config \in Configurations
        /\ phase = "down" /\ mode = "load" /\ exit = "none"
        /\ entry = 1 /\ failures = 0
    BY DEF Init
  <2>4. 0 \in 0 .. MaxFailures /\ 1 \in Nat \ {0}
    BY MaxFailuresAssumption
  <2>5. QED
    BY <2>1, <2>2, <2>3, <2>4 DEF TypeOK, Phase
<1>3. QED
  BY <1>1, <1>2 DEF IInv

LEMMA NextIInv == IInv /\ [Next]_startupVars => IInv'
<1> SUFFICES ASSUME IInv, [Next]_startupVars PROVE IInv'
  OBVIOUS
<1>1. CASE Next
  BY <1>1, OperatorPreserves, InitializePreserves, QuietPreserves,
     SelfSignedPreserves, SignPreserves, GeneratePreserves, LoadPreserves
  DEF Next, Configure
<1>2. CASE UNCHANGED startupVars
  BY <1>2 DEF startupVars, database, registry, history, IInv, TypeOK,
              RegistryAgrees, IssuedByAuthority, SigningAgrees, RegistryEmpty,
              Authority
<1>3. QED
  BY <1>1, <1>2

(* The startup's maps, its database and its history agree, step by step.    *)
THEOREM InductiveInvariant == Spec => []IInv
<1>1. Init => IInv
  BY InitIInv
<1>2. IInv /\ [Next]_startupVars => IInv'
  BY NextIInv
<1>3. QED
  BY <1>1, <1>2, PTL DEF Spec

(* The type invariant.                                                      *)
THEOREM TypeCorrect == Spec => []TypeOK
<1>1. IInv => TypeOK
  BY DEF IInv
<1>2. QED
  BY <1>1, InductiveInvariant, PTL

(* The maps of passwords and of database identifiers agree with each other  *)
(* and with the database, through failures, crashes and edits.              *)
THEOREM RegistryCorrect == Spec => []RegistryAgrees
<1>1. IInv => RegistryAgrees
  BY DEF IInv
<1>2. QED
  BY <1>1, InductiveInvariant, PTL

(* Every certificate of the database is a self-signed authority or was      *)
(* signed by an authority stored before it that it names as its issuer.     *)
THEOREM IssuanceCorrect == Spec => []IssuedByAuthority
<1>1. IInv => IssuedByAuthority
  BY DEF IInv
<1>2. QED
  BY <1>1, InductiveInvariant, PTL
=============================================================================
