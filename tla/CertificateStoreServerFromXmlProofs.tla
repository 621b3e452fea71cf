---------------- MODULE CertificateStoreServerFromXmlProofs ----------------
(***************************************************************************)
(* Theorems about CertificateStoreServerFromXml, for every set of names,   *)
(* passwords and configurations: a database that cannot be initialised     *)
(* ends the start, certificates are issued in order although the master's  *)
(* are taken as they come, and the registry is right to the database and,  *)
(* without a master, to the configuration.                                 *)
(***************************************************************************)
EXTENDS CertificateStoreServerFromXml, CertificateStoreStartupProofs

XmlTyped == /\ certificates \in Seq(Row)
            /\ config \in Configurations
            /\ entry \in Nat \ {0}

(* A master is asked only by who has one, about an entry of the list.       *)
AskingAgrees ==
  /\ phase = "askingAuthority" =>
       entry <= Len(config.authorities) /\ config.master
  /\ phase = "askingCertificate" =>
       entry <= Len(config.certificates) /\ config.master

(* Both loops begin at their list's beginning.                              *)
LoopBegins == phase = "initializing" => entry = 1

(* The entries that the process is done with.                               *)
AuthoritiesRead ==
  {k \in DOMAIN config.authorities :
     /\ phase \notin {"down", "initializing"}
     /\ phase \in {"authorities", "signing", "askingAuthority"} => k < entry}

CertificatesRead ==
  {k \in DOMAIN config.certificates :
     \/ phase \in {"coherence", "publishing", "serving"}
     \/ phase \in {"certificates", "askingCertificate"} /\ k < entry}

AuthoritiesKnown ==
  \A k \in AuthoritiesRead :
    CoherentAuthority(config.authorities[k])
      => config.authorities[k].subject \in DOMAIN caPassword

AuthoritiesListed ==
  phase # "down" =>
    \A n \in DOMAIN caPassword : \E k \in DOMAIN config.authorities :
      /\ config.authorities[k].subject = n
      /\ config.authorities[k].password = caPassword[n]

SignersKnown ==
  \A k \in CertificatesRead :
    config.certificates[k].type = "OCSP_SIGNING"
      => config.certificates[k].subject \in DOMAIN ocspPassword

SignersListed ==
  phase # "down" =>
    \A n \in DOMAIN ocspPassword : \E k \in DOMAIN config.certificates :
      /\ config.certificates[k].type = "OCSP_SIGNING"
      /\ config.certificates[k].subject = n

(* Without a master, what the process has read of its configuration is what *)
(* it knows.                                                                *)
XmlKnows ==
  ~config.master => AuthoritiesKnown /\ AuthoritiesListed /\ SignersKnown /\ SignersListed

XInv == /\ XmlTyped
        /\ XmlRegistryAgrees
        /\ XmlIssuance
        /\ SigningAgrees
        /\ AskingAgrees
        /\ RegistryEmpty
        /\ LoopBegins
        /\ XmlKnows

-----------------------------------------------------------------------------
(* The entry a loop is at is an entry of the configuration.                 *)
LEMMA XmlEntryTyped ==
  ASSUME XmlTyped
  PROVE  /\ DOMAIN config.authorities = 1 .. Len(config.authorities)
         /\ DOMAIN config.certificates = 1 .. Len(config.certificates)
         /\ Len(config.authorities) \in Nat /\ Len(config.certificates) \in Nat
         /\ entry <= Len(config.authorities) =>
              entry \in DOMAIN config.authorities /\ Authority \in Entry
         /\ entry <= Len(config.certificates) =>
              entry \in DOMAIN config.certificates /\ Certificate \in Entry
<1>1. config.authorities \in Seq(Entry) /\ config.certificates \in Seq(Entry)
  BY ConfigurationsAssumption DEF XmlTyped, Configuration
<1>2. entry \in Nat \ {0}
  BY DEF XmlTyped
<1>3. QED
  BY <1>1, <1>2 DEF Authority, Certificate

(* Rows are only added, and what the master issued stays the master's.      *)
XmlGrown ==
  /\ DOMAIN certificates \subseteq DOMAIN certificates'
  /\ \A i \in DOMAIN certificates : certificates'[i] = certificates[i]
  /\ FromMaster \subseteq FromMaster'
  /\ \A n : AuthorityIds(certificates, n) \subseteq AuthorityIds(certificates', n)
  /\ \A n : CertificateIds(certificates, n) \subseteq CertificateIds(certificates', n)

LEMMA XmlAppended ==
  ASSUME certificates \in Seq(Row), NEW row \in Row,
         certificates' = Append(certificates, row)
  PROVE  /\ certificates' \in Seq(Row)
         /\ DOMAIN certificates' = DOMAIN certificates \cup {Len(certificates) + 1}
         /\ Len(certificates) + 1 \notin DOMAIN certificates
         /\ \A i \in DOMAIN certificates : i < Len(certificates) + 1
         /\ certificates'[Len(certificates) + 1] = row
         /\ XmlGrown
<1>1. /\ certificates' \in Seq(Row)
      /\ DOMAIN certificates' = DOMAIN certificates \cup {Len(certificates) + 1}
      /\ Len(certificates) + 1 \notin DOMAIN certificates
      /\ \A i \in DOMAIN certificates :
           certificates'[i] = certificates[i] /\ i < Len(certificates) + 1
      /\ certificates'[Len(certificates) + 1] = row
      /\ \A n : AuthorityIds(certificates, n) \subseteq AuthorityIds(certificates', n)
      /\ \A n : CertificateIds(certificates, n) \subseteq CertificateIds(certificates', n)
  BY AppendIds
<1>2. FromMaster \subseteq FromMaster'
  BY <1>1 DEF FromMaster
<1>3. QED
  BY <1>1, <1>2 DEF XmlGrown

(* A row from the master, of a self-signed authority, or signed with the    *)
(* key of a row that was there keeps the table in order.                    *)
LEMMA XmlIssued ==
  ASSUME certificates \in Seq(Row), XmlIssuance, NEW row \in Row,
         certificates' = Append(certificates, row),
         \/ row.signer = 0
         \/ /\ row.signer = Len(certificates) + 1
            /\ row.issuer = row.subject
            /\ row.type = "SELF_SIGNED_CA"
         \/ /\ row.signer \in DOMAIN certificates
            /\ certificates[row.signer].subject = row.issuer
            /\ certificates[row.signer].type \notin AuthorityType
                 => row.signer \in FromMaster
  PROVE  XmlIssuance'
<1>1. /\ DOMAIN certificates' = DOMAIN certificates \cup {Len(certificates) + 1}
      /\ \A i \in DOMAIN certificates : i < Len(certificates) + 1
      /\ certificates'[Len(certificates) + 1] = row
      /\ XmlGrown
  BY XmlAppended
<1>2. SUFFICES ASSUME NEW i \in DOMAIN certificates', certificates'[i].signer # 0
               PROVE  LET c == certificates'[i] IN
                      /\ certificates'[c.signer].subject = c.issuer
                      /\ IF c.signer = i
                         THEN c.type = "SELF_SIGNED_CA"
                         ELSE /\ c.signer < i
                              /\ certificates'[c.signer].type \notin AuthorityType
                                   => c.signer \in FromMaster'
  BY DEF XmlIssuance, FromMaster
<1>3. CASE i \in DOMAIN certificates
  <2>1. /\ certificates'[i] = certificates[i] /\ certificates[i].signer # 0
        /\ i \in DOMAIN certificates \ FromMaster
    BY <1>1, <1>2, <1>3 DEF XmlGrown, FromMaster
  <2>2. /\ certificates[certificates[i].signer].subject = certificates[i].issuer
        /\ IF certificates[i].signer = i
           THEN certificates[i].type = "SELF_SIGNED_CA"
           ELSE /\ certificates[i].signer < i
                /\ certificates[certificates[i].signer].type \notin AuthorityType
                     => certificates[i].signer \in FromMaster
    BY <2>1 DEF XmlIssuance
  <2>3. certificates[i].signer \in DOMAIN certificates
    <3>1. certificates[i] \in Row /\ i \in 1 .. Len(certificates)
      BY <1>3
    <3>2. certificates[i].signer \in Nat
      BY <3>1 DEF Row
    <3>3. certificates[i].signer = i \/ certificates[i].signer < i
      BY <2>2
    <3>4. QED
      BY <2>1, <3>1, <3>2, <3>3
  <2>4. certificates'[certificates[i].signer] = certificates[certificates[i].signer]
    BY <1>1, <2>3 DEF XmlGrown
  <2>5. QED
    BY <1>1, <2>1, <2>2, <2>4 DEF XmlGrown
<1>4. CASE i \notin DOMAIN certificates
  <2>1. i = Len(certificates) + 1 /\ certificates'[i] = row
    BY <1>1, <1>2, <1>4
  <2>2. CASE row.signer = Len(certificates) + 1
    BY <2>1, <2>2, <1>4
  <2>3. CASE row.signer # Len(certificates) + 1
    <3>1. /\ row.signer \in DOMAIN certificates
          /\ certificates[row.signer].subject = row.issuer
          /\ certificates[row.signer].type \notin AuthorityType
                 => row.signer \in FromMaster
      BY <1>2, <2>1, <2>3
    <3>2. certificates'[row.signer] = certificates[row.signer] /\ row.signer < i
      BY <1>1, <2>1, <3>1 DEF XmlGrown
    <3>3. QED
      BY <1>1, <2>1, <3>1, <3>2 DEF XmlGrown
  <2>4. QED
    BY <2>2, <2>3
<1>5. QED
  BY <1>3, <1>4

(* Nothing stored and nothing registered.                                   *)
LEMMA XmlNothing ==
  ASSUME XmlRegistryAgrees, XmlIssuance,
         UNCHANGED <<certificates, caPassword, caIndex, ocspPassword,
                     ocspIndex, caOcsp>>
  PROVE  XmlRegistryAgrees' /\ XmlIssuance'
  BY DEF XmlRegistryAgrees, XmlIssuance, FromMaster

LEMMA XmlRegistered ==
  ASSUME NEW name, NEW password, NEW id,
         XmlRegistryAgrees, XmlGrown,
         RegisterAuthority(name, password, id),
         id \in AuthorityIds(certificates', name)
                  \cup (FromMaster' \cap CertificateIds(certificates', name))
  PROVE  /\ XmlRegistryAgrees'
         /\ DOMAIN caPassword' = DOMAIN caPassword \cup {name}
         /\ \A n \in DOMAIN caPassword : caPassword'[n] = caPassword[n]
         /\ name \notin DOMAIN caPassword => caPassword'[name] = password
         /\ UNCHANGED <<ocspPassword, ocspIndex, caOcsp>>
<1>1. /\ DOMAIN caPassword' = DOMAIN caPassword \cup {name}
      /\ DOMAIN caIndex' = DOMAIN caIndex \cup {name}
      /\ \A n \in DOMAIN caIndex : caIndex'[n] = caIndex[n]
      /\ name \notin DOMAIN caIndex => caIndex'[name] = id
      /\ \A n \in DOMAIN caPassword : caPassword'[n] = caPassword[n]
      /\ name \notin DOMAIN caPassword => caPassword'[name] = password
  BY DEF RegisterAuthority, Insert
<1>2. \A n \in DOMAIN caIndex' :
        caIndex'[n] \in AuthorityIds(certificates', n)
                          \cup (FromMaster' \cap CertificateIds(certificates', n))
  BY <1>1 DEF XmlRegistryAgrees, XmlGrown
<1>3. QED
  BY <1>1, <1>2 DEF XmlRegistryAgrees, XmlGrown, RegisterAuthority

LEMMA XmlSignerRegistered ==
  ASSUME NEW issuer, NEW name, NEW password, NEW id,
         XmlRegistryAgrees, XmlGrown,
         RegisterOcsp(issuer, name, password, id),
         id \in CertificateIds(certificates', name)
  PROVE  /\ XmlRegistryAgrees'
         /\ DOMAIN ocspPassword' = DOMAIN ocspPassword \cup {name}
         /\ UNCHANGED <<caPassword, caIndex>>
<1>1. /\ DOMAIN ocspPassword' = DOMAIN ocspPassword \cup {name}
      /\ DOMAIN ocspIndex' = DOMAIN ocspIndex \cup {name}
      /\ \A n \in DOMAIN ocspIndex : ocspIndex'[n] = ocspIndex[n]
      /\ name \notin DOMAIN ocspIndex => ocspIndex'[name] = id
  BY DEF RegisterOcsp, Insert
<1>2. /\ DOMAIN caOcsp' = DOMAIN caOcsp \cup {issuer}
      /\ \A n \in DOMAIN caOcsp : caOcsp'[n] = caOcsp[n]
      /\ issuer \notin DOMAIN caOcsp => caOcsp'[issuer] = name
  BY DEF RegisterOcsp, Insert
<1>3. \A n \in DOMAIN ocspIndex' : ocspIndex'[n] \in CertificateIds(certificates', n)
  BY <1>1 DEF XmlRegistryAgrees, XmlGrown
<1>4. \A n \in DOMAIN caOcsp' : caOcsp'[n] \in DOMAIN ocspPassword'
  BY <1>1, <1>2 DEF XmlRegistryAgrees
<1>5. UNCHANGED <<caPassword, caIndex>>
  BY DEF RegisterOcsp
<1>6. QED
  BY <1>1, <1>3, <1>4, <1>5 DEF XmlRegistryAgrees, XmlGrown

(* Growing the table disturbs no map.                                       *)
LEMMA XmlMapsKept ==
  ASSUME XmlRegistryAgrees, XmlGrown,
         UNCHANGED <<caPassword, caIndex, ocspPassword, ocspIndex, caOcsp>>
  PROVE  XmlRegistryAgrees'
  BY DEF XmlRegistryAgrees, XmlGrown

-----------------------------------------------------------------------------
(* What the process knows of its configuration.                             *)

(* A process that ends knows nothing any more.                              *)
LEMMA XmlEnds ==
  ASSUME XInv, phase' = "down", config' \in Configurations, entry' = entry,
         UNCHANGED <<certificates, caPassword, caIndex, ocspPassword,
                     ocspIndex, caOcsp>>
  PROVE  XInv'
<1>1. XmlTyped' /\ XmlRegistryAgrees' /\ XmlIssuance'
  BY XmlNothing DEF XInv, XmlTyped
<1>2. /\ SigningAgrees' /\ AskingAgrees' /\ RegistryEmpty' /\ LoopBegins'
  BY DEF SigningAgrees, AskingAgrees, RegistryEmpty, LoopBegins
<1>3. XmlKnows'
  BY DEF XmlKnows, AuthoritiesKnown, AuthoritiesListed, SignersKnown, SignersListed,
     AuthoritiesRead, CertificatesRead
<1>4. QED
  BY <1>1, <1>2, <1>3 DEF XInv

(* The loop over the authorities is done with one of them.                  *)
LEMMA XmlAuthorityRead ==
  ASSUME XInv, XmlTyped', XmlRegistryAgrees', XmlIssuance',
         phase \in {"authorities", "signing", "askingAuthority"},
         entry <= Len(config.authorities), entry' = entry + 1,
         phase' = "authorities",
         UNCHANGED <<config, mode, initialized>>,
         DOMAIN caPassword \subseteq DOMAIN caPassword',
         ~config.master =>
           /\ ocspPassword' = ocspPassword
           /\ CoherentAuthority(Authority) => Authority.subject \in DOMAIN caPassword'
           /\ \A n \in DOMAIN caPassword' :
                \/ n \in DOMAIN caPassword /\ caPassword'[n] = caPassword[n]
                \/ n = Authority.subject /\ caPassword'[n] = Authority.password
  PROVE  XInv'
<1>1. /\ SigningAgrees' /\ AskingAgrees' /\ RegistryEmpty' /\ LoopBegins'
  BY DEF XInv, SigningAgrees, AskingAgrees, RegistryEmpty, LoopBegins
<1>2. ASSUME ~config.master
      PROVE  AuthoritiesKnown' /\ AuthoritiesListed' /\ SignersKnown' /\ SignersListed'
  <2>1. AuthoritiesKnown /\ AuthoritiesListed /\ SignersListed
    BY <1>2 DEF XInv, XmlKnows
  <2>2. entry \in DOMAIN config.authorities /\ Authority = config.authorities[entry]
    BY XmlEntryTyped DEF XInv, Authority
  <2>3. AuthoritiesRead' \subseteq AuthoritiesRead \cup {entry}
    <3>1. ASSUME NEW k \in AuthoritiesRead'
          PROVE  k \in AuthoritiesRead \cup {entry}
      <4>1. k \in DOMAIN config.authorities /\ k < entry + 1
        BY <3>1 DEF AuthoritiesRead
      <4>2. k \in Nat /\ entry \in Nat
        BY <4>1, XmlEntryTyped DEF XInv, XmlTyped
      <4>3. k = entry \/ k < entry
        BY <4>1, <4>2
      <4>4. QED
        BY <4>1, <4>3 DEF AuthoritiesRead
    <3>2. QED
      BY <3>1
  <2>4. AuthoritiesKnown'
    BY <1>2, <2>1, <2>2, <2>3 DEF AuthoritiesKnown
  <2>5. AuthoritiesListed'
    <3>1. ASSUME NEW n \in DOMAIN caPassword'
          PROVE  \E k \in DOMAIN config.authorities :
                   /\ config.authorities[k].subject = n
                   /\ config.authorities[k].password = caPassword'[n]
      <4>1. CASE n \in DOMAIN caPassword /\ caPassword'[n] = caPassword[n]
        BY <2>1, <4>1 DEF AuthoritiesListed
      <4>2. CASE n = Authority.subject /\ caPassword'[n] = Authority.password
        BY <2>2, <4>2
      <4>3. QED
        BY <1>2, <3>1, <4>1, <4>2
    <3>2. QED
      BY <3>1 DEF AuthoritiesListed
  <2>6. SignersKnown' /\ SignersListed'
    BY <1>2, <2>1 DEF SignersKnown, CertificatesRead, SignersListed
  <2>7. QED
    BY <2>4, <2>5, <2>6
<1>3. QED
  BY <1>1, <1>2 DEF XInv, XmlKnows

(* The loop over the certificates is done with one of them.                 *)
LEMMA XmlCertificateRead ==
  ASSUME XInv, XmlTyped', XmlRegistryAgrees', XmlIssuance',
         phase \in {"certificates", "askingCertificate"},
         entry <= Len(config.certificates), entry' = entry + 1,
         phase' = "certificates",
         UNCHANGED <<config, mode, initialized>>,
         ~config.master =>
           /\ caPassword' = caPassword
           /\ DOMAIN ocspPassword \subseteq DOMAIN ocspPassword'
           /\ IF Certificate.type = "OCSP_SIGNING"
              THEN DOMAIN ocspPassword' = DOMAIN ocspPassword \cup {Certificate.subject}
              ELSE DOMAIN ocspPassword' = DOMAIN ocspPassword
  PROVE  XInv'
<1>1. /\ SigningAgrees' /\ AskingAgrees' /\ RegistryEmpty' /\ LoopBegins'
  BY DEF XInv, SigningAgrees, AskingAgrees, RegistryEmpty, LoopBegins
<1>2. ASSUME ~config.master
      PROVE  AuthoritiesKnown' /\ AuthoritiesListed' /\ SignersKnown' /\ SignersListed'
  <2>1. AuthoritiesKnown /\ AuthoritiesListed /\ SignersKnown /\ SignersListed
    BY <1>2 DEF XInv, XmlKnows
  <2>2. entry \in DOMAIN config.certificates /\ Certificate = config.certificates[entry]
    BY XmlEntryTyped DEF XInv, Certificate
  <2>3. CertificatesRead' \subseteq CertificatesRead \cup {entry}
    <3>1. ASSUME NEW k \in CertificatesRead'
          PROVE  k \in CertificatesRead \cup {entry}
      <4>1. k \in DOMAIN config.certificates /\ k < entry + 1
        BY <3>1 DEF CertificatesRead
      <4>2. k \in Nat /\ entry \in Nat
        BY <4>1, XmlEntryTyped DEF XInv, XmlTyped
      <4>3. k = entry \/ k < entry
        BY <4>1, <4>2
      <4>4. QED
        BY <4>1, <4>3 DEF CertificatesRead
    <3>2. QED
      BY <3>1
  <2>4. SignersKnown'
    BY <1>2, <2>1, <2>2, <2>3 DEF SignersKnown
  <2>5. AuthoritiesKnown' /\ AuthoritiesListed'
    BY <1>2, <2>1 DEF AuthoritiesKnown, AuthoritiesRead, AuthoritiesListed
  <2>6. SignersListed'
    BY <1>2, <2>1, <2>2 DEF SignersListed
  <2>7. QED
    BY <2>4, <2>5, <2>6
<1>3. QED
  BY <1>1, <1>2 DEF XInv, XmlKnows

(* A step that reads no entry: what was read stays read, or a loop is over. *)
LEMMA XmlNothingRead ==
  ASSUME XInv, XmlTyped', phase \notin {"down", "initializing"},
         phase' \notin {"down", "initializing"},
         SigningAgrees', AskingAgrees',
         UNCHANGED <<certificates, config, mode, initialized, caPassword, caIndex,
                     ocspPassword, ocspIndex, caOcsp>>,
         AuthoritiesRead' \subseteq AuthoritiesRead,
         CertificatesRead' \subseteq CertificatesRead
  PROVE  XInv'
<1>1. XmlRegistryAgrees' /\ XmlIssuance'
  BY XmlNothing DEF XInv
<1>2. RegistryEmpty' /\ LoopBegins'
  BY DEF XInv, RegistryEmpty, LoopBegins
<1>3. XmlKnows'
  BY DEF XInv, XmlKnows, AuthoritiesKnown, AuthoritiesListed, SignersKnown, SignersListed
<1>4. QED
  BY <1>1, <1>2, <1>3 DEF XInv

-----------------------------------------------------------------------------
(* The operator's steps, the initialisation and the ends of a process.      *)
LEMMA XmlStartPreserves ==
  ASSUME XInv, NEW m \in {"initialize", "load"}, Start(m)
  PROVE  XInv'
<1>1. /\ UNCHANGED <<certificates, config>> /\ entry' = 1 /\ mode' = m
      /\ phase' = IF m = "initialize" THEN "initializing" ELSE "authorities"
      /\ DOMAIN caPassword' = {} /\ DOMAIN caIndex' = {}
      /\ DOMAIN ocspPassword' = {} /\ DOMAIN ocspIndex' = {}
      /\ DOMAIN caOcsp' = {}
  BY DEF Start, EmptyMap, database
<1>2. XmlTyped' /\ XmlRegistryAgrees' /\ XmlIssuance'
  BY <1>1 DEF XInv, XmlTyped, XmlRegistryAgrees, XmlIssuance, FromMaster
<1>3. /\ SigningAgrees' /\ AskingAgrees' /\ RegistryEmpty' /\ LoopBegins'
  BY <1>1 DEF SigningAgrees, AskingAgrees, RegistryEmpty, LoopBegins
<1>4. XmlKnows'
  <2>1. \A k \in DOMAIN config.authorities : ~(k < 1)
    BY XmlEntryTyped DEF XInv
  <2>2. AuthoritiesRead' = {} /\ CertificatesRead' = {}
    BY <1>1, <2>1 DEF AuthoritiesRead, CertificatesRead
  <2>3. QED
    BY <1>1, <2>2 DEF XmlKnows, AuthoritiesKnown, AuthoritiesListed, SignersKnown, SignersListed
<1>5. QED
  BY <1>2, <1>3, <1>4 DEF XInv

LEMMA XmlInitializePreserves ==
  ASSUME XInv, XmlInitializeDatabase
  PROVE  XInv'
<1>1. CASE Throw
  BY <1>1, XmlEnds DEF XmlInitializeDatabase, XInv, XmlTyped, Throw, database, registry
<1>2. CASE ~Throw
  <2>1. /\ phase = "initializing" /\ phase' = "authorities"
        /\ certificates' = <<>> /\ initialized' = TRUE
        /\ UNCHANGED <<config, entry, caPassword, caIndex, ocspPassword, ocspIndex,
                       caOcsp>>
    BY <1>2 DEF XmlInitializeDatabase, registry
  <2>2. /\ entry = 1 /\ DOMAIN caPassword = {} /\ DOMAIN caIndex = {}
        /\ DOMAIN ocspPassword = {} /\ DOMAIN ocspIndex = {}
        /\ DOMAIN caOcsp = {}
    BY <2>1 DEF XInv, RegistryEmpty, LoopBegins
  <2>3. XmlTyped' /\ XmlRegistryAgrees' /\ XmlIssuance'
    BY <2>1, <2>2 DEF XInv, XmlTyped, XmlRegistryAgrees, XmlIssuance
  <2>4. /\ SigningAgrees' /\ AskingAgrees' /\ RegistryEmpty' /\ LoopBegins'
    BY <2>1 DEF SigningAgrees, AskingAgrees, RegistryEmpty, LoopBegins
  <2>5. XmlKnows'
    <3>1. \A k \in DOMAIN config.authorities : ~(k < 1)
      BY XmlEntryTyped DEF XInv
    <3>2. AuthoritiesRead' = {} /\ CertificatesRead' = {}
      BY <2>1, <2>2, <3>1 DEF AuthoritiesRead, CertificatesRead
    <3>3. QED
      BY <2>1, <2>2, <3>2 DEF XmlKnows, AuthoritiesKnown, AuthoritiesListed,
         SignersKnown, SignersListed
  <2>6. QED
    BY <2>3, <2>4, <2>5 DEF XInv
<1>3. QED
  BY <1>1, <1>2

LEMMA XmlEndSteps ==
  ASSUME XInv,
         \/ EditConfiguration \/ Crash \/ XmlRejectAuthority \/ XmlRejectCertificate
         \/ XmlNoAuthorityToSign \/ XmlLoadAuthorityCrashes
         \/ XmlLoadAuthorityThrows \/ XmlLoadOcspCrashes \/ XmlLoadOcspThrows
         \/ \E resume : XmlRequestLost(resume) \/ XmlMasterFails(resume)
  PROVE  XInv'
<1>1. phase' = "down" /\ entry' = entry
      /\ UNCHANGED <<certificates, caPassword, caIndex, ocspPassword, ocspIndex,
                     caOcsp>>
  BY DEF EditConfiguration, Crash, XmlRejectAuthority, XmlRejectCertificate,
     XmlNoAuthorityToSign, XmlLoadAuthorityCrashes, XmlLoadAuthorityThrows,
     XmlLoadOcspCrashes, XmlLoadOcspThrows, XmlRequestLost, XmlMasterFails,
     ReadAbsentPassword, Throw, MasterAnswered, database, registry
<1>2. config' \in Configurations
  <2>1. CASE EditConfiguration
    BY <2>1, ConfigurationsAssumption DEF EditConfiguration, XInv, XmlTyped
  <2>2. CASE ~EditConfiguration
    <3>1. config' = config
      BY <2>2 DEF Crash, XmlRejectAuthority, XmlRejectCertificate,
         XmlNoAuthorityToSign, XmlLoadAuthorityCrashes, XmlLoadAuthorityThrows,
         XmlLoadOcspCrashes, XmlLoadOcspThrows, XmlRequestLost, XmlMasterFails,
         ReadAbsentPassword, MasterAnswered
    <3>2. QED
      BY <3>1 DEF XInv, XmlTyped
  <2>3. QED
    BY <2>1, <2>2
<1>3. QED
  BY <1>1, <1>2, XmlEnds

-----------------------------------------------------------------------------
(* The authorities.                                                         *)

(* An authority's certificate of the server's own.                          *)
LEMMA XmlSelfSignedPreserves ==
  ASSUME XInv, XmlGenerateSelfSignedAuthority
  PROVE  XInv'
<1> DEFINE row == CertificateRow(Authority.subject, Authority.subject,
                                 Authority.type, Len(certificates) + 1)
<1>1. /\ phase = "authorities" /\ entry <= Len(config.authorities)
      /\ Authority.type = "SELF_SIGNED_CA"
      /\ UNCHANGED <<config, mode, initialized>>
  BY DEF XmlGenerateSelfSignedAuthority, GenerateSelfSignedAuthority, AtAuthority
<1>2. Authority \in Entry /\ certificates \in Seq(Row) /\ Len(certificates) + 1 \in Nat
  BY <1>1, XmlEntryTyped DEF XInv, XmlTyped
<1>3. /\ row \in Row
      /\ row.subject = Authority.subject /\ row.issuer = row.subject
      /\ row.type = "SELF_SIGNED_CA" /\ row.signer = Len(certificates) + 1
  BY <1>1, <1>2, RowTyped DEF Entry, CertificateRow
<1>4. CASE /\ certificates' = Append(certificates, row)
           /\ RegisterAuthority(Authority.subject, Authority.password,
                                Len(certificates) + 1)
           /\ entry' = entry + 1
           /\ phase' = phase
  <2> HIDE DEF row
  <2>1. /\ certificates' \in Seq(Row) /\ XmlGrown
        /\ certificates'[Len(certificates) + 1] = row
        /\ Len(certificates) + 1 \in DOMAIN certificates'
    BY <1>2, <1>3, <1>4, XmlAppended
  <2>2. XmlIssuance'
    BY <1>2, <1>3, <1>4, XmlIssued DEF XInv
  <2>3. Len(certificates) + 1 \in AuthorityIds(certificates', Authority.subject)
    BY <1>3, <2>1 DEF AuthorityIds, AuthorityType
  <2>4. /\ XmlRegistryAgrees'
        /\ DOMAIN caPassword' = DOMAIN caPassword \cup {Authority.subject}
        /\ \A n \in DOMAIN caPassword : caPassword'[n] = caPassword[n]
        /\ Authority.subject \notin DOMAIN caPassword
             => caPassword'[Authority.subject] = Authority.password
        /\ ocspPassword' = ocspPassword
    BY <1>4, <2>1, <2>3, XmlRegistered DEF XInv
  <2>5. XmlTyped'
    BY <1>1, <1>4, <2>1 DEF XInv, XmlTyped
  <2>6. QED
    BY <1>1, <1>4, <2>2, <2>4, <2>5, XmlAuthorityRead
<1>5. CASE Throw /\ UNCHANGED <<certificates, registry, entry>>
  BY <1>1, <1>5, XmlEnds DEF XInv, XmlTyped, Throw, registry
<1>6. QED
  BY <1>4, <1>5 DEF XmlGenerateSelfSignedAuthority, GenerateSelfSignedAuthority

(* The issuer is registered with the index of a row of its name, an         *)
(* authority's or the master's.                                             *)
LEMMA XmlSignPreserves ==
  ASSUME XInv, XmlSignAuthority
  PROVE  XInv'
<1> DEFINE signer == caIndex[Authority.issuer]
           row == CertificateRow(Authority.subject, certificates[signer].subject,
                                 Authority.type, signer)
<1>1. /\ phase = "signing" /\ entry <= Len(config.authorities)
      /\ Authority.issuer \in DOMAIN caIndex
      /\ Authority.type \in {"CA", "INTERMEDIATE_CA"}
      /\ UNCHANGED <<config, mode, initialized>>
  BY DEF XInv, SigningAgrees, XmlSignAuthority, SignAuthority
<1>2. Authority \in Entry /\ certificates \in Seq(Row) /\ Len(certificates) + 1 \in Nat
  BY <1>1, XmlEntryTyped DEF XInv, XmlTyped
<1>3. signer \in AuthorityIds(certificates, Authority.issuer)
                   \cup (FromMaster \cap CertificateIds(certificates, Authority.issuer))
  BY <1>1 DEF XInv, XmlRegistryAgrees
<1>4. /\ signer \in DOMAIN certificates /\ signer \in Nat
      /\ certificates[signer].subject = Authority.issuer
      /\ certificates[signer].type \notin AuthorityType => signer \in FromMaster
  BY <1>2, <1>3 DEF AuthorityIds, CertificateIds
<1>5. /\ row \in Row
      /\ row.subject = Authority.subject /\ row.issuer = Authority.issuer
      /\ row.type = Authority.type /\ row.signer = signer
  BY <1>2, <1>4, RowTyped DEF Entry, CertificateRow
<1>6. CASE /\ certificates' = Append(certificates, row)
           /\ RegisterAuthority(Authority.subject, Authority.password,
                                Len(certificates) + 1)
           /\ entry' = entry + 1
           /\ phase' = "authorities"
  <2> HIDE DEF row, signer
  <2>1. /\ certificates' \in Seq(Row) /\ XmlGrown
        /\ certificates'[Len(certificates) + 1] = row
        /\ Len(certificates) + 1 \in DOMAIN certificates'
    BY <1>2, <1>5, <1>6, XmlAppended
  <2>2. XmlIssuance'
    BY <1>2, <1>4, <1>5, <1>6, XmlIssued DEF XInv
  <2>3. Len(certificates) + 1 \in AuthorityIds(certificates', Authority.subject)
    BY <1>1, <1>5, <2>1 DEF AuthorityIds, AuthorityType
  <2>4. /\ XmlRegistryAgrees'
        /\ DOMAIN caPassword' = DOMAIN caPassword \cup {Authority.subject}
        /\ \A n \in DOMAIN caPassword : caPassword'[n] = caPassword[n]
        /\ Authority.subject \notin DOMAIN caPassword
             => caPassword'[Authority.subject] = Authority.password
        /\ ocspPassword' = ocspPassword
    BY <1>6, <2>1, <2>3, XmlRegistered DEF XInv
  <2>5. XmlTyped'
    BY <1>1, <1>6, <2>1 DEF XInv, XmlTyped
  <2>6. QED
    BY <1>1, <1>6, <2>2, <2>4, <2>5, XmlAuthorityRead
<1>7. CASE Throw /\ UNCHANGED <<certificates, registry, entry>>
  BY <1>1, <1>7, XmlEnds DEF XInv, XmlTyped, Throw, registry
<1>8. QED
  BY <1>6, <1>7 DEF XmlSignAuthority, SignAuthority, SignedAuthority

LEMMA XmlRequestPreserves ==
  ASSUME XInv, XmlRequestAuthority
  PROVE  XInv'
<1>1. /\ phase = "authorities" /\ entry <= Len(config.authorities)
      /\ Authority.issuer \in DOMAIN caPassword
      /\ Authority.type \in {"CA", "INTERMEDIATE_CA"}
      /\ UNCHANGED <<certificates, config, mode, entry, registry, initialized>>
      /\ phase' = "signing" \/ Throw
  BY DEF XmlRequestAuthority, RequestAuthority, AtAuthority, SignedLocally
<1>2. CASE Throw
  BY <1>1, <1>2, XmlEnds DEF XInv, XmlTyped, Throw, registry
<1>3. CASE phase' = "signing"
  <2>1. SigningAgrees' /\ AskingAgrees' /\ XmlTyped'
    BY <1>1, <1>3 DEF SigningAgrees, AskingAgrees, Authority, registry, XInv,
       XmlRegistryAgrees, XmlTyped
  <2>2. /\ AuthoritiesRead' \subseteq AuthoritiesRead
        /\ CertificatesRead' \subseteq CertificatesRead
    BY <1>1, <1>3 DEF AuthoritiesRead, CertificatesRead
  <2>3. QED
    BY <1>1, <1>3, <2>1, <2>2, XmlNothingRead DEF registry
<1>4. QED
  BY <1>1, <1>2, <1>3

(* An entry passed over is not coherent, or the master's.                   *)
LEMMA XmlSkipPreserves ==
  ASSUME XInv, XmlSkipAuthority
  PROVE  XInv'
<1>1. /\ phase = "authorities" /\ entry <= Len(config.authorities)
      /\ ~CoherentAuthority(Authority)
      /\ UNCHANGED <<certificates, config, phase, mode, registry, initialized>>
      /\ entry' = entry + 1
  BY DEF XmlSkipAuthority, SkipAuthority, AtAuthority, SignedLocally,
     CoherentAuthority, SelfSigned, database, history
<1>2. XmlTyped' /\ XmlRegistryAgrees' /\ XmlIssuance'
  BY <1>1, XmlNothing DEF XInv, XmlTyped, registry
<1>3. QED
  BY <1>1, <1>2, XmlAuthorityRead DEF registry

LEMMA XmlLoadAuthorityPreserves ==
  ASSUME XInv, XmlLoadAuthority
  PROVE  XInv'
<1>1. /\ phase = "authorities" /\ entry <= Len(config.authorities)
      /\ UNCHANGED <<certificates, config, phase, mode, initialized>>
      /\ entry' = entry + 1
  BY DEF XmlLoadAuthority, LoadAuthority, AtAuthority, database, history
<1>2. PICK id \in AuthorityIds(certificates, Authority.subject) :
        RegisterAuthority(Authority.subject, Authority.password, id)
  BY DEF XmlLoadAuthority, LoadAuthority
<1>3. XmlGrown /\ id \in AuthorityIds(certificates', Authority.subject)
  BY <1>1, <1>2 DEF XmlGrown, FromMaster
<1>4. /\ XmlRegistryAgrees'
      /\ DOMAIN caPassword' = DOMAIN caPassword \cup {Authority.subject}
      /\ \A n \in DOMAIN caPassword : caPassword'[n] = caPassword[n]
      /\ Authority.subject \notin DOMAIN caPassword
           => caPassword'[Authority.subject] = Authority.password
      /\ ocspPassword' = ocspPassword
  BY <1>2, <1>3, XmlRegistered DEF XInv
<1>5. XmlTyped' /\ XmlIssuance'
  BY <1>1 DEF XInv, XmlTyped, XmlIssuance, FromMaster
<1>6. QED
  BY <1>1, <1>4, <1>5, XmlAuthorityRead

-----------------------------------------------------------------------------
(* The certificates.                                                        *)
LEMMA XmlSkipCertificatePreserves ==
  ASSUME XInv, XmlSkipCertificate
  PROVE  XInv'
<1>1. /\ phase = "certificates" /\ entry <= Len(config.certificates)
      /\ Certificate.type # "OCSP_SIGNING"
      /\ UNCHANGED <<certificates, config, phase, mode, registry, initialized>>
      /\ entry' = entry + 1
  BY DEF XmlSkipCertificate, SkipCertificate, AtCertificate, database, history
<1>2. XmlTyped' /\ XmlRegistryAgrees' /\ XmlIssuance'
  BY <1>1, XmlNothing DEF XInv, XmlTyped, registry
<1>3. QED
  BY <1>1, <1>2, XmlCertificateRead DEF registry

LEMMA XmlGeneratePreserves ==
  ASSUME XInv, XmlGenerateCertificate
  PROVE  XInv'
<1> DEFINE row(i) == CertificateRow(Certificate.subject, Certificate.issuer,
                                    Certificate.type, i)
<1>1. /\ phase = "certificates" /\ entry <= Len(config.certificates)
      /\ Certificate.type \in {"CLIENT", "SERVER", "OCSP_SIGNING"}
      /\ UNCHANGED <<config, mode, initialized>>
  BY DEF XmlGenerateCertificate, GenerateCertificate, AtCertificate
<1>2. Certificate \in Entry /\ certificates \in Seq(Row)
  BY <1>1, XmlEntryTyped DEF XInv, XmlTyped
<1>3. CASE /\ \E i \in AuthorityIds(certificates, Certificate.issuer) :
                certificates' = Append(certificates, row(i))
           /\ IF Certificate.type = "OCSP_SIGNING"
              THEN RegisterOcsp(Certificate.issuer, Certificate.subject,
                                Certificate.password, Len(certificates) + 1)
              ELSE UNCHANGED registry
           /\ entry' = entry + 1
           /\ phase' = phase
  <2>1. PICK signer \in AuthorityIds(certificates, Certificate.issuer) :
               certificates' = Append(certificates, row(signer))
    BY <1>3
  <2>2. /\ row(signer) \in Row
        /\ row(signer).subject = Certificate.subject
        /\ row(signer).issuer = Certificate.issuer
        /\ row(signer).type = Certificate.type
        /\ row(signer).signer = signer
    BY <1>1, <1>2, RowTyped DEF Entry, AuthorityIds, CertificateRow
  <2> HIDE DEF row
  <2>3. /\ certificates' \in Seq(Row) /\ XmlGrown
        /\ certificates'[Len(certificates) + 1] = row(signer)
        /\ Len(certificates) + 1 \in DOMAIN certificates'
    BY <1>2, <2>1, <2>2, XmlAppended
  <2>4. XmlIssuance'
    <3>1. /\ signer \in DOMAIN certificates
          /\ certificates[signer].subject = Certificate.issuer
          /\ certificates[signer].type \in AuthorityType
      BY DEF AuthorityIds
    <3>2. QED
      BY <1>2, <2>1, <2>2, <3>1, XmlIssued DEF XInv
  <2>5. XmlTyped'
    BY <1>1, <1>3, <2>3 DEF XInv, XmlTyped
  <2>6. /\ XmlRegistryAgrees' /\ caPassword' = caPassword
        /\ IF Certificate.type = "OCSP_SIGNING"
           THEN DOMAIN ocspPassword' = DOMAIN ocspPassword \cup {Certificate.subject}
           ELSE DOMAIN ocspPassword' = DOMAIN ocspPassword
    <3>1. CASE Certificate.type = "OCSP_SIGNING"
      <4>1. Len(certificates) + 1 \in CertificateIds(certificates', Certificate.subject)
        BY <2>2, <2>3, <3>1 DEF CertificateIds, AuthorityType
      <4>2. /\ RegisterOcsp(Certificate.issuer, Certificate.subject,
                            Certificate.password, Len(certificates) + 1)
            /\ XmlRegistryAgrees /\ XmlGrown
        BY <1>3, <2>3, <3>1 DEF XInv
      <4>3. /\ XmlRegistryAgrees' /\ UNCHANGED <<caPassword, caIndex>>
            /\ DOMAIN ocspPassword' = DOMAIN ocspPassword \cup {Certificate.subject}
        BY <4>1, <4>2, XmlSignerRegistered
      <4>4. QED
        BY <3>1, <4>3
    <3>2. CASE Certificate.type # "OCSP_SIGNING"
      BY <1>3, <2>3, <3>2, XmlMapsKept DEF XInv, registry
    <3>3. QED
      BY <3>1, <3>2
  <2>7. QED
    BY <1>1, <1>3, <2>4, <2>5, <2>6, XmlCertificateRead
<1>4. CASE Throw /\ UNCHANGED <<certificates, registry, entry>>
  BY <1>1, <1>4, XmlEnds DEF XInv, XmlTyped, Throw, registry
<1>5. QED
  BY <1>3, <1>4 DEF XmlGenerateCertificate, GenerateCertificate

LEMMA XmlLoadOcspPreserves ==
  ASSUME XInv, XmlLoadOcsp
  PROVE  XInv'
<1>1. /\ phase = "certificates" /\ entry <= Len(config.certificates)
      /\ UNCHANGED <<certificates, config, phase, mode, initialized>>
      /\ entry' = entry + 1
  BY DEF XmlLoadOcsp, LoadOcsp, AtCertificate, database, history
<1>2. XmlTyped' /\ XmlIssuance'
  BY <1>1 DEF XInv, XmlTyped, XmlIssuance, FromMaster
<1>3. CASE Certificate.type = "OCSP_SIGNING"
  <2>1. PICK id, c \in CertificateIds(certificates, Certificate.subject) :
          RegisterOcsp(certificates[c].issuer, Certificate.subject,
                       Certificate.password, id)
    BY <1>3 DEF XmlLoadOcsp, LoadOcsp
  <2>2. XmlGrown /\ id \in CertificateIds(certificates', Certificate.subject)
    BY <1>1, <2>1 DEF XmlGrown, FromMaster
  <2>3. /\ XmlRegistryAgrees' /\ caPassword' = caPassword
        /\ DOMAIN ocspPassword' = DOMAIN ocspPassword \cup {Certificate.subject}
    BY <2>1, <2>2, XmlSignerRegistered DEF XInv
  <2>4. QED
    BY <1>1, <1>2, <1>3, <2>3, XmlCertificateRead
<1>4. CASE Certificate.type # "OCSP_SIGNING"
  <2>1. UNCHANGED registry
    BY <1>4 DEF XmlLoadOcsp, LoadOcsp
  <2>2. XmlRegistryAgrees'
    BY <1>1, <2>1, XmlNothing DEF XInv, registry
  <2>3. QED
    BY <1>1, <1>2, <1>4, <2>1, <2>2, XmlCertificateRead DEF registry
<1>5. QED
  BY <1>3, <1>4

-----------------------------------------------------------------------------
(* The master.                                                              *)
LEMMA XmlAskPreserves ==
  ASSUME XInv, XmlRequestAuthorityFromMaster \/ XmlRequestCertificateFromMaster
  PROVE  XInv'
<1>1. PICK e, asking :
        /\ XmlRequestFromMaster(e, asking)
        /\ \/ /\ phase = "authorities" /\ entry <= Len(config.authorities)
              /\ asking = "askingAuthority"
           \/ /\ phase = "certificates" /\ entry <= Len(config.certificates)
              /\ asking = "askingCertificate"
  BY DEF XmlRequestAuthorityFromMaster, XmlRequestCertificateFromMaster,
     AtAuthority, AtCertificate
<1>2. /\ config.master
      /\ UNCHANGED <<certificates, config, mode, registry, initialized>>
  BY <1>1 DEF XmlRequestFromMaster, SignedByMaster, ReadAbsentPassword, database,
     history
<1>3. \/ phase' = "down" /\ entry' = entry
      \/ phase' = asking /\ entry' = entry
      \/ phase' = phase /\ entry' = entry + 1
  BY <1>1 DEF XmlRequestFromMaster, ReadAbsentPassword
<1>4. CASE phase' = "down" /\ entry' = entry
  BY <1>2, <1>4, XmlEnds DEF XInv, XmlTyped, registry
<1>5. CASE phase' = asking /\ entry' = entry
  <2>1. SigningAgrees' /\ AskingAgrees' /\ XmlTyped'
    BY <1>1, <1>2, <1>5 DEF SigningAgrees, AskingAgrees, XInv, XmlTyped
  <2>2. /\ AuthoritiesRead' \subseteq AuthoritiesRead
        /\ CertificatesRead' \subseteq CertificatesRead
    BY <1>1, <1>2, <1>5 DEF AuthoritiesRead, CertificatesRead
  <2>3. QED
    BY <1>1, <1>2, <1>5, <2>1, <2>2, XmlNothingRead DEF registry
<1>6. CASE phase' = phase /\ entry' = entry + 1
  <2>1. XmlTyped' /\ XmlRegistryAgrees' /\ XmlIssuance'
    BY <1>2, <1>6, XmlNothing DEF XInv, XmlTyped, registry
  <2>2. CASE phase = "authorities"
    BY <1>1, <1>2, <1>6, <2>1, <2>2, XmlAuthorityRead DEF registry
  <2>3. CASE phase = "certificates"
    BY <1>1, <1>2, <1>6, <2>1, <2>3, XmlCertificateRead DEF registry
  <2>4. QED
    BY <1>1, <2>2, <2>3
<1>7. QED
  BY <1>3, <1>4, <1>5, <1>6

LEMMA XmlAnswerPreserves ==
  ASSUME XInv, NEW resume \in {"authorities", "certificates"},
         XmlMasterIssuesNone(resume) \/ XmlMasterIssues(resume)
  PROVE  XInv'
<1>1. /\ phase' = resume /\ entry' = entry + 1
      /\ UNCHANGED <<config, mode, initialized>>
      /\ \/ /\ resume = "authorities" /\ phase = "askingAuthority"
            /\ Asked = Authority
         \/ /\ resume = "certificates" /\ phase = "askingCertificate"
            /\ Asked = Certificate
  BY DEF XmlMasterIssuesNone, XmlMasterIssues, MasterAnswered, Asked
<1>2. /\ config.master /\ Asked \in Entry
      /\ resume = "authorities" => entry <= Len(config.authorities)
      /\ resume = "certificates" => entry <= Len(config.certificates)
  BY <1>1, XmlEntryTyped DEF XInv, AskingAgrees
<1>3. /\ XmlTyped' /\ XmlRegistryAgrees' /\ XmlIssuance'
      /\ DOMAIN caPassword \subseteq DOMAIN caPassword'
  <2>1. CASE XmlMasterIssuesNone(resume)
    <3>1. UNCHANGED <<certificates, caPassword, caIndex, ocspPassword, ocspIndex,
                      caOcsp>>
      BY <2>1 DEF XmlMasterIssuesNone, registry
    <3>2. QED
      BY <1>1, <3>1, XmlNothing DEF XInv, XmlTyped
  <2>2. CASE XmlMasterIssues(resume)
    <3> DEFINE row == CertificateRow(Asked.subject, Asked.issuer, Asked.type, 0)
    <3>1. /\ certificates' = Append(certificates, row)
          /\ RegisterAuthority(Asked.subject, Asked.password, Len(certificates) + 1)
      BY <2>2 DEF XmlMasterIssues
    <3>2. /\ row \in Row /\ row.subject = Asked.subject /\ row.signer = 0
      BY <1>2, RowTyped DEF Entry, CertificateRow
    <3> HIDE DEF row
    <3>3. certificates \in Seq(Row)
      BY DEF XInv, XmlTyped
    <3>4. /\ certificates' \in Seq(Row) /\ XmlGrown
          /\ certificates'[Len(certificates) + 1] = row
          /\ Len(certificates) + 1 \in DOMAIN certificates'
      BY <3>1, <3>2, <3>3, XmlAppended
    <3>5. Len(certificates) + 1 \in AuthorityIds(certificates', Asked.subject)
                 \cup (FromMaster' \cap CertificateIds(certificates', Asked.subject))
      BY <3>2, <3>4 DEF AuthorityIds, CertificateIds, FromMaster
    <3>6. /\ XmlRegistryAgrees'
          /\ DOMAIN caPassword' = DOMAIN caPassword \cup {Asked.subject}
      BY <3>1, <3>4, <3>5, XmlRegistered DEF XInv
    <3>7. XmlIssuance'
      BY <3>1, <3>2, <3>3, XmlIssued DEF XInv
    <3>8. XmlTyped'
      BY <1>1, <3>4 DEF XInv, XmlTyped
    <3>9. QED
      BY <3>6, <3>7, <3>8
  <2>3. QED
    BY <2>1, <2>2
<1>4. CASE resume = "authorities"
  BY <1>1, <1>2, <1>3, <1>4, XmlAuthorityRead
<1>5. CASE resume = "certificates"
  BY <1>1, <1>2, <1>3, <1>5, XmlCertificateRead
<1>6. QED
  BY <1>4, <1>5

-----------------------------------------------------------------------------
(* The ends of the loops and of the start.                                  *)
LEMMA XmlDonePreserves ==
  ASSUME XInv,
         \/ XmlAuthoritiesDone \/ XmlCertificatesDone \/ XmlCheckOcsp
         \/ XmlPublishRevocationLists
  PROVE  XInv'
<1>1. /\ UNCHANGED <<certificates, config, mode, initialized, caPassword, caIndex,
                     ocspPassword, ocspIndex, caOcsp>>
      /\ \/ /\ phase = "authorities" /\ phase' = "certificates" /\ entry' = 1
            /\ entry > Len(config.authorities)
         \/ /\ phase = "certificates" /\ phase' = "coherence" /\ entry' = entry
            /\ entry > Len(config.certificates)
         \/ phase = "coherence" /\ phase' \in {"publishing", "down"} /\ entry' = entry
         \/ phase = "publishing" /\ phase' = "serving" /\ entry' = entry
  BY DEF XmlAuthoritiesDone, AuthoritiesDone, XmlCertificatesDone, CertificatesDone,
     XmlCheckOcsp, CheckOcsp, XmlPublishRevocationLists, PublishRevocationLists,
     Throw, database, registry, history
<1>2. CASE phase' = "down"
  BY <1>1, <1>2, XmlEnds DEF XInv, XmlTyped
<1>3. CASE phase' # "down"
  <2>1. SigningAgrees' /\ AskingAgrees' /\ XmlTyped'
    BY <1>1, <1>3 DEF SigningAgrees, AskingAgrees, XInv, XmlTyped
  <2>2. /\ \A k \in DOMAIN config.authorities \cup DOMAIN config.certificates :
             k \in Nat /\ ~(k < 1)
        /\ \A k \in DOMAIN config.authorities : k <= Len(config.authorities)
        /\ \A k \in DOMAIN config.certificates : k <= Len(config.certificates)
        /\ Len(config.authorities) \in Nat /\ Len(config.certificates) \in Nat
        /\ entry \in Nat
    BY XmlEntryTyped DEF XInv, XmlTyped
  <2>3. AuthoritiesRead' \subseteq AuthoritiesRead
    BY <1>1, <1>3, <2>2 DEF AuthoritiesRead
  <2>4. CertificatesRead' \subseteq CertificatesRead
    BY <1>1, <1>3, <2>2 DEF CertificatesRead
  <2>5. QED
    BY <1>1, <1>3, <2>1, <2>3, <2>4, XmlNothingRead
<1>4. QED
  BY <1>2, <1>3

-----------------------------------------------------------------------------
(* The inductive invariant.                                                 *)
LEMMA InitXInv == Init => XInv
<1> SUFFICES ASSUME Init PROVE XInv
  OBVIOUS
<1>1. XmlTyped /\ XmlRegistryAgrees /\ XmlIssuance
  BY DEF Init, EmptyMap, XmlTyped, XmlRegistryAgrees, XmlIssuance
<1>2. /\ SigningAgrees /\ AskingAgrees /\ RegistryEmpty /\ LoopBegins
  BY DEF Init, SigningAgrees, AskingAgrees, RegistryEmpty, LoopBegins
<1>3. XmlKnows
  BY DEF Init, XmlKnows, AuthoritiesKnown, AuthoritiesListed, SignersKnown, SignersListed,
     AuthoritiesRead, CertificatesRead
<1>4. QED
  BY <1>1, <1>2, <1>3 DEF XInv

LEMMA NextXInv == XInv /\ [XmlNext]_startupVars => XInv'
<1> SUFFICES ASSUME XInv, [XmlNext]_startupVars PROVE XInv'
  OBVIOUS
<1>1. ASSUME NEW m \in {"initialize", "load"}, Start(m)
      PROVE  XInv'
  BY <1>1, XmlStartPreserves
<1>2. CASE EditConfiguration \/ Crash
  BY <1>2, XmlEndSteps
<1>3. ASSUME NEW resume \in {"authorities", "certificates"},
             \/ XmlRequestLost(resume) \/ XmlMasterFails(resume)
             \/ XmlMasterIssuesNone(resume) \/ XmlMasterIssues(resume)
      PROVE  XInv'
  BY <1>3, XmlEndSteps, XmlAnswerPreserves
<1>4. CASE XmlConfigure
  BY <1>3, <1>4, XmlInitializePreserves, XmlEndSteps, XmlSelfSignedPreserves,
     XmlSignPreserves, XmlRequestPreserves, XmlSkipPreserves,
     XmlLoadAuthorityPreserves, XmlSkipCertificatePreserves,
     XmlGeneratePreserves, XmlLoadOcspPreserves, XmlAskPreserves,
     XmlDonePreserves
  DEF XmlConfigure
<1>5. CASE UNCHANGED startupVars
  <2>1. UNCHANGED <<certificates, config, phase, mode, entry, caPassword, caIndex,
                    ocspPassword, ocspIndex, caOcsp, initialized>>
    BY <1>5 DEF startupVars, database, registry, history
  <2>2. XmlTyped' /\ XmlRegistryAgrees' /\ XmlIssuance'
    BY <2>1, XmlNothing DEF XInv, XmlTyped
  <2>3. /\ SigningAgrees' /\ AskingAgrees' /\ RegistryEmpty' /\ LoopBegins'
    BY <2>1 DEF XInv, SigningAgrees, AskingAgrees, RegistryEmpty, LoopBegins,
       Authority
  <2>4. XmlKnows'
    BY <2>1 DEF XInv, XmlKnows, AuthoritiesKnown, AuthoritiesListed, SignersKnown, SignersListed,
       AuthoritiesRead, CertificatesRead
  <2>5. QED
    BY <2>2, <2>3, <2>4 DEF XInv
<1>6. QED
  BY <1>1, <1>2, <1>4, <1>5 DEF XmlNext

(* What the server that is configured from XML knows, registers and signs is*)
(* inductive, through every start, request, load and crash.                 *)
THEOREM XmlInvariant == XmlSpec => []XInv
<1>1. Init => XInv
  BY InitXInv
<1>2. XInv /\ [XmlNext]_startupVars => XInv'
  BY NextXInv
<1>3. QED
  BY <1>1, <1>2, PTL DEF XmlSpec

(* Whatever the master issued and however often the process was restarted,  *)
(* each certificate that is not the master's names the owner of the key it  *)
(* was signed with, an authority's or one the master issued.                *)
THEOREM XmlIssuanceCorrect == XmlSpec => []XmlIssuance
<1>1. XInv => XmlIssuance
  BY DEF XInv
<1>2. QED
  BY <1>1, XmlInvariant, PTL

(* The maps agree with each other and with the database; a server that      *)
(* serves without a master knows what its configuration lists.              *)
THEOREM XmlRegistryCorrect == XmlSpec => []XmlRegistryRight
<1>1. XInv => XmlRegistryRight
  <2>1. ASSUME XInv, ~config.master, phase = "serving"
        PROVE  /\ \A k \in DOMAIN config.authorities :
                    CoherentAuthority(config.authorities[k])
                      => config.authorities[k].subject \in DOMAIN caPassword
               /\ \A n \in DOMAIN caPassword : \E k \in DOMAIN config.authorities :
                    /\ config.authorities[k].subject = n
                    /\ config.authorities[k].password = caPassword[n]
               /\ \A k \in DOMAIN config.certificates :
                    config.certificates[k].type = "OCSP_SIGNING"
                      => config.certificates[k].subject \in DOMAIN ocspPassword
               /\ \A n \in DOMAIN ocspPassword : \E k \in DOMAIN config.certificates :
                    /\ config.certificates[k].type = "OCSP_SIGNING"
                    /\ config.certificates[k].subject = n
    BY <2>1 DEF XInv, XmlKnows, AuthoritiesKnown, AuthoritiesListed, SignersKnown, SignersListed,
       AuthoritiesRead, CertificatesRead
  <2>2. QED
    BY <2>1 DEF XInv, XmlRegistryRight, XmlRegistryMatches,
       RegistryMatchesConfiguration
<1>2. QED
  BY <1>1, XmlInvariant, PTL

-----------------------------------------------------------------------------
(* What an initialisation accepted, and what the database keeps of it.      *)

(* The configurations whose initialisations a load has to accept.           *)
XmlLocal(c) == ~c.master /\ CoherentAuthorities(c)

XmlAuthoritiesAccepted(t, c, ks) ==
  \A k \in ks : LET e == c.authorities[k] IN
    XmlLoadable(e) /\ AuthorityIds(t, e.subject) # {}

XmlCertificatesAccepted(t, c, ks) ==
  \A k \in ks : LET e == c.certificates[k] IN
    /\ ~XmlEntryRejected(e)
    /\ e.type = "OCSP_SIGNING" => CertificateIds(t, e.subject) # {}

AuthorityNames(c, ks) == {c.authorities[k].subject : k \in ks}

SignerNames(c, ks) ==
  {c.certificates[k].subject :
     k \in {j \in ks : c.certificates[j].type = "OCSP_SIGNING"}}

(* The verdict of CheckOcsp, from the configuration alone.                  *)
OcspAccepted(c) ==
  LET signers == SignerNames(c, DOMAIN c.certificates) IN
  signers = {} \/ Cardinality(signers)
                    = Cardinality(AuthorityNames(c, DOMAIN c.authorities))

XmlBuilt ==
  \A b \in built : XmlLocal(b.config) =>
    /\ XmlAuthoritiesAccepted(certificates, b.config, DOMAIN b.config.authorities)
    /\ XmlCertificatesAccepted(certificates, b.config, DOMAIN b.config.certificates)
    /\ OcspAccepted(b.config)

(* The same of the process that runs, as far as it has read.                *)
XmlProcess ==
  phase # "down" /\ XmlLocal(config) =>
    /\ mode = "initialize" =>
         /\ XmlAuthoritiesAccepted(certificates, config, AuthoritiesRead)
         /\ XmlCertificatesAccepted(certificates, config, CertificatesRead)
    /\ DOMAIN caPassword = AuthorityNames(config, AuthoritiesRead)
    /\ DOMAIN ocspPassword = SignerNames(config, CertificatesRead)
    /\ DOMAIN caOcsp = {} <=> DOMAIN ocspPassword = {}
    /\ phase = "signing" => ~XmlEntryRejected(Authority)
    /\ phase \in {"publishing", "serving"} => OcspAccepted(config)

XAcc == XmlBuilt /\ XmlProcess

(* Growing the table takes nothing back.                                    *)
LEMMA XmlStillAccepted ==
  ASSUME XmlGrown, NEW c, NEW ks
  PROVE  /\ XmlAuthoritiesAccepted(certificates, c, ks)
              => XmlAuthoritiesAccepted(certificates', c, ks)
         /\ XmlCertificatesAccepted(certificates, c, ks)
              => XmlCertificatesAccepted(certificates', c, ks)
  BY DEF XmlGrown, XmlAuthoritiesAccepted, XmlCertificatesAccepted

LEMMA XmlBuiltKept ==
  ASSUME XmlBuilt, XmlGrown, built' = built
  PROVE  XmlBuilt'
<1>1. SUFFICES ASSUME NEW b \in built, XmlLocal(b.config)
               PROVE  /\ XmlAuthoritiesAccepted(certificates', b.config,
                                                DOMAIN b.config.authorities)
                      /\ XmlCertificatesAccepted(certificates', b.config,
                                                 DOMAIN b.config.certificates)
                      /\ OcspAccepted(b.config)
  BY DEF XmlBuilt
<1>2. QED
  BY <1>1, XmlStillAccepted DEF XmlBuilt

(* Nothing stored: the table is as grown as it was.                         *)
LEMMA XmlSame ==
  ASSUME certificates' = certificates
  PROVE  XmlGrown
  BY DEF XmlGrown, FromMaster

(* A process that ends, and one that has a master.                          *)
LEMMA XmlEndsAccepted ==
  ASSUME XAcc, XmlGrown, built' = built,
         phase' = "down" \/ config'.master
  PROVE  XAcc'
<1>1. XmlBuilt'
  BY XmlBuiltKept DEF XAcc
<1>2. XmlProcess'
  BY DEF XmlProcess, XmlLocal
<1>3. QED
  BY <1>1, <1>2 DEF XAcc

(* The loop over the authorities accepts one of them.                       *)
LEMMA XmlAuthorityAccepted ==
  ASSUME XInv, XAcc, XmlGrown, built' = built,
         phase \in {"authorities", "signing"}, phase' = "authorities",
         entry <= Len(config.authorities), entry' = entry + 1,
         UNCHANGED <<config, mode, ocspPassword, caOcsp>>,
         XmlLocal(config) =>
           /\ DOMAIN caPassword' = DOMAIN caPassword \cup {Authority.subject}
           /\ mode = "initialize" =>
                /\ XmlLoadable(Authority)
                /\ AuthorityIds(certificates', Authority.subject) # {}
  PROVE  XAcc'
<1>1. XmlBuilt'
  BY XmlBuiltKept DEF XAcc
<1>2. ASSUME XmlLocal(config)
      PROVE  /\ mode = "initialize" =>
                  /\ XmlAuthoritiesAccepted(certificates', config, AuthoritiesRead')
                  /\ XmlCertificatesAccepted(certificates', config, CertificatesRead')
             /\ DOMAIN caPassword' = AuthorityNames(config, AuthoritiesRead')
             /\ DOMAIN ocspPassword' = SignerNames(config, CertificatesRead')
             /\ DOMAIN caOcsp' = {} <=> DOMAIN ocspPassword' = {}
  <2>1. /\ mode = "initialize" => XmlAuthoritiesAccepted(certificates, config, AuthoritiesRead)
        /\ DOMAIN caPassword = AuthorityNames(config, AuthoritiesRead)
        /\ DOMAIN ocspPassword = SignerNames(config, CertificatesRead)
        /\ DOMAIN caOcsp = {} <=> DOMAIN ocspPassword = {}
    BY <1>2 DEF XAcc, XmlProcess
  <2>2. entry \in DOMAIN config.authorities /\ Authority = config.authorities[entry]
    BY XmlEntryTyped DEF XInv, Authority
  <2>3. AuthoritiesRead' = AuthoritiesRead \cup {entry}
    <3>1. ASSUME NEW k \in DOMAIN config.authorities
          PROVE  k < entry + 1 <=> k < entry \/ k = entry
      <4>1. k \in Nat /\ entry \in Nat
        BY XmlEntryTyped DEF XInv, XmlTyped
      <4>2. QED
        BY <4>1
    <3>2. QED
      BY <2>2, <3>1 DEF AuthoritiesRead
  <2>4. CertificatesRead = {} /\ CertificatesRead' = {}
    BY DEF CertificatesRead
  <2>5. mode = "initialize" =>
          XmlAuthoritiesAccepted(certificates', config, AuthoritiesRead')
    <3>1. SUFFICES ASSUME mode = "initialize"
                   PROVE  XmlAuthoritiesAccepted(certificates', config, AuthoritiesRead')
      OBVIOUS
    <3>2. XmlAuthoritiesAccepted(certificates', config, AuthoritiesRead)
      BY <2>1, <3>1, XmlStillAccepted
    <3>3. QED
      BY <1>2, <2>2, <2>3, <3>1, <3>2 DEF XmlAuthoritiesAccepted
  <2>6. DOMAIN caPassword' = AuthorityNames(config, AuthoritiesRead')
    BY <1>2, <2>1, <2>2, <2>3 DEF AuthorityNames
  <2>7. QED
    BY <2>1, <2>4, <2>5, <2>6 DEF XmlCertificatesAccepted
<1>3. XmlProcess'
  BY <1>2 DEF XmlProcess
<1>4. QED
  BY <1>1, <1>3 DEF XAcc

(* The loop over the certificates accepts one of them.                      *)
LEMMA XmlCertificateAccepted ==
  ASSUME XInv, XAcc, XmlGrown, built' = built,
         phase = "certificates", phase' = "certificates",
         entry <= Len(config.certificates), entry' = entry + 1,
         UNCHANGED <<config, mode, caPassword>>,
         ~XmlEntryRejected(Certificate),
         IF Certificate.type = "OCSP_SIGNING"
         THEN /\ DOMAIN ocspPassword' = DOMAIN ocspPassword \cup {Certificate.subject}
              /\ DOMAIN caOcsp' # {}
              /\ CertificateIds(certificates', Certificate.subject) # {}
         ELSE UNCHANGED <<ocspPassword, caOcsp>>
  PROVE  XAcc'
<1>1. XmlBuilt'
  BY XmlBuiltKept DEF XAcc
<1>2. ASSUME XmlLocal(config)
      PROVE  /\ mode = "initialize" =>
                  /\ XmlAuthoritiesAccepted(certificates', config, AuthoritiesRead')
                  /\ XmlCertificatesAccepted(certificates', config, CertificatesRead')
             /\ DOMAIN caPassword' = AuthorityNames(config, AuthoritiesRead')
             /\ DOMAIN ocspPassword' = SignerNames(config, CertificatesRead')
             /\ DOMAIN caOcsp' = {} <=> DOMAIN ocspPassword' = {}
  <2>1. /\ mode = "initialize" =>
             /\ XmlAuthoritiesAccepted(certificates, config, AuthoritiesRead)
             /\ XmlCertificatesAccepted(certificates, config, CertificatesRead)
        /\ DOMAIN caPassword = AuthorityNames(config, AuthoritiesRead)
        /\ DOMAIN ocspPassword = SignerNames(config, CertificatesRead)
        /\ DOMAIN caOcsp = {} <=> DOMAIN ocspPassword = {}
    BY <1>2 DEF XAcc, XmlProcess
  <2>2. entry \in DOMAIN config.certificates /\ Certificate = config.certificates[entry]
    BY XmlEntryTyped DEF XInv, Certificate
  <2>3. CertificatesRead' = CertificatesRead \cup {entry}
    <3>1. ASSUME NEW k \in DOMAIN config.certificates
          PROVE  k < entry + 1 <=> k < entry \/ k = entry
      <4>1. k \in Nat /\ entry \in Nat
        BY XmlEntryTyped DEF XInv, XmlTyped
      <4>2. QED
        BY <4>1
    <3>2. QED
      BY <2>2, <3>1 DEF CertificatesRead
  <2>4. AuthoritiesRead' = AuthoritiesRead
    BY DEF AuthoritiesRead
  <2>5. ASSUME mode = "initialize"
        PROVE  /\ XmlAuthoritiesAccepted(certificates', config, AuthoritiesRead')
               /\ XmlCertificatesAccepted(certificates', config, CertificatesRead')
    <3>1. /\ XmlAuthoritiesAccepted(certificates', config, AuthoritiesRead)
          /\ XmlCertificatesAccepted(certificates', config, CertificatesRead)
      BY <2>1, <2>5, XmlStillAccepted
    <3>2. QED
      BY <2>2, <2>3, <2>4, <3>1 DEF XmlCertificatesAccepted
  <2>6. DOMAIN ocspPassword' = SignerNames(config, CertificatesRead')
    BY <2>1, <2>2, <2>3 DEF SignerNames
  <2>7. DOMAIN caOcsp' = {} <=> DOMAIN ocspPassword' = {}
    BY <2>1
  <2>8. QED
    BY <2>1, <2>4, <2>5, <2>6, <2>7
<1>3. XmlProcess'
  BY <1>2 DEF XmlProcess
<1>4. QED
  BY <1>1, <1>3 DEF XAcc

(* A step that reads no entry and registers nothing.                        *)
LEMMA XmlReadsKept ==
  ASSUME XAcc, XmlGrown, built' = built,
         phase # "down",
         UNCHANGED <<config, mode, caPassword, ocspPassword, caOcsp>>,
         AuthoritiesRead' = AuthoritiesRead, CertificatesRead' = CertificatesRead,
         XmlLocal(config) =>
           /\ phase' = "signing" => ~XmlEntryRejected(Authority')
           /\ phase' \in {"publishing", "serving"} => OcspAccepted(config)
  PROVE  XAcc'
<1>1. XmlBuilt'
  BY XmlBuiltKept DEF XAcc
<1>2. ASSUME XmlLocal(config)
      PROVE  /\ mode = "initialize" =>
                  /\ XmlAuthoritiesAccepted(certificates', config, AuthoritiesRead)
                  /\ XmlCertificatesAccepted(certificates', config, CertificatesRead)
             /\ DOMAIN caPassword = AuthorityNames(config, AuthoritiesRead)
             /\ DOMAIN ocspPassword = SignerNames(config, CertificatesRead)
             /\ DOMAIN caOcsp = {} <=> DOMAIN ocspPassword = {}
  <2>1. /\ mode = "initialize" =>
             /\ XmlAuthoritiesAccepted(certificates, config, AuthoritiesRead)
             /\ XmlCertificatesAccepted(certificates, config, CertificatesRead)
        /\ DOMAIN caPassword = AuthorityNames(config, AuthoritiesRead)
        /\ DOMAIN ocspPassword = SignerNames(config, CertificatesRead)
        /\ DOMAIN caOcsp = {} <=> DOMAIN ocspPassword = {}
    BY <1>2 DEF XAcc, XmlProcess
  <2>2. QED
    BY <2>1, XmlStillAccepted
<1>3. XmlProcess'
  <2>1. SUFFICES ASSUME phase' # "down", XmlLocal(config)
                 PROVE  /\ mode' = "initialize" =>
                             /\ XmlAuthoritiesAccepted(certificates', config, AuthoritiesRead')
                             /\ XmlCertificatesAccepted(certificates', config, CertificatesRead')
                        /\ DOMAIN caPassword' = AuthorityNames(config, AuthoritiesRead')
                        /\ DOMAIN ocspPassword' = SignerNames(config, CertificatesRead')
                        /\ DOMAIN caOcsp' = {} <=> DOMAIN ocspPassword' = {}
                        /\ phase' = "signing" => ~XmlEntryRejected(Authority')
                        /\ phase' \in {"publishing", "serving"} => OcspAccepted(config)
    BY DEF XmlProcess
  <2>2. QED
    BY <1>2, <2>1
<1>4. QED
  BY <1>1, <1>3 DEF XAcc

(* A process that begins has read nothing.                                  *)
LEMMA XmlBeginsAccepted ==
  ASSUME XInv, XmlBuilt', config' = config, entry' = 1,
         phase' \in {"initializing", "authorities"},
         DOMAIN caPassword' = {}, DOMAIN ocspPassword' = {}, DOMAIN caOcsp' = {}
  PROVE  XAcc'
<1>1. \A k \in DOMAIN config.authorities : ~(k < 1)
  BY XmlEntryTyped DEF XInv
<1>2. AuthoritiesRead' = {} /\ CertificatesRead' = {}
  BY <1>1 DEF AuthoritiesRead, CertificatesRead
<1>3. XmlProcess'
  BY <1>2 DEF XmlProcess, XmlAuthoritiesAccepted, XmlCertificatesAccepted,
     AuthorityNames, SignerNames
<1>4. QED
  BY <1>3 DEF XAcc

LEMMA XmlStartAccepted ==
  ASSUME XInv, XAcc, NEW m \in {"initialize", "load"}, Start(m)
  PROVE  XAcc'
<1>1. /\ UNCHANGED <<certificates, config, built>> /\ entry' = 1
      /\ phase' \in {"initializing", "authorities"}
      /\ DOMAIN caPassword' = {} /\ DOMAIN ocspPassword' = {} /\ DOMAIN caOcsp' = {}
  BY DEF Start, EmptyMap, database
<1>2. XmlBuilt'
  BY <1>1, XmlBuiltKept, XmlSame DEF XAcc
<1>3. QED
  BY <1>1, <1>2, XmlBeginsAccepted

LEMMA XmlInitializeAccepted ==
  ASSUME XInv, XAcc, XmlInitializeDatabase
  PROVE  XAcc'
<1>1. built' = {} /\ config' = config /\ entry' = entry /\ entry = 1
      /\ UNCHANGED <<caPassword, ocspPassword, caOcsp>>
      /\ phase' \in {"authorities", "down"}
  BY DEF XInv, LoopBegins, XmlInitializeDatabase, registry, Throw
<1>2. DOMAIN caPassword = {} /\ DOMAIN ocspPassword = {} /\ DOMAIN caOcsp = {}
  BY DEF XInv, RegistryEmpty, XmlInitializeDatabase, XmlRegistryAgrees
<1>3. XmlBuilt'
  BY <1>1 DEF XmlBuilt
<1>4. CASE phase' = "authorities"
  BY <1>1, <1>2, <1>3, <1>4, XmlBeginsAccepted
<1>5. CASE phase' = "down"
  BY <1>3, <1>5 DEF XAcc, XmlProcess
<1>6. QED
  BY <1>1, <1>4, <1>5

LEMMA XmlEndStepsAccepted ==
  ASSUME XInv, XAcc,
         \/ EditConfiguration \/ Crash \/ XmlRejectAuthority \/ XmlRejectCertificate
         \/ XmlNoAuthorityToSign \/ XmlLoadAuthorityCrashes
         \/ XmlLoadAuthorityThrows \/ XmlLoadOcspCrashes \/ XmlLoadOcspThrows
         \/ \E resume : XmlRequestLost(resume) \/ XmlMasterFails(resume)
  PROVE  XAcc'
<1>1. phase' = "down" /\ UNCHANGED <<certificates, built>>
  BY DEF EditConfiguration, Crash, XmlRejectAuthority, XmlRejectCertificate,
     XmlNoAuthorityToSign, XmlLoadAuthorityCrashes, XmlLoadAuthorityThrows,
     XmlLoadOcspCrashes, XmlLoadOcspThrows, XmlRequestLost, XmlMasterFails,
     ReadAbsentPassword, Throw, MasterAnswered, database, history
<1>2. QED
  BY <1>1, XmlSame, XmlEndsAccepted

-----------------------------------------------------------------------------
(* The two loops.                                                           *)

(* A coherent authority whose names are there is one that a load takes.     *)
LEMMA XmlCoherentLoadable ==
  ASSUME XInv, entry <= Len(config.authorities), XmlLocal(config)
  PROVE  /\ CoherentAuthority(Authority)
         /\ ~XmlEntryRejected(Authority) => XmlLoadable(Authority)
<1>1. entry \in DOMAIN config.authorities /\ Authority = config.authorities[entry]
  BY XmlEntryTyped DEF XInv, Authority
<1>2. CoherentAuthority(Authority)
  BY <1>1 DEF XmlLocal, CoherentAuthorities
<1>3. QED
  BY <1>2 DEF CoherentAuthority, XmlLoadable, AuthorityType

LEMMA XmlSelfSignedAccepted ==
  ASSUME XInv, XAcc, XmlGenerateSelfSignedAuthority
  PROVE  XAcc'
<1> DEFINE row == CertificateRow(Authority.subject, Authority.subject,
                                 Authority.type, Len(certificates) + 1)
<1>1. /\ phase = "authorities" /\ entry <= Len(config.authorities)
      /\ Authority.type = "SELF_SIGNED_CA" /\ ~XmlEntryRejected(Authority)
      /\ UNCHANGED <<config, mode, built>>
  BY DEF XmlGenerateSelfSignedAuthority, GenerateSelfSignedAuthority, AtAuthority
<1>2. Authority \in Entry /\ certificates \in Seq(Row) /\ Len(certificates) + 1 \in Nat
  BY <1>1, XmlEntryTyped DEF XInv, XmlTyped
<1>3. /\ row \in Row
      /\ row.subject = Authority.subject /\ row.type = "SELF_SIGNED_CA"
  BY <1>1, <1>2, RowTyped DEF Entry, CertificateRow
<1>4. CASE /\ certificates' = Append(certificates, row)
           /\ RegisterAuthority(Authority.subject, Authority.password,
                                Len(certificates) + 1)
           /\ entry' = entry + 1
           /\ phase' = phase
  <2> HIDE DEF row
  <2>1. /\ certificates' \in Seq(Row) /\ XmlGrown
        /\ certificates'[Len(certificates) + 1] = row
        /\ Len(certificates) + 1 \in DOMAIN certificates'
    BY <1>2, <1>3, <1>4, XmlAppended
  <2>2. Len(certificates) + 1 \in AuthorityIds(certificates', Authority.subject)
    BY <1>3, <2>1 DEF AuthorityIds, AuthorityType
  <2>3. /\ DOMAIN caPassword' = DOMAIN caPassword \cup {Authority.subject}
        /\ UNCHANGED <<ocspPassword, caOcsp>>
    BY <1>4 DEF RegisterAuthority, Insert
  <2>4. QED
    BY <1>1, <1>4, <2>1, <2>2, <2>3, XmlAuthorityAccepted DEF XmlLoadable, AuthorityType
<1>5. CASE Throw /\ UNCHANGED certificates
  BY <1>1, <1>5, XmlSame, XmlEndsAccepted DEF Throw
<1>6. QED
  BY <1>4, <1>5 DEF XmlGenerateSelfSignedAuthority, GenerateSelfSignedAuthority

LEMMA XmlSignAccepted ==
  ASSUME XInv, XAcc, XmlSignAuthority
  PROVE  XAcc'
<1> DEFINE signer == caIndex[Authority.issuer]
           row == CertificateRow(Authority.subject, certificates[signer].subject,
                                 Authority.type, signer)
<1>1. /\ phase = "signing" /\ entry <= Len(config.authorities)
      /\ Authority.issuer \in DOMAIN caIndex
      /\ Authority.type \in {"CA", "INTERMEDIATE_CA"}
      /\ UNCHANGED <<config, mode, built>>
  BY DEF XInv, SigningAgrees, XmlSignAuthority, SignAuthority
<1>2. Authority \in Entry /\ certificates \in Seq(Row) /\ Len(certificates) + 1 \in Nat
  BY <1>1, XmlEntryTyped DEF XInv, XmlTyped
<1>3. signer \in AuthorityIds(certificates, Authority.issuer)
                   \cup (FromMaster \cap CertificateIds(certificates, Authority.issuer))
  BY <1>1 DEF XInv, XmlRegistryAgrees
<1>4. /\ signer \in DOMAIN certificates /\ signer \in Nat
      /\ certificates[signer].subject = Authority.issuer
  BY <1>2, <1>3 DEF AuthorityIds, CertificateIds
<1>5. /\ row \in Row
      /\ row.subject = Authority.subject /\ row.type = Authority.type
  BY <1>2, <1>4, RowTyped DEF Entry, CertificateRow
<1>6. CASE /\ certificates' = Append(certificates, row)
           /\ RegisterAuthority(Authority.subject, Authority.password,
                                Len(certificates) + 1)
           /\ entry' = entry + 1
           /\ phase' = "authorities"
  <2> HIDE DEF row, signer
  <2>1. /\ certificates' \in Seq(Row) /\ XmlGrown
        /\ certificates'[Len(certificates) + 1] = row
        /\ Len(certificates) + 1 \in DOMAIN certificates'
    BY <1>2, <1>5, <1>6, XmlAppended
  <2>2. Len(certificates) + 1 \in AuthorityIds(certificates', Authority.subject)
    BY <1>1, <1>5, <2>1 DEF AuthorityIds, AuthorityType
  <2>3. /\ DOMAIN caPassword' = DOMAIN caPassword \cup {Authority.subject}
        /\ UNCHANGED <<ocspPassword, caOcsp>>
    BY <1>6 DEF RegisterAuthority, Insert
  <2>4. XmlLocal(config) => XmlLoadable(Authority)
    BY <1>1 DEF XAcc, XmlProcess, XmlLoadable, AuthorityType
  <2>5. QED
    BY <1>1, <1>6, <2>1, <2>2, <2>3, <2>4, XmlAuthorityAccepted
<1>7. CASE Throw /\ UNCHANGED certificates
  BY <1>1, <1>7, XmlSame, XmlEndsAccepted DEF Throw
<1>8. QED
  BY <1>6, <1>7 DEF XmlSignAuthority, SignAuthority, SignedAuthority

LEMMA XmlRequestAccepted ==
  ASSUME XInv, XAcc, XmlRequestAuthority
  PROVE  XAcc'
<1>1. /\ phase = "authorities" /\ ~XmlEntryRejected(Authority)
      /\ UNCHANGED <<certificates, config, mode, entry, built>>
      /\ UNCHANGED <<caPassword, ocspPassword, caOcsp>>
      /\ phase' = "signing" \/ Throw
  BY DEF XmlRequestAuthority, RequestAuthority, AtAuthority, registry
<1>2. CASE Throw
  BY <1>1, <1>2, XmlSame, XmlEndsAccepted DEF Throw
<1>3. CASE phase' = "signing"
  <2>1. AuthoritiesRead' = AuthoritiesRead /\ CertificatesRead' = CertificatesRead
    BY <1>1, <1>3 DEF AuthoritiesRead, CertificatesRead
  <2>2. ~XmlEntryRejected(Authority')
    BY <1>1 DEF Authority
  <2>3. QED
    BY <1>1, <1>3, <2>1, <2>2, XmlSame, XmlReadsKept
<1>4. QED
  BY <1>1, <1>2, <1>3

(* Coherent authorities are all generated: none is passed over.             *)
LEMMA XmlSkipAccepted ==
  ASSUME XInv, XAcc, XmlSkipAuthority
  PROVE  XAcc'
<1>1. /\ phase = "authorities" /\ entry <= Len(config.authorities)
      /\ ~CoherentAuthority(Authority)
      /\ UNCHANGED <<certificates, config, phase, mode, built>>
      /\ UNCHANGED <<ocspPassword, caOcsp>>
      /\ entry' = entry + 1
  BY DEF XmlSkipAuthority, SkipAuthority, AtAuthority, SignedLocally,
     CoherentAuthority, SelfSigned, database, history, registry
<1>2. ~XmlLocal(config)
  BY <1>1, XmlCoherentLoadable
<1>3. QED
  BY <1>1, <1>2, XmlSame, XmlAuthorityAccepted

LEMMA XmlLoadAuthorityAccepted ==
  ASSUME XInv, XAcc, XmlLoadAuthority
  PROVE  XAcc'
<1>1. /\ phase = "authorities" /\ entry <= Len(config.authorities)
      /\ UNCHANGED <<certificates, config, phase, mode, built>>
      /\ entry' = entry + 1 /\ mode = "load"
  BY DEF XmlLoadAuthority, LoadAuthority, AtAuthority, database, history
<1>2. PICK id \in AuthorityIds(certificates, Authority.subject) :
        RegisterAuthority(Authority.subject, Authority.password, id)
  BY DEF XmlLoadAuthority, LoadAuthority
<1>3. /\ DOMAIN caPassword' = DOMAIN caPassword \cup {Authority.subject}
      /\ UNCHANGED <<ocspPassword, caOcsp>>
  BY <1>2 DEF RegisterAuthority, Insert
<1>4. QED
  BY <1>1, <1>3, XmlSame, XmlAuthorityAccepted

LEMMA XmlSkipCertificateAccepted ==
  ASSUME XInv, XAcc, XmlSkipCertificate
  PROVE  XAcc'
<1>1. /\ phase = "certificates" /\ entry <= Len(config.certificates)
      /\ Certificate.type # "OCSP_SIGNING" /\ ~XmlEntryRejected(Certificate)
      /\ UNCHANGED <<certificates, config, phase, mode, built>>
      /\ UNCHANGED <<caPassword, ocspPassword, caOcsp>>
      /\ entry' = entry + 1
  BY DEF XmlSkipCertificate, SkipCertificate, AtCertificate, database, history,
     registry
<1>2. QED
  BY <1>1, XmlSame, XmlCertificateAccepted

LEMMA XmlGenerateAccepted ==
  ASSUME XInv, XAcc, XmlGenerateCertificate
  PROVE  XAcc'
<1> DEFINE row(i) == CertificateRow(Certificate.subject, Certificate.issuer,
                                    Certificate.type, i)
<1>1. /\ phase = "certificates" /\ entry <= Len(config.certificates)
      /\ Certificate.type \in {"CLIENT", "SERVER", "OCSP_SIGNING"}
      /\ ~XmlEntryRejected(Certificate)
      /\ UNCHANGED <<config, mode, built>>
  BY DEF XmlGenerateCertificate, GenerateCertificate, AtCertificate
<1>2. Certificate \in Entry /\ certificates \in Seq(Row)
  BY <1>1, XmlEntryTyped DEF XInv, XmlTyped
<1>3. CASE /\ \E i \in AuthorityIds(certificates, Certificate.issuer) :
                certificates' = Append(certificates, row(i))
           /\ IF Certificate.type = "OCSP_SIGNING"
              THEN RegisterOcsp(Certificate.issuer, Certificate.subject,
                                Certificate.password, Len(certificates) + 1)
              ELSE UNCHANGED registry
           /\ entry' = entry + 1
           /\ phase' = phase
  <2>1. PICK signer \in AuthorityIds(certificates, Certificate.issuer) :
               certificates' = Append(certificates, row(signer))
    BY <1>3
  <2>2. /\ row(signer) \in Row
        /\ row(signer).subject = Certificate.subject
        /\ row(signer).type = Certificate.type
    <3>1. signer \in Nat
      BY <1>2 DEF AuthorityIds
    <3>2. QED
      BY <1>2, <3>1, RowTyped DEF Entry, CertificateRow
  <2> HIDE
 DEF row
  <2>3. /\ certificates' \in Seq(Row) /\ XmlGrown
        /\ certificates'[Len(certificates) + 1] = row(signer)
        /\ Len(certificates) + 1 \in DOMAIN certificates'
    BY <1>2, <2>1, <2>2, XmlAppended
  <2>4. CASE Certificate.type = "OCSP_SIGNING"
    <3>1. Len(certificates) + 1 \in CertificateIds(certificates', Certificate.subject)
      BY <2>2, <2>3, <2>4 DEF CertificateIds, AuthorityType
    <3>2. /\ DOMAIN ocspPassword' = DOMAIN ocspPassword \cup {Certificate.subject}
          /\ Certificate.issuer \in DOMAIN caOcsp'
          /\ caPassword' = caPassword
      BY <1>3, <2>4 DEF RegisterOcsp, Insert
    <3>3. QED
      BY <1>1, <1>3, <2>3, <2>4, <3>1, <3>2, XmlCertificateAccepted
  <2>5. CASE Certificate.type # "OCSP_SIGNING"
    <3>1. UNCHANGED <<caPassword, ocspPassword, caOcsp>>
      BY <1>3, <2>5 DEF registry
    <3>2. QED
      BY <1>1, <1>3, <2>3, <2>5, <3>1, XmlCertificateAccepted
  <2>6. QED
    BY <2>4, <2>5
<1>4. CASE Throw /\ UNCHANGED certificates
  BY <1>1, <1>4, XmlSame, XmlEndsAccepted DEF Throw
<1>5. QED
  BY <1>3, <1>4 DEF XmlGenerateCertificate, GenerateCertificate

LEMMA XmlLoadOcspAccepted ==
  ASSUME XInv, XAcc, XmlLoadOcsp
  PROVE  XAcc'
<1>1. /\ phase = "certificates" /\ entry <= Len(config.certificates)
      /\ ~XmlEntryRejected(Certificate)
      /\ UNCHANGED <<certificates, config, phase, mode, built>>
      /\ entry' = entry + 1
  BY DEF XmlLoadOcsp, LoadOcsp, AtCertificate, database, history
<1>2. CASE Certificate.type = "OCSP_SIGNING"
  <2>1. PICK id, c \in CertificateIds(certificates, Certificate.subject) :
          RegisterOcsp(certificates[c].issuer, Certificate.subject,
                       Certificate.password, id)
    BY <1>2 DEF XmlLoadOcsp, LoadOcsp
  <2>2. /\ DOMAIN ocspPassword' = DOMAIN ocspPassword \cup {Certificate.subject}
        /\ certificates[c].issuer \in DOMAIN caOcsp'
        /\ caPassword' = caPassword
    BY <2>1 DEF RegisterOcsp, Insert
  <2>3. QED
    BY <1>1, <1>2, <2>1, <2>2, XmlSame, XmlCertificateAccepted
<1>3. CASE Certificate.type # "OCSP_SIGNING"
  <2>1. UNCHANGED <<caPassword, ocspPassword, caOcsp>>
    BY <1>3 DEF XmlLoadOcsp, LoadOcsp, registry
  <2>2. QED
    BY <1>1, <1>3, <2>1, XmlSame, XmlCertificateAccepted
<1>4. QED
  BY <1>2, <1>3

-----------------------------------------------------------------------------
(* The master, and the end of the start.                                    *)
LEMMA XmlAskAccepted ==
  ASSUME XInv, XAcc,
         \/ XmlRequestAuthorityFromMaster \/ XmlRequestCertificateFromMaster
         \/ \E resume \in {"authorities", "certificates"} :
              XmlMasterIssuesNone(resume)
  PROVE  XAcc'
<1>1. /\ UNCHANGED <<certificates, config, built>>
      /\ config.master
  BY DEF XInv, AskingAgrees, XmlRequestAuthorityFromMaster,
     XmlRequestCertificateFromMaster, XmlRequestFromMaster, SignedByMaster,
     XmlMasterIssuesNone, MasterAnswered, ReadAbsentPassword, database, history
<1>2. QED
  BY <1>1, XmlSame, XmlEndsAccepted

LEMMA XmlAnswerAccepted ==
  ASSUME XInv, XAcc, NEW resume \in {"authorities", "certificates"},
         XmlMasterIssues(resume)
  PROVE  XAcc'
<1>1. /\ UNCHANGED <<config, built>> /\ config.master
      /\ Asked \in Entry
      /\ certificates' = Append(certificates,
           CertificateRow(Asked.subject, Asked.issuer, Asked.type, 0))
  BY XmlEntryTyped DEF XInv, AskingAgrees, XmlMasterIssues, MasterAnswered, Asked
<1>2. CertificateRow(Asked.subject, Asked.issuer, Asked.type, 0) \in Row
  BY <1>1, RowTyped DEF Entry
<1>3. XmlGrown
  BY <1>1, <1>2, XmlAppended DEF XInv, XmlTyped
<1>4. QED
  BY <1>1, <1>3, XmlEndsAccepted

LEMMA XmlDoneAccepted ==
  ASSUME XInv, XAcc, XmlAuthoritiesDone \/ XmlCertificatesDone
  PROVE  XAcc'
<1>1. /\ UNCHANGED <<certificates, config, mode, built>>
      /\ UNCHANGED <<caPassword, ocspPassword, caOcsp>>
      /\ phase' \in {"certificates", "coherence"} /\ phase # "down"
  BY DEF XmlAuthoritiesDone, XmlCertificatesDone, AuthoritiesDone,
     CertificatesDone, database, history, registry
<1>2. entry \in Nat
  BY DEF XInv, XmlTyped
<1>3. AuthoritiesRead' = AuthoritiesRead /\ CertificatesRead' = CertificatesRead
  <2>1. CASE XmlAuthoritiesDone
    <3>1. \A k \in DOMAIN config.authorities : k < entry
      BY <1>2, <2>1, XmlEntryTyped DEF XInv, XmlAuthoritiesDone, AuthoritiesDone
    <3>2. \A k \in DOMAIN config.certificates : ~(k < 1)
      BY XmlEntryTyped DEF XInv
    <3>3. QED
      BY <1>1, <2>1, <3>1, <3>2 DEF XmlAuthoritiesDone, AuthoritiesDone,
         AuthoritiesRead, CertificatesRead
  <2>2. CASE XmlCertificatesDone
    <3>1. \A k \in DOMAIN config.certificates : k < entry
      BY <1>2, <2>2, XmlEntryTyped DEF XInv, XmlCertificatesDone, CertificatesDone
    <3>2. QED
      BY <1>1, <2>2, <3>1 DEF XmlCertificatesDone, CertificatesDone,
         AuthoritiesRead, CertificatesRead
  <2>3. QED
    BY <2>1, <2>2
<1>4. QED
  BY <1>1, <1>3, XmlSame, XmlReadsKept

(* At the coherence check everything has been read: its verdict is the      *)
(* configuration's.                                                         *)
LEMMA XmlVerdict ==
  ASSUME XInv, XAcc, phase = "coherence", XmlLocal(config)
  PROVE  (NoOcsp \/ OcspCountMatches) <=> OcspAccepted(config)
<1>1. /\ AuthoritiesRead = DOMAIN config.authorities
      /\ CertificatesRead = DOMAIN config.certificates
  BY DEF AuthoritiesRead, CertificatesRead
<1>2. /\ DOMAIN caPassword = AuthorityNames(config, AuthoritiesRead)
      /\ DOMAIN ocspPassword = SignerNames(config, CertificatesRead)
      /\ DOMAIN caOcsp = {} <=> DOMAIN ocspPassword = {}
  BY DEF XAcc, XmlProcess
<1>3. DOMAIN ocspPassword = DOMAIN ocspIndex
  BY DEF XInv, XmlRegistryAgrees
<1>4. QED
  BY <1>1, <1>2, <1>3 DEF NoOcsp, OcspCountMatches, OcspAccepted

LEMMA XmlCheckAccepted ==
  ASSUME XInv, XAcc, XmlCheckOcsp
  PROVE  XAcc'
<1>1. /\ UNCHANGED <<certificates, config, mode, built>>
      /\ UNCHANGED <<caPassword, ocspPassword, caOcsp>>
      /\ phase = "coherence"
      /\ \/ Throw
         \/ phase' = "publishing" /\ (NoOcsp \/ OcspCountMatches)
  BY DEF XmlCheckOcsp, CheckOcsp, database, history
<1>2. CASE Throw
  BY <1>1, <1>2, XmlSame, XmlEndsAccepted DEF Throw
<1>3. CASE phase' = "publishing" /\ (NoOcsp \/ OcspCountMatches)
  <2>1. AuthoritiesRead' = AuthoritiesRead /\ CertificatesRead' = CertificatesRead
    BY <1>1, <1>3 DEF AuthoritiesRead, CertificatesRead
  <2>2. XmlLocal(config) => OcspAccepted(config)
    BY <1>1, <1>3, XmlVerdict
  <2>3. QED
    BY <1>1, <1>3, <2>1, <2>2, XmlSame, XmlReadsKept
<1>4. QED
  BY <1>1, <1>2, <1>3

(* What the initialisation that comes to serve leaves is accepted.          *)
LEMMA XmlPublishAccepted ==
  ASSUME XInv, XAcc, XmlPublishRevocationLists
  PROVE  XAcc'
<1>1. /\ UNCHANGED <<certificates, config, mode>>
      /\ UNCHANGED <<caPassword, ocspPassword, caOcsp>>
      /\ phase = "publishing" /\ phase' = "serving"
      /\ \/ built' = built
         \/ /\ mode = "initialize"
            /\ built' = {[config |-> config, registry |-> Registry]}
  BY DEF XmlPublishRevocationLists, PublishRevocationLists, database, registry
<1>2. AuthoritiesRead' = AuthoritiesRead /\ CertificatesRead' = CertificatesRead
      /\ AuthoritiesRead = DOMAIN config.authorities
      /\ CertificatesRead = DOMAIN config.certificates
  BY <1>1 DEF AuthoritiesRead, CertificatesRead
<1>3. XmlLocal(config) =>
        /\ mode = "initialize" =>
             /\ XmlAuthoritiesAccepted(certificates, config, AuthoritiesRead)
             /\ XmlCertificatesAccepted(certificates, config, CertificatesRead)
        /\ DOMAIN caPassword = AuthorityNames(config, AuthoritiesRead)
        /\ DOMAIN ocspPassword = SignerNames(config, CertificatesRead)
        /\ DOMAIN caOcsp = {} <=> DOMAIN ocspPassword = {}
        /\ OcspAccepted(config)
  BY <1>1 DEF XAcc, XmlProcess
<1>4. XmlProcess'
  BY <1>1, <1>2, <1>3 DEF XmlProcess
<1>5. CASE built' = built
  BY <1>1, <1>4, <1>5, XmlSame, XmlBuiltKept DEF XAcc
<1>6. CASE mode = "initialize" /\ built' = {[config |-> config, registry |-> Registry]}
  <2>1. ASSUME NEW b \in built' PROVE b.config = config
    BY <1>6, <2>1
  <2>2. XmlBuilt'
    BY <1>1, <1>2, <1>3, <1>6, <2>1 DEF XmlBuilt
  <2>3. QED
    BY <1>4, <2>2 DEF XAcc
<1>7. QED
  BY <1>1, <1>5, <1>6

LEMMA InitXAcc == Init => XAcc
  BY DEF Init, XAcc, XmlBuilt, XmlProcess

LEMMA NextXAcc == XInv /\ XAcc /\ [XmlNext]_startupVars => XAcc'
<1> SUFFICES ASSUME XInv, XAcc, [XmlNext]_startupVars PROVE XAcc'
  OBVIOUS
<1>1. CASE \E m \in {"initialize", "load"} : Start(m)
  BY <1>1, XmlStartAccepted
<1>2. CASE \/ EditConfiguration \/ Crash \/ XmlRejectAuthority \/ XmlRejectCertificate
           \/ XmlNoAuthorityToSign \/ XmlLoadAuthorityCrashes
           \/ XmlLoadAuthorityThrows \/ XmlLoadOcspCrashes \/ XmlLoadOcspThrows
           \/ \E resume : XmlRequestLost(resume) \/ XmlMasterFails(resume)
  BY <1>2, XmlEndStepsAccepted
<1>3. CASE XmlInitializeDatabase
  BY <1>3, XmlInitializeAccepted
<1>4. CASE XmlGenerateSelfSignedAuthority
  BY <1>4, XmlSelfSignedAccepted
<1>5. CASE XmlSkipAuthority
  BY <1>5, XmlSkipAccepted
<1>6. CASE XmlRequestAuthority
  BY <1>6, XmlRequestAccepted
<1>7. CASE XmlSignAuthority
  BY <1>7, XmlSignAccepted
<1>8. CASE \/ XmlRequestAuthorityFromMaster \/ XmlRequestCertificateFromMaster
           \/ \E resume \in {"authorities", "certificates"} :
                XmlMasterIssuesNone(resume)
  BY <1>8, XmlAskAccepted
<1>9. CASE XmlSkipCertificate
  BY <1>9, XmlSkipCertificateAccepted
<1>10. CASE XmlGenerateCertificate
  BY <1>10, XmlGenerateAccepted
<1>11. CASE \E resume \in {"authorities", "certificates"} : XmlMasterIssues(resume)
  BY <1>11, XmlAnswerAccepted
<1>12. CASE XmlLoadAuthority
  BY <1>12, XmlLoadAuthorityAccepted
<1>13. CASE XmlLoadOcsp
  BY <1>13, XmlLoadOcspAccepted
<1>14. CASE XmlAuthoritiesDone \/ XmlCertificatesDone
  BY <1>14, XmlDoneAccepted
<1>15. CASE XmlCheckOcsp
  BY <1>15, XmlCheckAccepted
<1>16. CASE XmlPublishRevocationLists
  BY <1>16, XmlPublishAccepted
<1>17. CASE UNCHANGED startupVars
  <2>1. UNCHANGED <<certificates, built, config, phase, mode, entry, caPassword,
                    ocspPassword, caOcsp>>
    BY <1>17 DEF startupVars, database, registry, history
  <2>2. QED
    BY <2>1 DEF XAcc, XmlBuilt, XmlProcess, AuthoritiesRead, CertificatesRead,
       Authority
<1>18. QED
  BY <1>1, <1>2, <1>3, <1>4, <1>5, <1>6, <1>7, <1>8, <1>9, <1>10, <1>11, <1>12,
     <1>13, <1>14, <1>15, <1>16, <1>17 DEF XmlNext, XmlConfigure

(* How a load that is not faulted may end of itself.                        *)
LEMMA XmlLoadEnds ==
  ASSUME XInv, XAcc, [XmlNext]_startupVars,
         phase # "down", phase' = "down", mode = "load", ~faulted',
         exit' \in {"exception", "undefined"},
         NEW b \in built, b.config = config, XmlLocal(config)
  PROVE  \E k \in DOMAIN config.certificates :
           /\ config.certificates[k].type = "OCSP_SIGNING"
           /\ config.certificates[k].password = NoPassword
<1>1. /\ XmlAuthoritiesAccepted(certificates, config, DOMAIN config.authorities)
      /\ XmlCertificatesAccepted(certificates, config, DOMAIN config.certificates)
      /\ OcspAccepted(config)
  BY DEF XAcc, XmlBuilt
<1>2. \/ XmlSignAuthority
      \/ \E resume \in {"authorities", "certificates"} :
           XmlRequestLost(resume) \/ XmlMasterFails(resume)
      \/ XmlLoadAuthorityCrashes
      \/ XmlLoadAuthorityThrows
      \/ XmlLoadOcspCrashes
      \/ XmlLoadOcspThrows
      \/ XmlCheckOcsp
  <2>1. ~\E m \in {"initialize", "load"} : Start(m)
    BY DEF Start
  <2>2. ~EditConfiguration /\ ~Crash
    BY DEF EditConfiguration, Crash
  <2>3. ~XmlInitializeDatabase
    BY DEF XmlInitializeDatabase, Fail
  <2>4. /\ ~XmlRejectAuthority /\ ~XmlGenerateSelfSignedAuthority
        /\ ~XmlSkipAuthority /\ ~XmlRequestAuthority
        /\ ~XmlRequestAuthorityFromMaster
    BY DEF XmlRejectAuthority, XmlGenerateSelfSignedAuthority, XmlSkipAuthority,
       XmlRequestAuthority, XmlRequestAuthorityFromMaster, AtAuthority
  <2>5. /\ ~XmlRejectCertificate /\ ~XmlSkipCertificate /\ ~XmlGenerateCertificate
        /\ ~XmlNoAuthorityToSign /\ ~XmlRequestCertificateFromMaster
    BY DEF XmlRejectCertificate, XmlSkipCertificate, XmlGenerateCertificate,
       XmlNoAuthorityToSign, XmlRequestCertificateFromMaster, AtCertificate
  <2>6. ~\E resume \in {"authorities", "certificates"} :
           XmlMasterIssuesNone(resume) \/ XmlMasterIssues(resume)
    BY DEF XmlMasterIssuesNone, XmlMasterIssues
  <2>7. ~XmlLoadAuthority /\ ~XmlLoadOcsp
    BY DEF XmlLoadAuthority, LoadAuthority, AtAuthority, XmlLoadOcsp, LoadOcsp,
       AtCertificate
  <2>8. /\ ~XmlAuthoritiesDone /\ ~XmlCertificatesDone
        /\ ~XmlPublishRevocationLists
    BY DEF XmlAuthoritiesDone, AuthoritiesDone, XmlCertificatesDone,
       CertificatesDone, XmlPublishRevocationLists, PublishRevocationLists
  <2>9. ~UNCHANGED startupVars
    BY DEF startupVars
  <2>10. QED
    BY <2>1, <2>2, <2>3, <2>4, <2>5, <2>6, <2>7, <2>8, <2>9 DEF XmlNext, XmlConfigure
<1>3. ~XmlSignAuthority
  BY DEF XmlSignAuthority, SignAuthority, Fail
<1>4. ~\E resume \in {"authorities", "certificates"} :
         XmlRequestLost(resume) \/ XmlMasterFails(resume)
  BY DEF XmlRequestLost, XmlMasterFails, MasterAnswered, XInv, AskingAgrees, XmlLocal
<1>5. ~XmlLoadAuthorityCrashes /\ ~XmlLoadAuthorityThrows
  <2>1. SUFFICES ASSUME XmlLoadAuthorityCrashes \/ XmlLoadAuthorityThrows
                 PROVE  FALSE
    OBVIOUS
  <2>2. entry \in DOMAIN config.authorities /\ Authority = config.authorities[entry]
    BY <2>1, XmlEntryTyped DEF XInv, Authority, AtAuthority,
       XmlLoadAuthorityCrashes, XmlLoadAuthorityThrows
  <2>3. /\ XmlLoadable(Authority) /\ AuthorityIds(certificates, Authority.subject) # {}
        /\ Authority.password # NoPassword
    BY <1>1, <2>2 DEF XmlAuthoritiesAccepted, XmlLocal, CoherentAuthorities,
       CoherentAuthority, Accepted
  <2>4. QED
    BY <2>1, <2>3 DEF XmlLoadAuthorityCrashes, XmlLoadAuthorityThrows, Fail
<1>6. CASE XmlLoadOcspCrashes \/ XmlLoadOcspThrows
  <2>1. entry \in DOMAIN config.certificates /\ Certificate = config.certificates[entry]
    BY <1>6, XmlEntryTyped DEF XInv, Certificate, AtCertificate,
       XmlLoadOcspCrashes, XmlLoadOcspThrows
  <2>2. /\ ~XmlEntryRejected(Certificate)
        /\ Certificate.type = "OCSP_SIGNING"
             => CertificateIds(certificates, Certificate.subject) # {}
    BY <1>1, <2>1 DEF XmlCertificatesAccepted
  <2>3. /\ Certificate.type = "OCSP_SIGNING" /\ Certificate.password = NoPassword
    BY <1>6, <2>2 DEF XmlLoadOcspCrashes, XmlLoadOcspThrows, Fail
  <2>4. QED
    BY <2>1, <2>3
<1>7. ~XmlCheckOcsp
  BY <1>1, XmlVerdict DEF XmlCheckOcsp, CheckOcsp
<1>8. QED
  BY <1>2, <1>3, <1>4, <1>5, <1>6, <1>7

(* A server restarted in load mode on what an initialisation accepted is    *)
(* refused only for a failed database call, a master's entry or an OCSP     *)
(* signer without a password.                                               *)
THEOREM XmlReloadNeverRefused == XmlSpec => XmlReloadAccepted
<1>1. XInv /\ XAcc /\ [XmlNext]_startupVars =>
        [phase # "down" /\ phase' = "down" /\ mode = "load" /\ ~faulted'
           /\ exit' \in {"exception", "undefined"} =>
           \A b \in built :
             \/ b.config # config
             \/ ~CoherentAuthorities(config)
             \/ config.master
             \/ \E k \in DOMAIN config.certificates :
                  /\ config.certificates[k].type = "OCSP_SIGNING"
                  /\ config.certificates[k].password = NoPassword
        ]_startupVars
  BY XmlLoadEnds DEF XmlLocal
<1>2. QED
  BY <1>1, XmlInvariant, InitXAcc, NextXAcc, PTL DEF XmlSpec, XmlReloadAccepted
=============================================================================
