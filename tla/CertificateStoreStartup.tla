---------------------- MODULE CertificateStoreStartup ----------------------
(***************************************************************************)
(* configureCertificateStore and everything it calls: a process starts,    *)
(* either initialises the database and generates the configured            *)
(* authorities and certificates, or loads them from the database, checks   *)
(* the OCSP configuration, writes the revocation lists and serves.  The    *)
(* database and the revocation list files survive the process; the maps    *)
(* (the registry) do not.  A step is one call that the database makes      *)
(* durable, so a crash can fall between any two of them.                   *)
(***************************************************************************)
EXTENDS CertificateStoreTypes

CONSTANTS
  Configurations,  (* the configurations an operator may write              *)
  Revisions,       (* Revisions[c]: what an operator may edit c into        *)
  MaxFailures      (* bound: calls to the database that fail                *)

Configuration == [authorities  : Seq(Entry),
                  certificates : Seq(Entry),
                  master       : BOOLEAN]

ASSUME ConfigurationsAssumption ==
  /\ Configurations \subseteq Configuration
  /\ Revisions \in [Configurations -> SUBSET Configurations]
ASSUME MaxFailuresAssumption == MaxFailures \in Nat

VARIABLES
  certificates,  (* table of certificates: a sequence of Row                *)
  requests,      (* table of certificate requests: a sequence of subjects   *)
  revoked,       (* identifiers of the revoked certificates                 *)
  crl,           (* the <name>.crl.pem files: name -> revoked identifiers   *)
  config,        (* the configuration file                                  *)
  phase,         (* where configureCertificateStore stands                  *)
  mode,          (* m_isDatabaseInitilizationEnabled                        *)
  entry,         (* the loop's index in the configured list                 *)
  caPassword,    (* authorities' names and private key passwords            *)
  caIndex,       (* authorities' names and database index                   *)
  ocspPassword,  (* OCSP certificates' names and private key passwords      *)
  ocspIndex,     (* OCSP certificates' names and database index             *)
  caOcsp,        (* relation between authorities and OCSP certificates      *)
  ocspOnline,    (* m_isOnlineCertificateStatusProtocol                     *)
  exit,          (* how the last process ended                              *)
  failures,      (* failed database calls so far, at most MaxFailures       *)
  faulted,       (* history: a database call failed in this process         *)
  initialized,   (* history: initializeDatabase succeeded in this process   *)
  built          (* history: {} or the registry of the last initialisation  *)

database == <<certificates, requests, revoked>>
registry == <<caPassword, caIndex, ocspPassword, ocspIndex, caOcsp, ocspOnline>>
history  == <<faulted, initialized, built>>
startupVars == <<database, crl, config, phase, mode, entry, registry, exit,
                 failures, history>>

Phase == {"down", "initializing", "authorities", "signing", "certificates",
          "coherence", "publishing", "serving"}

Registry == [caPassword |-> caPassword, caIndex |-> caIndex,
             ocspPassword |-> ocspPassword, ocspIndex |-> ocspIndex,
             caOcsp |-> caOcsp, ocspOnline |-> ocspOnline]

(* The entry the loop is at.                                               *)
Authority   == config.authorities[entry]
Certificate == config.certificates[entry]

-----------------------------------------------------------------------------
(* How a process ends and how a database call fails.                       *)

(* An exception leaves configureCertificateStore, which is noexcept.        *)
Throw ==
  /\ phase' = "down"
  /\ exit' = "exception"

Fail ==
  /\ failures < MaxFailures
  /\ failures' = failures + 1
  /\ faulted' = TRUE

NoFailure == UNCHANGED <<failures, faulted>>

-----------------------------------------------------------------------------
(* The operator: starts a process in either mode, edits the file.          *)

Start(m) ==
  /\ phase = "down"
  /\ mode' = m
  /\ phase' = IF m = "initialize" THEN "initializing" ELSE "authorities"
  /\ entry' = 1
  /\ caPassword' = EmptyMap
  /\ caIndex' = EmptyMap
  /\ ocspPassword' = EmptyMap
  /\ ocspIndex' = EmptyMap
  /\ caOcsp' = EmptyMap
  /\ ocspOnline' = FALSE
  /\ exit' = "none"
  /\ faulted' = FALSE
  /\ initialized' = FALSE
  /\ UNCHANGED <<database, crl, config, failures, built>>

EditConfiguration ==
  /\ phase = "down"
  /\ config' \in Revisions[config]
  /\ UNCHANGED <<database, crl, phase, mode, entry, registry, exit, failures,
                 history>>

Crash ==
  /\ phase # "down"
  /\ phase' = "down"
  /\ exit' = "crash"
  /\ UNCHANGED <<database, crl, config, mode, entry, registry, failures,
                 history>>

-----------------------------------------------------------------------------
(* Initialisation of the database.                                         *)

(* initializeDatabase returned true: the tables are new.  false: the server *)
(* logs "exiting..." and goes on with the tables as they are.               *)
InitializeDatabase ==
  /\ phase = "initializing"
  /\ phase' = "authorities"
  /\ built' = {}
  /\ \/ /\ certificates' = <<>>
        /\ requests' = <<>>
        /\ revoked' = {}
        /\ initialized' = TRUE
        /\ NoFailure
     \/ /\ Fail
        /\ UNCHANGED <<database, initialized>>
  /\ UNCHANGED <<crl, config, mode, entry, registry, exit>>

-----------------------------------------------------------------------------
(* checkIssuerAndSubjectCommonNamesAndSubjectCertificateType throws.        *)
EntryRejected(e) ==
  \/ e.subject # NoName /\ e.issuer = NoName
  \/ e.type = "UNKNOW"

(* Which branch of generateDefaultCertificateAuthorities and of             *)
(* generateDefaultCertificates an entry takes.                              *)
SelfSigned(e)      == e.subject = e.issuer
SignedLocally(e)   == e.subject # e.issuer /\ e.issuer \in DOMAIN caPassword
SignedByMaster(e)  == e.subject # e.issuer /\ e.issuer \notin DOMAIN caPassword
                      /\ config.master
UnknownIssuer(e)   == e.subject # e.issuer /\ e.issuer \notin DOMAIN caPassword
                      /\ ~config.master

(* Mutant: the second of the two inserts is missing.                        *)
RegisterAuthorityForgetsIndex(name, password, id) ==
  /\ caPassword' = Insert(caPassword, name, password)
  /\ UNCHANGED <<caIndex, ocspPassword, ocspIndex, caOcsp, ocspOnline>>

RegisterAuthority(name, password, id) ==
  /\ caPassword' = Insert(caPassword, name, password)
  /\ caIndex' = Insert(caIndex, name, id)
  /\ UNCHANGED <<ocspPassword, ocspIndex, caOcsp, ocspOnline>>

RegisterOcsp(issuer, name, password, id) ==
  /\ ocspPassword' = Insert(ocspPassword, name, password)
  /\ ocspIndex' = Insert(ocspIndex, name, id)
  /\ caOcsp' = Insert(caOcsp, issuer, name)
  /\ UNCHANGED <<caPassword, caIndex, ocspOnline>>

AtAuthority(m) ==
  /\ phase = "authorities"
  /\ mode = m
  /\ entry <= Len(config.authorities)

AtCertificate(m) ==
  /\ phase = "certificates"
  /\ mode = m
  /\ entry <= Len(config.certificates)

Accepted(e) == ~EntryRejected(e) /\ e.password # NoPassword

-----------------------------------------------------------------------------
(* generateDefaultCertificateAuthorities: one iteration of the loop.        *)

RejectAuthority ==
  /\ AtAuthority("initialize")
  /\ \/ ~Accepted(Authority)
     \/ SelfSigned(Authority) /\ Authority.type # "SELF_SIGNED_CA"
     \/ UnknownIssuer(Authority)
  /\ Throw
  /\ UNCHANGED <<database, crl, config, mode, entry, registry, failures,
                 history>>

GenerateSelfSignedAuthority ==
  /\ AtAuthority("initialize")
  /\ Accepted(Authority)
  /\ SelfSigned(Authority)
  /\ Authority.type = "SELF_SIGNED_CA"
  /\ \/ /\ certificates' = Append(certificates,
              CertificateRow(Authority.subject, Authority.subject,
                             Authority.type, Len(certificates) + 1))
        /\ RegisterAuthority(Authority.subject, Authority.password,
                             Len(certificates) + 1)
        /\ entry' = entry + 1
        /\ NoFailure
        /\ UNCHANGED <<phase, exit>>
     \/ /\ Fail
        /\ Throw
        /\ UNCHANGED <<certificates, registry, entry>>
  /\ UNCHANGED <<requests, revoked, crl, config, mode, initialized, built>>

(* Mutant: entries are passed over whatever their type.                     *)
SkipAuthorityOfAnyType ==
  /\ AtAuthority("initialize")
  /\ Accepted(Authority)
  /\ SignedLocally(Authority)
  /\ entry' = entry + 1
  /\ UNCHANGED <<database, crl, config, phase, mode, registry, exit, failures,
                 history>>

(* Any type but CA and INTERMEDIATE_CA is passed over without an error.     *)
SkipAuthority ==
  /\ AtAuthority("initialize")
  /\ Accepted(Authority)
  /\ SignedLocally(Authority)
  /\ Authority.type \notin {"CA", "INTERMEDIATE_CA"}
  /\ entry' = entry + 1
  /\ UNCHANGED <<database, crl, config, phase, mode, registry, exit, failures,
                 history>>

(* generateDefaultOtherCertificateAuthorities, first call: the request.     *)
RequestAuthority ==
  /\ AtAuthority("initialize")
  /\ Accepted(Authority)
  /\ SignedLocally(Authority)
  /\ Authority.type \in {"CA", "INTERMEDIATE_CA"}
  /\ \/ /\ requests' = Append(requests, Authority.subject)
        /\ phase' = "signing"
        /\ NoFailure
        /\ UNCHANGED exit
     \/ /\ Fail
        /\ Throw
        /\ UNCHANGED requests
  /\ UNCHANGED <<certificates, revoked, crl, config, mode, entry, registry,
                 initialized, built>>

(* Mutant: the two names are passed in the wrong order.                     *)
SignedAuthoritySwapped(issuer) ==
  CertificateRow(certificates[issuer].subject, Authority.subject,
                 Authority.type, issuer)

SignedAuthority(issuer) ==
  CertificateRow(Authority.subject, certificates[issuer].subject,
                 Authority.type, issuer)

(* Its second call: the certificate, signed with the issuer's index.        *)
SignAuthority ==
  /\ phase = "signing"
  /\ \/ /\ certificates' = Append(certificates,
              SignedAuthority(caIndex[Authority.issuer]))
        /\ RegisterAuthority(Authority.subject, Authority.password,
                             Len(certificates) + 1)
        /\ entry' = entry + 1
        /\ phase' = "authorities"
        /\ NoFailure
        /\ UNCHANGED exit
     \/ /\ Fail
        /\ Throw
        /\ UNCHANGED <<certificates, registry, entry>>
  /\ UNCHANGED <<requests, revoked, crl, config, mode, initialized, built>>

-----------------------------------------------------------------------------
(* addCertificateFromMasterCertificateStore, from either list.  This class's*)
(* postToMasterCertificateStoreCertificateRequestEndPoint answers nothing,  *)
(* so a request that was stored ends in "empty answer"; one that was not is *)
(* passed over without an error.                                            *)
RequestFromMaster(e) ==
  /\ SignedByMaster(e)
  /\ \/ /\ requests' = Append(requests, e.subject)
        /\ Throw
        /\ NoFailure
        /\ UNCHANGED entry
     \/ /\ Fail
        /\ entry' = entry + 1
        /\ UNCHANGED <<requests, phase, exit>>
  /\ UNCHANGED <<certificates, revoked, crl, config, mode, registry,
                 initialized, built>>

RequestAuthorityFromMaster ==
  AtAuthority("initialize") /\ Accepted(Authority) /\ RequestFromMaster(Authority)

RequestCertificateFromMaster ==
  /\ AtCertificate("initialize")
  /\ ~EntryRejected(Certificate)
  /\ RequestFromMaster(Certificate)

-----------------------------------------------------------------------------
(* loadCertificateAuthorities: one iteration of the loop.                   *)

(* Mutant: the type of an intermediate authority is forgotten.              *)
AuthorityLoadableButIntermediate(e) ==
  ~EntryRejected(e) /\ e.type \in {"SELF_SIGNED_CA", "CA"}

AuthorityLoadable(e) == ~EntryRejected(e) /\ e.type \in AuthorityType

LoadAuthority ==
  /\ AtAuthority("load")
  /\ AuthorityLoadable(Authority)
  /\ \E id \in AuthorityIds(certificates, Authority.subject) :
       RegisterAuthority(Authority.subject, Authority.password, id)
  /\ entry' = entry + 1
  /\ UNCHANGED <<database, crl, config, phase, mode, exit, failures, history>>

LoadAuthorityThrows ==
  /\ AtAuthority("load")
  /\ \/ /\ \/ ~AuthorityLoadable(Authority)
           \/ AuthorityIds(certificates, Authority.subject) = {}
        /\ NoFailure
     \/ Fail
  /\ Throw
  /\ UNCHANGED <<database, crl, config, mode, entry, registry, initialized,
                 built>>

(* Mutants: the second loop starts at 0; the first ends one entry late.     *)
AuthoritiesDoneFromZero ==
  /\ phase = "authorities"
  /\ entry > Len(config.authorities)
  /\ phase' = "certificates"
  /\ entry' = 0
  /\ UNCHANGED <<database, crl, config, mode, registry, exit, failures, history>>

AuthoritiesDoneLate ==
  /\ phase = "authorities"
  /\ entry > Len(config.authorities) + 1
  /\ phase' = "certificates"
  /\ entry' = 1
  /\ UNCHANGED <<database, crl, config, mode, registry, exit, failures, history>>

AuthoritiesDone ==
  /\ phase = "authorities"
  /\ entry > Len(config.authorities)
  /\ phase' = "certificates"
  /\ entry' = 1
  /\ UNCHANGED <<database, crl, config, mode, registry, exit, failures, history>>

-----------------------------------------------------------------------------
(* generateDefaultCertificates: one iteration of the loop.                  *)

RejectCertificate ==
  /\ AtCertificate("initialize")
  /\ \/ EntryRejected(Certificate)
     \/ SelfSigned(Certificate)
     \/ UnknownIssuer(Certificate)
  /\ Throw
  /\ UNCHANGED <<database, crl, config, mode, entry, registry, failures,
                 history>>

SkipCertificate ==
  /\ AtCertificate("initialize")
  /\ ~EntryRejected(Certificate)
  /\ SignedLocally(Certificate)
  /\ Certificate.type \notin {"CLIENT", "SERVER", "OCSP_SIGNING"}
  /\ entry' = entry + 1
  /\ UNCHANGED <<database, crl, config, phase, mode, registry, exit, failures,
                 history>>

(* One call stores the request and the certificate; it may store neither,   *)
(* or the request alone.                                                    *)
GenerateCertificate ==
  /\ AtCertificate("initialize")
  /\ ~EntryRejected(Certificate)
  /\ SignedLocally(Certificate)
  /\ Certificate.type \in {"CLIENT", "SERVER", "OCSP_SIGNING"}
  /\ \/ /\ requests' = Append(requests, Certificate.subject)
        /\ \E signer \in AuthorityIds(certificates, Certificate.issuer) :
             certificates' = Append(certificates,
               CertificateRow(Certificate.subject, Certificate.issuer,
                              Certificate.type, signer))
        /\ IF Certificate.type = "OCSP_SIGNING"
           THEN RegisterOcsp(Certificate.issuer, Certificate.subject,
                             Certificate.password, Len(certificates) + 1)
           ELSE UNCHANGED registry
        /\ entry' = entry + 1
        /\ NoFailure
        /\ UNCHANGED <<phase, exit>>
     \/ /\ Fail
        /\ Throw
        /\ requests' \in {requests, Append(requests, Certificate.subject)}
        /\ UNCHANGED <<certificates, registry, entry>>
  /\ UNCHANGED <<revoked, crl, config, mode, initialized, built>>

-----------------------------------------------------------------------------
(* loadOCSPSigningCertificates: one iteration of the loop.                  *)

(* Mutant: the relation is loaded under the signer's name, not the issuer's.*)
LoadOcspBySubject ==
  /\ AtCertificate("load")
  /\ ~EntryRejected(Certificate)
  /\ \/ /\ Certificate.type = "OCSP_SIGNING"
        /\ \E id \in CertificateIds(certificates, Certificate.subject) :
             RegisterOcsp(Certificate.subject, Certificate.subject,
                          Certificate.password, id)
     \/ /\ Certificate.type # "OCSP_SIGNING"
        /\ UNCHANGED registry
  /\ entry' = entry + 1
  /\ UNCHANGED <<database, crl, config, phase, mode, exit, failures, history>>

LoadOcsp ==
  /\ AtCertificate("load")
  /\ ~EntryRejected(Certificate)
  /\ \/ /\ Certificate.type = "OCSP_SIGNING"
        /\ \E id, c \in CertificateIds(certificates, Certificate.subject) :
             RegisterOcsp(certificates[c].issuer, Certificate.subject,
                          Certificate.password, id)
     \/ /\ Certificate.type # "OCSP_SIGNING"
        /\ UNCHANGED registry
  /\ entry' = entry + 1
  /\ UNCHANGED <<database, crl, config, phase, mode, exit, failures, history>>

LoadOcspThrows ==
  /\ AtCertificate("load")
  /\ \/ /\ \/ EntryRejected(Certificate)
           \/ /\ Certificate.type = "OCSP_SIGNING"
              /\ CertificateIds(certificates, Certificate.subject) = {}
        /\ NoFailure
     \/ Certificate.type = "OCSP_SIGNING" /\ Fail
  /\ Throw
  /\ UNCHANGED <<database, crl, config, mode, entry, registry, initialized,
                 built>>

CertificatesDone ==
  /\ phase = "certificates"
  /\ entry > Len(config.certificates)
  /\ phase' = "coherence"
  /\ UNCHANGED <<database, crl, config, mode, entry, registry, exit, failures,
                 history>>

-----------------------------------------------------------------------------
(* The end of generateOrLoadDefaultCertificateAuthoritiesAndCertificates.   *)

NoOcsp == \/ DOMAIN ocspPassword = {}
          \/ DOMAIN ocspIndex = {}
          \/ DOMAIN caOcsp = {}

OcspCountMatches ==
  Cardinality(DOMAIN ocspPassword) = Cardinality(DOMAIN caPassword)

CheckOcsp ==
  /\ phase = "coherence"
  /\ IF NoOcsp \/ OcspCountMatches
     THEN phase' = "publishing" /\ UNCHANGED exit
     ELSE Throw
  /\ ocspOnline' = (~NoOcsp /\ OcspCountMatches)
  /\ UNCHANGED <<database, crl, config, mode, entry, caPassword, caIndex,
                 ocspPassword, ocspIndex, caOcsp, failures, history>>

RevokedBy(name) == {i \in revoked : certificates[i].issuer = name}

(* The files of these names are written anew, the others stay.              *)
WriteLists(names) ==
  crl' = [n \in DOMAIN crl \cup names |->
            IF n \in names THEN RevokedBy(n) ELSE crl[n]]

(* Mutant: an authority with no revocation gets no list.                    *)
PublishOnlyRevocations ==
  /\ phase = "publishing"
  /\ phase' = "serving"
  /\ WriteLists({n \in DOMAIN caPassword : RevokedBy(n) # {} \/ n \notin DOMAIN crl})
  /\ UNCHANGED <<database, config, mode, entry, registry, exit, failures,
                 history>>

(* updateCertificateRevocationLists, whose failure goes unnoticed, then     *)
(* configureEndPoints and launchServer.                                     *)
PublishRevocationLists ==
  /\ phase = "publishing"
  /\ phase' = "serving"
  /\ \/ /\ WriteLists(DOMAIN caPassword)
        /\ NoFailure
     \/ /\ \E written \in SUBSET DOMAIN caPassword : WriteLists(written)
        /\ Fail
  /\ built' = IF mode = "initialize" /\ initialized /\ ~faulted
              THEN {[config |-> config, registry |-> Registry]}
              ELSE built
  /\ UNCHANGED <<database, config, mode, entry, registry, exit, initialized>>

-----------------------------------------------------------------------------
Init ==
  /\ certificates = <<>>
  /\ requests = <<>>
  /\ revoked = {}
  /\ crl = EmptyMap
  /\ config \in Configurations
  /\ phase = "down"
  /\ mode = "load"
  /\ entry = 1
  /\ caPassword = EmptyMap
  /\ caIndex = EmptyMap
  /\ ocspPassword = EmptyMap
  /\ ocspIndex = EmptyMap
  /\ caOcsp = EmptyMap
  /\ ocspOnline = FALSE
  /\ exit = "none"
  /\ failures = 0
  /\ faulted = FALSE
  /\ initialized = FALSE
  /\ built = {}

(* The steps of the main thread.                                           *)
Configure ==
  \/ InitializeDatabase
  \/ RejectAuthority
  \/ GenerateSelfSignedAuthority
  \/ SkipAuthority
  \/ RequestAuthority
  \/ SignAuthority
  \/ RequestAuthorityFromMaster
  \/ LoadAuthority
  \/ LoadAuthorityThrows
  \/ AuthoritiesDone
  \/ RejectCertificate
  \/ SkipCertificate
  \/ GenerateCertificate
  \/ RequestCertificateFromMaster
  \/ LoadOcsp
  \/ LoadOcspThrows
  \/ CertificatesDone
  \/ CheckOcsp
  \/ PublishRevocationLists

Next ==
  \/ \E m \in {"initialize", "load"} : Start(m)
  \/ EditConfiguration
  \/ Crash
  \/ Configure

Spec == Init /\ [][Next]_startupVars

(* The main thread runs; nothing obliges an operator to start a process.    *)
FairSpec == Spec /\ WF_startupVars(Configure)
-----------------------------------------------------------------------------
(* Properties.                                                             *)

TypeOK ==
  /\ certificates \in Seq(Row)
  /\ requests \in Seq(Names \cup {NoName})
  /\ revoked \subseteq DOMAIN certificates
  /\ config \in Configurations
  /\ phase \in Phase
  /\ mode \in {"initialize", "load"}
  /\ entry \in Nat \ {0}
  /\ ocspOnline \in BOOLEAN
  /\ exit \in {"none", "exception", "crash"}
  /\ failures \in 0 .. MaxFailures
  /\ faulted \in BOOLEAN
  /\ initialized \in BOOLEAN

(* The maps the server keeps in step by inserting into one after the other  *)
(* agree with each other and with the database: an authority has a password *)
(* exactly when it has an index, and the index is that of an authority's    *)
(* certificate of that name, so that the operator[] of                      *)
(* generateDefaultOtherCertificateAuthorities never makes an entry of       *)
(* index 0; likewise for the OCSP maps, and caOcsp names only signers that  *)
(* are known.                                                               *)
RegistryAgrees ==
  /\ DOMAIN caPassword = DOMAIN caIndex
  /\ DOMAIN ocspPassword = DOMAIN ocspIndex
  /\ \A n \in DOMAIN caIndex : caIndex[n] \in AuthorityIds(certificates, n)
  /\ \A n \in DOMAIN ocspIndex : ocspIndex[n] \in CertificateIds(certificates, n)
  /\ \A n \in DOMAIN caOcsp : caOcsp[n] \in DOMAIN ocspPassword

(* Whatever sequence of initialisations, loads, failures and crashes filled *)
(* the database, each certificate in it is a self-signed authority or was   *)
(* signed by an authority stored before it, whose name it gives as issuer:  *)
(* the key that SignAuthority finds through the index and the keys that the *)
(* database finds by name are those of the configured issuer.               *)
IssuedByAuthority ==
  \A i \in DOMAIN certificates :
    LET c == certificates[i] IN
    /\ c.signer \in AuthorityIds(certificates, c.issuer)
    /\ IF c.signer = i THEN c.type = "SELF_SIGNED_CA" ELSE c.signer < i

CoherentAuthority(e) ==
  /\ Accepted(e)
  /\ IF SelfSigned(e) THEN e.type = "SELF_SIGNED_CA"
                      ELSE e.type \in {"CA", "INTERMEDIATE_CA"}

CoherentAuthorities(c) ==
  \A k \in DOMAIN c.authorities : CoherentAuthority(c.authorities[k])

(* A server that serves knows every coherent authority and every OCSP       *)
(* signer of its configuration, and no authority or signer that it does not *)
(* list, unless the database failed while it started (the request for a     *)
(* certificate of the master's is then passed over without an error).       *)
RegistryMatchesConfiguration ==
  phase = "serving" /\ ~faulted =>
    /\ \A k \in DOMAIN config.authorities :
         CoherentAuthority(config.authorities[k])
           => config.authorities[k].subject \in DOMAIN caPassword
    /\ \A n \in DOMAIN caPassword : \E k \in DOMAIN config.authorities :
         /\ config.authorities[k].subject = n
         /\ config.authorities[k].password = caPassword[n]
    /\ \A k \in DOMAIN config.certificates :
         config.certificates[k].type = "OCSP_SIGNING"
           => config.certificates[k].subject \in DOMAIN ocspPassword
    /\ \A n \in DOMAIN ocspPassword : \E k \in DOMAIN config.certificates :
         /\ config.certificates[k].type = "OCSP_SIGNING"
         /\ config.certificates[k].subject = n

DistinctSubjects ==
  \A i, j \in DOMAIN certificates :
    certificates[i].subject = certificates[j].subject => i = j

(* A server restarted in load mode on the configuration its database was    *)
(* initialised from ends with the registry the initialisation ended with,   *)
(* database identifiers included, when no two certificates share a name and *)
(* the authorities are coherent: an entry that generateDefaultCertificate-  *)
(* Authorities passes over loadCertificateAuthorities registers, if another *)
(* entry of its name was generated, with its own password.                  *)
ReloadRestoresRegistry ==
  phase = "serving" /\ mode = "load" /\ DistinctSubjects =>
    \A b \in built :
      b.config = config /\ CoherentAuthorities(config) => b.registry = Registry

(* Such a restart ends in an exception only when the database failed: what  *)
(* an initialisation accepted a load accepts, for coherent authorities.     *)
ReloadAccepted ==
  [][phase # "down" /\ exit' = "exception" /\ mode = "load" /\ ~faulted' =>
       \A b \in built : b.config = config => ~CoherentAuthorities(config)
    ]_startupVars

(* certificateStoreServer.cpp refuses an "incoherent OCSP configuration"    *)
(* and keeps a "relation between CAs and OSCP certificates": when OCSP is   *)
(* on, each authority has a signer of its own.  The code compares sizes.    *)
OcspCoherent ==
  phase = "serving" /\ ocspOnline => DOMAIN caOcsp = DOMAIN caPassword

(* A start comes to an end: the server serves, or the process is gone.      *)
StartupEnds == phase \notin {"down", "serving"} ~> phase \in {"down", "serving"}
=============================================================================
