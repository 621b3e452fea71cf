------------------- MODULE CertificateStoreServerFromXml -------------------
(***************************************************************************)
(* The certificate store server configured from XML: the same start, with  *)
(* another failure policy and a master that answers.                       *)
(*   - A step that throws leaves configureCertificateStoreServer through   *)
(*     its handler, which exits; exit = "exception" stands for that.       *)
(*   - An absent name or type is refused; an absent password is mandatory  *)
(*     for authorities only, but get() reads it elsewhere too and ends the *)
(*     process (exit = "undefined").                                       *)
(*   - The database that cannot be initialised ends the start.             *)
(*   - What the master issues is stored and registered as an authority.    *)
(* Steps that are the same call for call are CertificateStoreStartup's.    *)
(***************************************************************************)
EXTENDS CertificateStoreStartup

XmlPhase == Phase \cup {"askingAuthority", "askingCertificate"}

(* Undefined behaviour: get() of what is absent reads through a null pointer,*)
(* which ends the process.                                                  *)
ReadAbsentPassword ==
  /\ phase' = "down"
  /\ exit' = "undefined"
  /\ UNCHANGED <<database, crl, config, mode, entry, registry, failures, history>>

-----------------------------------------------------------------------------
XmlInitializeDatabase ==
  /\ phase = "initializing"
  /\ built' = {}
  /\ \/ /\ certificates' = <<>>
        /\ requests' = <<>>
        /\ revoked' = {}
        /\ initialized' = TRUE
        /\ phase' = "authorities"
        /\ NoFailure
        /\ UNCHANGED exit
     \/ /\ Fail
        /\ Throw
        /\ UNCHANGED <<database, initialized>>
  /\ UNCHANGED <<crl, config, mode, entry, registry>>

(* checkIssuerAndSubjectCommonNamesAndSubjectCertificateType throws.        *)
XmlEntryRejected(e) ==
  e.subject = NoName \/ e.issuer = NoName \/ e.type = "UNKNOW"

-----------------------------------------------------------------------------
(* generateDefaultCertificateAuthorities, generateDefaultCertificates.      *)
XmlRejectAuthority ==
  /\ AtAuthority("initialize")
  /\ \/ XmlEntryRejected(Authority)
     \/ Authority.password = NoPassword
     \/ SelfSigned(Authority) /\ Authority.type # "SELF_SIGNED_CA"
     \/ UnknownIssuer(Authority)
  /\ Throw
  /\ UNCHANGED <<database, crl, config, mode, entry, registry, failures, history>>

XmlGenerateSelfSignedAuthority ==
  /\ AtAuthority("initialize")
  /\ ~XmlEntryRejected(Authority)
  /\ GenerateSelfSignedAuthority

XmlSkipAuthority ==
  AtAuthority("initialize") /\ ~XmlEntryRejected(Authority) /\ SkipAuthority

XmlRequestAuthority ==
  AtAuthority("initialize") /\ ~XmlEntryRejected(Authority) /\ RequestAuthority

XmlSignAuthority == SignAuthority

XmlRejectCertificate ==
  /\ AtCertificate("initialize")
  /\ \/ XmlEntryRejected(Certificate)
     \/ SelfSigned(Certificate)
     \/ UnknownIssuer(Certificate)
  /\ Throw
  /\ UNCHANGED <<database, crl, config, mode, entry, registry, failures, history>>

XmlSkipCertificate ==
  AtCertificate("initialize") /\ ~XmlEntryRejected(Certificate) /\ SkipCertificate

XmlGenerateCertificate ==
  AtCertificate("initialize") /\ ~XmlEntryRejected(Certificate) /\ GenerateCertificate

(* The issuer is registered but the database knows no authority of that     *)
(* name: a leaf that the master issued.                                     *)
XmlNoAuthorityToSign ==
  /\ AtCertificate("initialize")
  /\ ~XmlEntryRejected(Certificate)
  /\ SignedLocally(Certificate)
  /\ Certificate.type \in {"CLIENT", "SERVER", "OCSP_SIGNING"}
  /\ AuthorityIds(certificates, Certificate.issuer) = {}
  /\ Throw
  /\ requests' \in {requests, Append(requests, Certificate.subject)}
  /\ UNCHANGED <<certificates, revoked, crl, config, mode, entry, registry, failures,
                 history>>

-----------------------------------------------------------------------------
(* addCertificateFromMasterCertificateStore.                                *)

(* A request that is not stored is passed over without an error.            *)
XmlRequestFromMaster(e, asking) ==
  /\ ~XmlEntryRejected(e)
  /\ SignedByMaster(e)
  /\ \/ e.password = NoPassword /\ ReadAbsentPassword
     \/ /\ e.password # NoPassword
        /\ requests' = Append(requests, e.subject)
        /\ phase' = asking
        /\ NoFailure
        /\ UNCHANGED <<certificates, revoked, crl, config, mode, entry, registry, exit,
                       initialized, built>>
     \/ /\ e.password # NoPassword
        /\ Fail
        /\ entry' = entry + 1
        /\ UNCHANGED <<database, crl, config, phase, mode, registry, exit, initialized,
                       built>>

XmlRequestAuthorityFromMaster ==
  /\ AtAuthority("initialize")
  /\ Authority.password # NoPassword
  /\ XmlRequestFromMaster(Authority, "askingAuthority")

XmlRequestCertificateFromMaster ==
  /\ AtCertificate("initialize")
  /\ XmlRequestFromMaster(Certificate, "askingCertificate")

Asked == IF phase = "askingAuthority" THEN Authority ELSE Certificate

MasterAnswered(resume) ==
  /\ phase = IF resume = "authorities" THEN "askingAuthority" ELSE "askingCertificate"
  /\ UNCHANGED <<requests, revoked, crl, config, mode, initialized, built>>

(* No answer, an answer without certificates, with several, with no X509    *)
(* certificate, or a certificate that the database does not take.           *)
XmlMasterFails(resume) ==
  /\ MasterAnswered(resume)
  /\ NoFailure \/ Fail
  /\ Throw
  /\ UNCHANGED <<certificates, entry, registry>>

(* The request is not read back: a null pointer is dereferenced.            *)
XmlRequestLost(resume) ==
  /\ MasterAnswered(resume)
  /\ Fail
  /\ phase' = "down"
  /\ exit' = "undefined"
  /\ UNCHANGED <<certificates, entry, registry>>

(* A list of no certificates: the loop over it does nothing.                *)
XmlMasterIssuesNone(resume) ==
  /\ MasterAnswered(resume)
  /\ phase' = resume
  /\ entry' = entry + 1
  /\ NoFailure
  /\ UNCHANGED <<certificates, registry, exit>>

(* Mutant: the certificate is registered under its issuer's name.           *)
XmlMasterIssuesToIssuer(resume) ==
  /\ MasterAnswered(resume)
  /\ certificates' = Append(certificates,
       CertificateRow(Asked.subject, Asked.issuer, Asked.type, 0))
  /\ RegisterAuthority(Asked.issuer, Asked.password, Len(certificates) + 1)
  /\ phase' = resume
  /\ entry' = entry + 1
  /\ NoFailure
  /\ UNCHANGED exit

(* Whatever its type, the certificate is registered with the authorities;   *)
(* its row has no signer here.                                              *)
XmlMasterIssues(resume) ==
  /\ MasterAnswered(resume)
  /\ certificates' = Append(certificates,
       CertificateRow(Asked.subject, Asked.issuer, Asked.type, 0))
  /\ RegisterAuthority(Asked.subject, Asked.password, Len(certificates) + 1)
  /\ phase' = resume
  /\ entry' = entry + 1
  /\ NoFailure
  /\ UNCHANGED exit

-----------------------------------------------------------------------------
(* loadCertificateAuthorities, loadOCSPSigningCertificates.                 *)

(* Mutant: the type of an intermediate authority is forgotten.              *)
XmlLoadableButIntermediate(e) ==
  ~XmlEntryRejected(e) /\ e.type \in {"SELF_SIGNED_CA", "CA"}

XmlLoadable(e) == ~XmlEntryRejected(e) /\ e.type \in AuthorityType

XmlLoadAuthority ==
  /\ AtAuthority("load")
  /\ XmlLoadable(Authority)
  /\ Authority.password # NoPassword
  /\ LoadAuthority

XmlLoadAuthorityCrashes ==
  /\ AtAuthority("load")
  /\ XmlLoadable(Authority)
  /\ Authority.password = NoPassword
  /\ AuthorityIds(certificates, Authority.subject) # {}
  /\ ReadAbsentPassword

XmlLoadAuthorityThrows ==
  /\ AtAuthority("load")
  /\ \/ /\ \/ ~XmlLoadable(Authority)
           \/ AuthorityIds(certificates, Authority.subject) = {}
        /\ NoFailure
     \/ XmlLoadable(Authority) /\ Fail
  /\ Throw
  /\ UNCHANGED <<database, crl, config, mode, entry, registry, initialized, built>>

XmlLoadOcsp ==
  /\ AtCertificate("load")
  /\ ~XmlEntryRejected(Certificate)
  /\ Certificate.type = "OCSP_SIGNING" => Certificate.password # NoPassword
  /\ LoadOcsp

XmlLoadOcspCrashes ==
  /\ AtCertificate("load")
  /\ ~XmlEntryRejected(Certificate)
  /\ Certificate.type = "OCSP_SIGNING"
  /\ Certificate.password = NoPassword
  /\ CertificateIds(certificates, Certificate.subject) # {}
  /\ ReadAbsentPassword

XmlLoadOcspThrows ==
  /\ AtCertificate("load")
  /\ \/ XmlEntryRejected(Certificate) /\ NoFailure
     \/ /\ Certificate.type = "OCSP_SIGNING"
        /\ CertificateIds(certificates, Certificate.subject) = {}
        /\ NoFailure
     \/ Certificate.type = "OCSP_SIGNING" /\ Fail
  /\ Throw
  /\ UNCHANGED <<database, crl, config, mode, entry, registry, initialized, built>>

-----------------------------------------------------------------------------
(* generateOrLoadDefaultCertificateAuthoritiesAndCertificates around them.  *)
XmlAuthoritiesDone == AuthoritiesDone

XmlCertificatesDone == CertificatesDone

XmlCheckOcsp == CheckOcsp

XmlPublishRevocationLists == PublishRevocationLists

XmlConfigure ==
  \/ XmlInitializeDatabase
  \/ XmlRejectAuthority
  \/ XmlGenerateSelfSignedAuthority
  \/ XmlSkipAuthority
  \/ XmlRequestAuthority
  \/ XmlSignAuthority
  \/ XmlRequestAuthorityFromMaster
  \/ XmlRejectCertificate
  \/ XmlSkipCertificate
  \/ XmlGenerateCertificate
  \/ XmlNoAuthorityToSign
  \/ XmlRequestCertificateFromMaster
  \/ \E resume \in {"authorities", "certificates"} :
       \/ XmlRequestLost(resume)
       \/ XmlMasterFails(resume)
       \/ XmlMasterIssuesNone(resume)
       \/ XmlMasterIssues(resume)
  \/ XmlLoadAuthority
  \/ XmlLoadAuthorityCrashes
  \/ XmlLoadAuthorityThrows
  \/ XmlLoadOcsp
  \/ XmlLoadOcspCrashes
  \/ XmlLoadOcspThrows
  \/ XmlAuthoritiesDone
  \/ XmlCertificatesDone
  \/ XmlCheckOcsp
  \/ XmlPublishRevocationLists

XmlNext ==
  \/ \E m \in {"initialize", "load"} : Start(m)
  \/ EditConfiguration
  \/ Crash
  \/ XmlConfigure

XmlSpec == Init /\ [][XmlNext]_startupVars

-----------------------------------------------------------------------------
(* Properties.                                                             *)

FromMaster == {i \in DOMAIN certificates : certificates[i].signer = 0}

(* The maps agree with each other and with the database: each name leads to *)
(* a certificate of that name that is an authority's or, whatever its type, *)
(* one the master issued.                                                   *)
XmlRegistryAgrees ==
  /\ DOMAIN caPassword = DOMAIN caIndex
  /\ DOMAIN ocspPassword = DOMAIN ocspIndex
  /\ \A n \in DOMAIN caIndex :
       caIndex[n] \in AuthorityIds(certificates, n)
                        \cup (FromMaster \cap CertificateIds(certificates, n))
  /\ \A n \in DOMAIN ocspIndex : ocspIndex[n] \in CertificateIds(certificates, n)
  /\ \A n \in DOMAIN caOcsp : caOcsp[n] \in DOMAIN ocspPassword

(* The price of registering whatever the master issues: a certificate that  *)
(* is no authority's signs only if it came from the master.  All others are *)
(* issued as IssuedByAuthority says, the master's aside.                    *)
XmlIssuance ==
  \A i \in DOMAIN certificates \ FromMaster :
    LET c == certificates[i] IN
    /\ certificates[c.signer].subject = c.issuer
    /\ IF c.signer = i
       THEN c.type = "SELF_SIGNED_CA"
       ELSE /\ c.signer < i
            /\ certificates[c.signer].type \notin AuthorityType
                 => c.signer \in FromMaster

(* Without a master, a server that serves knows what it was configured with.*)
XmlRegistryMatches == ~config.master => RegistryMatchesConfiguration

(* What the server answers from: right in itself and right to the file.     *)
XmlRegistryRight == XmlRegistryAgrees /\ XmlRegistryMatches

(* What an initialisation accepted a load accepts when the authorities are  *)
(* coherent, no master answers and every OCSP signer has a password: a      *)
(* generation takes a signer without, the load does not survive it, and an  *)
(* entry the master answered with nothing is passed over when generated.    *)
XmlReloadAccepted ==
  [][phase # "down" /\ phase' = "down" /\ mode = "load" /\ ~faulted'
       /\ exit' \in {"exception", "undefined"} =>
       \A b \in built :
         \/ b.config # config
         \/ ~CoherentAuthorities(config)
         \/ config.master
         \/ \E k \in DOMAIN config.certificates :
              /\ config.certificates[k].type = "OCSP_SIGNING"
              /\ config.certificates[k].password = NoPassword
    ]_startupVars
=============================================================================
