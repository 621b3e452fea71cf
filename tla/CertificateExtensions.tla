----------------------- MODULE CertificateExtensions -----------------------
(***************************************************************************)
(* The extensions of an entry of a configuration: those its type brings    *)
(* (utilities/security/certificate.cpp), those the configuration gives it, *)
(* and the addresses the certificate store server adds; and which of them  *)
(* the server, in its two forms, hands to the library that generates the   *)
(* certificate. The library is external: what a certificate carries is     *)
(* what the call was handed, at most.                                      *)
(*                                                                         *)
(* m_extensions is a std::map and every function but setExtensions fills   *)
(* it with insert, which keeps the value of a key that is there already.   *)
(***************************************************************************)
EXTENDS Naturals, Sequences

CONSTANTS
  Configurations,  \* the extensions a configuration may bring: functions
  Addresses,       \* the external addresses of a server, NoAddress among them
  NoAddress,
  MaxTypes         \* bound: how often the type of one certificate is set

ServerAddress == "server address"

VARIABLES m_certificateType, m_extensions,
          given,        \* the types the certificate was given, in order
          configured,   \* the extensions the configuration gave it, if any
          updated,      \* the external address the server updated it with, if it did
          generatedBy,  \* the server that generated the entry, or asked its master to
          handed        \* the extensions that the generating call was handed

extensionVars == <<m_certificateType, m_extensions, given, configured, updated, generatedBy, handed>>

NotUpdated == "not updated"
Nobody     == "nobody"

(* An external address is not the server's own. *)
ASSUME AddressesAssumption == Addresses \intersect {ServerAddress, NotUpdated} = {}

(* std::map::insert of each pair of "more"; here, of pairs of distinct keys. *)
Insert(map, more) ==
  [e \in DOMAIN map \union DOMAIN more |-> IF e \in DOMAIN map THEN map[e] ELSE more[e]]

NoExtensions == [e \in {} |-> ""]

AuthorityExtensions ==
  [subjectKeyIdentifier |-> "hash", authorityKeyIdentifier |-> "keyid:always,issuer",
   basicConstraints |-> "critical,CA:true",
   keyUsage |-> "critical,digitalSignature,cRLSign,keyCertSign"]

ServerExtensions ==
  [subjectKeyIdentifier |-> "hash", authorityKeyIdentifier |-> "keyid,issuer",
   basicConstraints |-> "CA:FALSE", keyUsage |-> "critical,digitalSignature,keyEncipherment",
   extKeyUsage |-> "serverAuth", netscapeCertType |-> "server"]

ClientExtensions ==
  [subjectKeyIdentifier |-> "hash", authorityKeyIdentifier |-> "keyid,issuer",
   basicConstraints |-> "CA:FALSE",
   keyUsage |-> "critical,nonRepudiation,digitalSignature,keyEncipherment",
   extKeyUsage |-> "clientAuth,emailProtection", netscapeCertType |-> "client,email"]

OcspSigningExtensions ==
  [basicConstraints |-> "CA:FALSE", keyUsage |-> "nonRepudiation,digitalSignature,keyEncipherment",
   extKeyUsage |-> "OCSPSigning"]

setSelfSignedCertificateAuthorityExtensions(map) == Insert(map, AuthorityExtensions)
setCertificateAuthorityExtensions(map) == Insert(map, AuthorityExtensions)
setIntermediateCertificateAuthorityExtensions(map) == Insert(map, AuthorityExtensions)
setServerCertificateExtensions(map) == Insert(map, ServerExtensions)
setClientCertificateExtensions(map) == Insert(map, ClientExtensions)
setOcspSigningCertificateExtensions(map) == Insert(map, OcspSigningExtensions)

Types == {"self_signed_ca", "ca", "intermediate_ca", "server", "client", "ocsp_signing", "timestamping"}

(* A type without a branch, timestamping for instance, brings nothing. *)
Typed(type, map) ==
  CASE type = "self_signed_ca"  -> setSelfSignedCertificateAuthorityExtensions(map)
    [] type = "ca"              -> setCertificateAuthorityExtensions(map)
    [] type = "intermediate_ca" -> setIntermediateCertificateAuthorityExtensions(map)
    [] type = "server"          -> setServerCertificateExtensions(map)
    [] type = "client"          -> setClientCertificateExtensions(map)
    [] type = "ocsp_signing"    -> setOcspSigningCertificateExtensions(map)
    [] OTHER                    -> map

Published(address) == [crlDistributionPoints |-> address, infoAccess |-> address]

(* What the server configured from XML adds to a generated certificate. *)
getCertificateExtensionsToAdd(configuration) ==
  Insert(Published(ServerAddress),
         [e \in DOMAIN configuration \intersect {"crlDistributionPoints", "infoAccess", "basicConstraints"} |->
            configuration[e]])

(* An entry is configured before a server generates it, and a server         *)
(* generates it once.                                                       *)
setCertificateType(type) ==
  /\ generatedBy = Nobody /\ Len(given) < MaxTypes
  /\ m_certificateType' = type
  /\ m_extensions' = Typed(type, m_extensions)
  /\ given' = Append(given, type)
  /\ UNCHANGED <<configured, updated, generatedBy, handed>>

(* The map is replaced, whatever the type brought to it. *)
setExtensions(map) ==
  /\ generatedBy = Nobody /\ configured = NoExtensions
  /\ m_extensions' = map
  /\ configured' = map
  /\ given' = <<>>
  /\ UNCHANGED <<m_certificateType, updated, generatedBy, handed>>

(* The rest of an action: the entry's own map gains the server's addresses. *)
updateCertificateExtensions(external) ==
  /\ m_extensions' = Insert(m_extensions, Published(IF external # NoAddress THEN external ELSE ServerAddress))
  /\ updated' = external

(* The rest of an action: what the library's call that generates is handed. *)
Generates(server, extensions) ==
  /\ generatedBy = Nobody
  /\ generatedBy' = server
  /\ handed' = extensions
  /\ UNCHANGED <<m_certificateType, given, configured>>

(* Self-signed authorities, and certificates: the entry is updated, and the *)
(* library is handed names, a type and passwords, not the entry.            *)
GenerateFromNames(external) ==
  /\ m_certificateType \in {"self_signed_ca", "client", "server", "ocsp_signing"}
  /\ updateCertificateExtensions(external)
  /\ Generates("base", NoExtensions)

(* Mutant: the entry is updated before the request is made of it. *)
UpdatedBeforeTheRequest(external) ==
  /\ m_certificateType \in {"ca", "intermediate_ca"}
  /\ updateCertificateExtensions(external)
  /\ Generates("base", m_extensions')

(* Other authorities: the request is made of the entry as it is, and the    *)
(* entry is updated when there is one; the certificate is made of the       *)
(* request.                                                                 *)
generateDefaultOtherCertificateAuthorities(external) ==
  /\ m_certificateType \in {"ca", "intermediate_ca"}
  /\ Generates("base", m_extensions)
  /\ \/ updateCertificateExtensions(external)
     \/ UNCHANGED <<m_extensions, updated>>

(* The request that a master answers is made of the entry, never updated. *)
addCertificateFromMasterCertificateStore ==
  /\ Generates("base", m_extensions)
  /\ UNCHANGED <<m_extensions, updated>>

(* The other server keeps no such entry: it hands over what its template    *)
(* makes of the configuration, or nothing with the request for its master.  *)
GenerateFromXml ==
  /\ \/ Generates("xml", getCertificateExtensionsToAdd(configured))
     \/ Generates("xml", NoExtensions)
  /\ UNCHANGED <<m_extensions, updated>>

ExtensionsInit ==
  /\ m_certificateType = "unknown" /\ m_extensions = NoExtensions
  /\ given = <<>> /\ configured = NoExtensions /\ updated = NotUpdated
  /\ generatedBy = Nobody /\ handed = NoExtensions

ExtensionsNext ==
  \/ \E type \in Types : setCertificateType(type)
  \/ \E map \in Configurations \ {NoExtensions} : setExtensions(map)
  \/ \E external \in Addresses : GenerateFromNames(external)
  \/ \E external \in Addresses : generateDefaultOtherCertificateAuthorities(external)
  \/ addCertificateFromMasterCertificateStore
  \/ GenerateFromXml

ExtensionsSpec == ExtensionsInit /\ [][ExtensionsNext]_extensionVars

-----------------------------------------------------------------------------
(* Properties *)

(* The i-th type given, since the map was replaced, is the first to bring e. *)
Brings(type, e) == e \in DOMAIN Typed(type, NoExtensions)
FirstBrings(i, e) == Brings(given[i], e) /\ \A j \in 1 .. i - 1 : ~Brings(given[j], e)

(***************************************************************************)
(* certificate.cpp:17 and the like: an extension has the value of the      *)
(* configuration, or else of the first type given that brings it. A second *)
(* type replaces nothing and removes nothing: an authority made a client   *)
(* keeps its basic constraints and gains the extended key usage.           *)
(***************************************************************************)
FirstTypeRules ==
  \A e \in {"subjectKeyIdentifier", "authorityKeyIdentifier", "basicConstraints",
            "keyUsage", "extKeyUsage", "netscapeCertType"} :
    IF e \in DOMAIN configured THEN m_extensions[e] = configured[e]
    ELSE IF e \in DOMAIN m_extensions
    THEN \E i \in 1 .. Len(given) :
           FirstBrings(i, e) /\ m_extensions[e] = Typed(given[i], NoExtensions)[e]
    ELSE \A i \in 1 .. Len(given) : ~Brings(given[i], e)

(***************************************************************************)
(* certificateStoreServer.cpp:127-138: the addresses in an entry's map are  *)
(* those configured, or else those of the server's update: its external    *)
(* address where it has one. Both of them, or none. Of the certificate     *)
(* they say nothing: see HandedOver.                                       *)
(***************************************************************************)
PublishedAddresses ==
  \A e \in {"crlDistributionPoints", "infoAccess"} :
    IF e \in DOMAIN configured THEN m_extensions[e] = configured[e]
    ELSE IF updated = NotUpdated THEN e \notin DOMAIN m_extensions
    ELSE m_extensions[e] = IF updated = NoAddress THEN ServerAddress ELSE updated

(***************************************************************************)
(* certificateStoreServer.cpp:209, 238, 318, 403: what the library is      *)
(* handed. Where the base server hands over an entry, it is all that the   *)
(* map has, the server's own addresses excepted: they come after the       *)
(* request, or to an entry that is handed to nobody, so that no            *)
(* certificate of this server carries an address of it, but the            *)
(* configured one at most. A certificate of the server configured from XML *)
(* carries this server's own, whatever is configured, and of the rest what *)
(* is configured (certificateStoreServerFromXml.h:78-92).                  *)
(***************************************************************************)
HandedOver ==
  /\ generatedBy = "base" /\ DOMAIN handed # {} =>
       /\ DOMAIN handed = {e \in DOMAIN m_extensions :
                            e \in {"crlDistributionPoints", "infoAccess"} => e \in DOMAIN configured}
       /\ \A e \in DOMAIN handed : handed[e] = m_extensions[e]
  /\ generatedBy = "xml" =>
       \A e \in DOMAIN handed :
         IF e \in {"crlDistributionPoints", "infoAccess"} THEN handed[e] = ServerAddress
         ELSE e \in DOMAIN configured /\ handed[e] = configured[e]

(***************************************************************************)
(* Where the extensions of an entry come from - the configuration, the     *)
(* first type, the server's update - and which of them are handed over.    *)
(***************************************************************************)
ExtensionOrigins == FirstTypeRules /\ PublishedAddresses /\ HandedOver
=============================================================================
