-------------------------- MODULE ProgramsProofs ---------------------------
(***************************************************************************)
(* Proofs about the programs that share nothing with the certificate store:*)
(* the extensions of certificates, the database clients, and the two       *)
(* programs of the private credential scheme.                              *)
(*                                                                         *)
(* For every configuration, each extension of an entry is the first word   *)
(* said about it, and what a server hands over of them is as named. For    *)
(* every number of clients, copies and openings, a database client         *)
(* connects as it was last set. For every field and every draw, the values *)
(* the programs print agree, or coincide, as named.                        *)
(***************************************************************************)
EXTENDS CertificateExtensions, DatabaseClient, CredentialPrograms,
        PrivateCredentialProofs, SequenceTheorems, WellFoundedInduction

-----------------------------------------------------------------------------
(* The extensions of a certificate.                                         *)

(* insert keeps what is there, and adds what is not.                        *)
LEMMA InsertFacts ==
  ASSUME NEW map, NEW more
  PROVE  /\ DOMAIN Insert(map, more) = DOMAIN map \union DOMAIN more
         /\ \A e \in DOMAIN map : Insert(map, more)[e] = map[e]
         /\ \A e \in DOMAIN more \ DOMAIN map : Insert(map, more)[e] = more[e]
  BY DEF Insert

FromTypes == {"subjectKeyIdentifier", "authorityKeyIdentifier", "basicConstraints",
              "keyUsage", "extKeyUsage", "netscapeCertType"}
FromServer == {"crlDistributionPoints", "infoAccess"}

(* A type adds what it brings to a map without any, and none of the server's *)
(* extensions.                                                              *)
LEMMA TypedFacts ==
  ASSUME NEW type \in Types, NEW map
  PROVE  /\ DOMAIN Typed(type, map) = DOMAIN map \union DOMAIN Typed(type, NoExtensions)
         /\ \A e \in DOMAIN map : Typed(type, map)[e] = map[e]
         /\ \A e \in DOMAIN Typed(type, NoExtensions) \ DOMAIN map :
              Typed(type, map)[e] = Typed(type, NoExtensions)[e]
         /\ DOMAIN Typed(type, NoExtensions) \subseteq FromTypes
<1>1. DOMAIN NoExtensions = {}
  BY DEF NoExtensions
<1>2. CASE type = "timestamping"
  <2>1. Typed(type, map) = map /\ Typed(type, NoExtensions) = NoExtensions
    BY <1>2 DEF Typed
  <2> QED BY <1>1, <2>1
<1>3. CASE type # "timestamping"
  <2>1. \E more : /\ \A m : Typed(type, m) = Insert(m, more)
                  /\ DOMAIN more \subseteq FromTypes
    <3>1. CASE type \in {"self_signed_ca", "ca", "intermediate_ca"}
      <4>1. \A m : Typed(type, m) = Insert(m, AuthorityExtensions)
        BY <3>1 DEF Typed, setSelfSignedCertificateAuthorityExtensions,
           setCertificateAuthorityExtensions, setIntermediateCertificateAuthorityExtensions
      <4>2. DOMAIN AuthorityExtensions \subseteq FromTypes
        BY DEF AuthorityExtensions, FromTypes
      <4> QED BY <4>1, <4>2
    <3>2. CASE type = "server"
      <4>1. \A m : Typed(type, m) = Insert(m, ServerExtensions)
        BY <3>2 DEF Typed, setServerCertificateExtensions
      <4>2. DOMAIN ServerExtensions \subseteq FromTypes
        BY DEF ServerExtensions, FromTypes
      <4> QED BY <4>1, <4>2
    <3>3. CASE type = "client"
      <4>1. \A m : Typed(type, m) = Insert(m, ClientExtensions)
        BY <3>3 DEF Typed, setClientCertificateExtensions
      <4>2. DOMAIN ClientExtensions \subseteq FromTypes
        BY DEF ClientExtensions, FromTypes
      <4> QED BY <4>1, <4>2
    <3>4. CASE type = "ocsp_signing"
      <4>1. \A m : Typed(type, m) = Insert(m, OcspSigningExtensions)
        BY <3>4 DEF Typed, setOcspSigningCertificateExtensions
      <4>2. DOMAIN OcspSigningExtensions \subseteq FromTypes
        BY DEF OcspSigningExtensions, FromTypes
      <4> QED BY <4>1, <4>2
    <3> QED BY <1>3, <3>1, <3>2, <3>3, <3>4 DEF Types
  <2>2. PICK more : /\ \A m : Typed(type, m) = Insert(m, more)
                    /\ DOMAIN more \subseteq FromTypes
    BY <2>1
  <2>3. Typed(type, map) = Insert(map, more)
    BY <2>2
  <2>4. Typed(type, NoExtensions) = Insert(NoExtensions, more)
    BY <2>2
  <2>5. /\ DOMAIN Typed(type, NoExtensions) = DOMAIN more
        /\ \A e \in DOMAIN more : Typed(type, NoExtensions)[e] = more[e]
    <3>1. /\ DOMAIN Insert(NoExtensions, more) = DOMAIN NoExtensions \union DOMAIN more
          /\ \A e \in DOMAIN more \ DOMAIN NoExtensions :
               Insert(NoExtensions, more)[e] = more[e]
      BY InsertFacts
    <3> QED BY <1>1, <2>4, <3>1
  <2>6. /\ DOMAIN Typed(type, map) = DOMAIN map \union DOMAIN more
        /\ \A e \in DOMAIN map : Typed(type, map)[e] = map[e]
        /\ \A e \in DOMAIN more \ DOMAIN map : Typed(type, map)[e] = more[e]
    <3>1. /\ DOMAIN Insert(map, more) = DOMAIN map \union DOMAIN more
          /\ \A e \in DOMAIN map : Insert(map, more)[e] = map[e]
          /\ \A e \in DOMAIN more \ DOMAIN map : Insert(map, more)[e] = more[e]
      BY InsertFacts
    <3> QED BY <2>3, <3>1
  <2>7. DOMAIN more \subseteq FromTypes
    BY <2>2
  <2> QED BY <2>5, <2>6, <2>7
<1> QED BY <1>2, <1>3

(* The addresses that are published, by the extension that holds them.      *)
LEMMA PublishedFacts ==
  ASSUME NEW address
  PROVE  /\ DOMAIN Published(address) = FromServer
         /\ \A e \in FromServer : Published(address)[e] = address
  BY DEF Published, FromServer

(* What is known of the map beside the values: it holds what was configured, *)
(* what the types bring, and the addresses once it was updated.             *)
MapHolds ==
  /\ given \in Seq(Types)
  /\ updated \in Addresses \union {NotUpdated}
  /\ DOMAIN configured \subseteq DOMAIN m_extensions
  /\ \A i \in 1 .. Len(given) :
       DOMAIN Typed(given[i], NoExtensions) \subseteq DOMAIN m_extensions
  /\ updated # NotUpdated => FromServer \subseteq DOMAIN m_extensions

(* Only what was generated was updated, and one of the two servers did it.   *)
Standing ==
  /\ generatedBy \in {Nobody, "base", "xml"}
  /\ generatedBy = Nobody => updated = NotUpdated

ExtensionsInv == MapHolds /\ Standing /\ FirstTypeRules /\ PublishedAddresses /\ HandedOver

(* Before any configuration the map is empty and its invariant holds.       *)
LEMMA ExtensionsInitInv == ExtensionsInit => ExtensionsInv
<1> SUFFICES ASSUME ExtensionsInit PROVE ExtensionsInv
  OBVIOUS
<1>1. /\ DOMAIN m_extensions = {} /\ DOMAIN configured = {} /\ given = <<>>
      /\ updated = NotUpdated /\ Len(given) = 0 /\ given \in Seq(Types)
      /\ generatedBy = Nobody /\ Nobody # "base" /\ Nobody # "xml"
  BY DEF ExtensionsInit, NoExtensions, Nobody
<1> QED BY <1>1 DEF ExtensionsInv, MapHolds, Standing, FirstTypeRules, PublishedAddresses, HandedOver

(* An entry that nobody generated was not updated, and nothing was handed    *)
(* over: there is nothing to say.                                           *)
LEMMA NotGenerated ==
  ASSUME ExtensionsInv, generatedBy = Nobody, updated' = updated, generatedBy' = generatedBy
  PROVE  updated = NotUpdated /\ Standing' /\ HandedOver'
<1>1. Nobody # "base" /\ Nobody # "xml"
  BY DEF Nobody
<1> QED BY <1>1 DEF ExtensionsInv, Standing, HandedOver

(* A type of certificate only adds what no one has said before.             *)
LEMMA TypeStep ==
  ASSUME ExtensionsInv, NEW type \in Types, setCertificateType(type)
  PROVE  ExtensionsInv'
<1> DEFINE brought == DOMAIN Typed(type, NoExtensions)
<1>1. /\ DOMAIN m_extensions' = DOMAIN m_extensions \union brought
      /\ \A e \in DOMAIN m_extensions : m_extensions'[e] = m_extensions[e]
      /\ \A e \in brought \ DOMAIN m_extensions :
           m_extensions'[e] = Typed(type, NoExtensions)[e]
      /\ brought \subseteq FromTypes
  <2>1. m_extensions' = Typed(type, m_extensions)
    BY DEF setCertificateType
  <2> QED BY <2>1, TypedFacts
<1>2. configured' = configured /\ updated' = updated
  BY DEF setCertificateType
<1>0. Standing' /\ HandedOver'
  BY NotGenerated DEF setCertificateType
<1>3. /\ given \in Seq(Types) /\ given' = Append(given, type)
      /\ given' \in Seq(Types) /\ Len(given) \in Nat /\ Len(given') = Len(given) + 1
      /\ given'[Len(given) + 1] = type
      /\ \A i \in 1 .. Len(given) : given'[i] = given[i]
  BY DEF ExtensionsInv, MapHolds, setCertificateType
<1> HIDE DEF brought
<1>4. MapHolds'
  <2>1. ASSUME NEW i \in 1 .. Len(given')
        PROVE  DOMAIN Typed(given'[i], NoExtensions) \subseteq DOMAIN m_extensions'
    <3>1. CASE i = Len(given) + 1
      BY <1>1, <1>3, <3>1 DEF brought
    <3>2. CASE i # Len(given) + 1
      <4>1. i \in 1 .. Len(given)
        BY <1>3, <3>2
      <4> QED BY <1>1, <1>3, <4>1 DEF ExtensionsInv, MapHolds
    <3> QED BY <3>1, <3>2
  <2> QED BY <1>1, <1>2, <1>3, <2>1 DEF ExtensionsInv, MapHolds
<1>5. FirstTypeRules'
  <2> SUFFICES ASSUME NEW e \in FromTypes, e \notin DOMAIN configured
               PROVE  IF e \in DOMAIN m_extensions'
                      THEN \E i \in 1 .. Len(given') :
                             /\ FirstBrings(i, e)'
                             /\ m_extensions'[e] = Typed(given'[i], NoExtensions)[e]
                      ELSE \A i \in 1 .. Len(given') : ~Brings(given'[i], e)
    <3>1. ASSUME NEW e \in FromTypes, e \in DOMAIN configured
          PROVE  m_extensions'[e] = configured[e]
      <4>1. e \in DOMAIN m_extensions /\ m_extensions[e] = configured[e]
        BY <3>1 DEF ExtensionsInv, MapHolds, FirstTypeRules, FromTypes
      <4> QED BY <1>1, <4>1
    <3> QED BY <1>2, <3>1 DEF FirstTypeRules, FromTypes
  <2>1. CASE e \in DOMAIN m_extensions
    <3>1. PICK i \in 1 .. Len(given) :
            FirstBrings(i, e) /\ m_extensions[e] = Typed(given[i], NoExtensions)[e]
      BY <2>1 DEF ExtensionsInv, FirstTypeRules, FromTypes
    <3>2. i \in 1 .. Len(given') /\ \A j \in 1 .. i - 1 : j \in 1 .. Len(given)
      BY <1>3
    <3>3. FirstBrings(i, e)'
      BY <1>3, <3>1, <3>2 DEF FirstBrings, Brings
    <3>4. m_extensions'[e] = Typed(given'[i], NoExtensions)[e]
      BY <1>1, <1>3, <2>1, <3>1
    <3> QED BY <1>1, <2>1, <3>2, <3>3, <3>4
  <2>2. CASE e \notin DOMAIN m_extensions
    <3>1. \A i \in 1 .. Len(given) : ~Brings(given'[i], e)
      BY <1>3, <2>2 DEF ExtensionsInv, FirstTypeRules, FromTypes
    <3>2. Brings(type, e) <=> e \in brought
      BY DEF Brings, brought
    <3>3. CASE e \in brought
      <4>1. PICK k \in 1 .. Len(given') : k - 1 = Len(given) /\ given'[k] = type
        BY <1>3
      <4>2. FirstBrings(k, e)'
        BY <3>1, <3>2, <3>3, <4>1 DEF FirstBrings
      <4>3. m_extensions'[e] = Typed(given'[k], NoExtensions)[e]
        BY <1>1, <2>2, <3>3, <4>1
      <4> QED BY <1>1, <3>3, <4>1, <4>2, <4>3
    <3>4. CASE e \notin brought
      <4>1. \A i \in 1 .. Len(given') : i \in 1 .. Len(given) \/ i = Len(given) + 1
        BY <1>3
      <4>2. e \notin DOMAIN m_extensions'
        BY <1>1, <2>2, <3>4
      <4> QED BY <1>3, <3>1, <3>2, <3>4, <4>1, <4>2
    <3> QED BY <3>3, <3>4
  <2> QED BY <2>1, <2>2
<1>6. PublishedAddresses'
  <2>1. \A e \in FromServer : e \notin brought
    BY <1>1 DEF FromServer, FromTypes
  <2>2. \A e \in FromServer :
          /\ e \in DOMAIN m_extensions' <=> e \in DOMAIN m_extensions
          /\ e \in DOMAIN configured => e \in DOMAIN m_extensions
          /\ updated # NotUpdated => e \in DOMAIN m_extensions
    BY <1>1, <2>1 DEF ExtensionsInv, MapHolds
  <2> QED BY <1>1, <1>2, <2>2 DEF ExtensionsInv, PublishedAddresses, FromServer
<1> QED BY <1>0, <1>4, <1>5, <1>6 DEF ExtensionsInv

(* The configuration replaces the map, and comes before every other word.   *)
LEMMA ConfigurationStep ==
  ASSUME ExtensionsInv, NEW map, setExtensions(map)
  PROVE  ExtensionsInv'
<1>1. /\ m_extensions' = map /\ configured' = map /\ given' = <<>>
      /\ Len(given') = 0 /\ given' \in Seq(Types)
  BY DEF setExtensions
<1>2. updated = NotUpdated /\ updated' = updated /\ Standing' /\ HandedOver'
  BY NotGenerated DEF setExtensions
<1> QED BY <1>1, <1>2 DEF ExtensionsInv, MapHolds, FirstTypeRules, PublishedAddresses

(* The server's update adds its two addresses where there are none.         *)
LEMMA UpdateStep ==
  ASSUME ExtensionsInv, generatedBy = Nobody, given' = given, configured' = configured,
         NEW external \in Addresses, updateCertificateExtensions(external)
  PROVE  /\ MapHolds' /\ FirstTypeRules' /\ PublishedAddresses'
         /\ DOMAIN m_extensions' = DOMAIN m_extensions \union FromServer
         /\ \A e \in DOMAIN m_extensions : m_extensions'[e] = m_extensions[e]
         /\ updated' \in Addresses
<1> DEFINE address == IF external # NoAddress THEN external ELSE ServerAddress
           more == Published(address)
<1>1. /\ DOMAIN more = FromServer
      /\ \A e \in FromServer : more[e] = address
  BY PublishedFacts
<1>2. m_extensions' = Insert(m_extensions, more)
  BY DEF updateCertificateExtensions
<1> HIDE DEF more
<1>3. /\ DOMAIN Insert(m_extensions, more) = DOMAIN m_extensions \union DOMAIN more
      /\ \A e \in DOMAIN m_extensions : Insert(m_extensions, more)[e] = m_extensions[e]
      /\ \A e \in DOMAIN more \ DOMAIN m_extensions :
           Insert(m_extensions, more)[e] = more[e]
  BY InsertFacts
<1>4. /\ DOMAIN m_extensions' = DOMAIN m_extensions \union FromServer
      /\ \A e \in DOMAIN m_extensions : m_extensions'[e] = m_extensions[e]
      /\ \A e \in FromServer \ DOMAIN m_extensions : m_extensions'[e] = address
  BY <1>1, <1>2, <1>3
<1>5. /\ configured' = configured /\ given' = given
      /\ updated = NotUpdated /\ updated' = external /\ external # NotUpdated
  BY AddressesAssumption DEF updateCertificateExtensions, ExtensionsInv, Standing
<1>6. MapHolds'
  BY <1>4, <1>5 DEF ExtensionsInv, MapHolds
<1>7. FirstTypeRules'
  <2>1. \A e \in FromTypes : e \in DOMAIN m_extensions' <=> e \in DOMAIN m_extensions
    BY <1>4 DEF FromTypes, FromServer
  <2>2. \A i, e : FirstBrings(i, e)' <=> FirstBrings(i, e)
    BY <1>5 DEF FirstBrings
  <2>3. \A e \in DOMAIN configured : e \in DOMAIN m_extensions
    BY DEF ExtensionsInv, MapHolds
  <2>4. ASSUME NEW e \in FromTypes
        PROVE  IF e \in DOMAIN configured THEN m_extensions'[e] = configured[e]
               ELSE IF e \in DOMAIN m_extensions'
               THEN \E i \in 1 .. Len(given) :
                      FirstBrings(i, e) /\ m_extensions'[e] = Typed(given[i], NoExtensions)[e]
               ELSE \A i \in 1 .. Len(given) : ~Brings(given[i], e)
    BY <1>4, <2>1, <2>3 DEF ExtensionsInv, FirstTypeRules, FromTypes
  <2> QED BY <1>5, <2>2, <2>4 DEF FirstTypeRules, FromTypes
<1>8. PublishedAddresses'
  <2>1. ASSUME NEW e \in FromServer
        PROVE  IF e \in DOMAIN configured THEN m_extensions'[e] = configured[e]
               ELSE m_extensions'[e] = IF updated' = NoAddress THEN ServerAddress
                                       ELSE updated'
    <3>1. CASE e \in DOMAIN configured
      <4>1. e \in DOMAIN m_extensions /\ m_extensions[e] = configured[e]
        BY <3>1 DEF ExtensionsInv, MapHolds, PublishedAddresses, FromServer
      <4> QED BY <1>4, <3>1, <4>1
    <3>2. CASE e \notin DOMAIN configured
      <4>1. e \notin DOMAIN m_extensions
        BY <1>5, <3>2 DEF ExtensionsInv, PublishedAddresses, FromServer
      <4> QED BY <1>4, <1>5, <3>2, <4>1
    <3> QED BY <3>1, <3>2
  <2>2. updated' # NotUpdated
    BY <1>5
  <2> QED BY <1>5, <2>1, <2>2 DEF PublishedAddresses, FromServer
<1> QED BY <1>4, <1>5, <1>6, <1>7, <1>8

(* What was handed is the map before the update: all of it, and of the       *)
(* map after it all but the server's own addresses.                         *)
LEMMA EntryHanded ==
  ASSUME ExtensionsInv, generatedBy = Nobody, configured' = configured,
         generatedBy' = "base", handed' = m_extensions,
         DOMAIN m_extensions' \subseteq DOMAIN m_extensions \union FromServer,
         DOMAIN m_extensions \subseteq DOMAIN m_extensions',
         \A e \in DOMAIN m_extensions : m_extensions'[e] = m_extensions[e]
  PROVE  HandedOver'
<1>1. updated = NotUpdated
  BY DEF ExtensionsInv, Standing
<1>2. \A e \in FromServer : e \in DOMAIN m_extensions => e \in DOMAIN configured
  BY <1>1 DEF ExtensionsInv, PublishedAddresses, FromServer
<1>3. DOMAIN configured \subseteq DOMAIN m_extensions
  BY DEF ExtensionsInv, MapHolds
<1>4. DOMAIN m_extensions = {e \in DOMAIN m_extensions' : e \in FromServer => e \in DOMAIN configured}
  BY <1>2, <1>3
<1>5. FromServer = {"crlDistributionPoints", "infoAccess"}
  BY DEF FromServer
<1> QED BY <1>4, <1>5 DEF HandedOver

(* The entries of which the library is handed the names alone.              *)
LEMMA NamesStep ==
  ASSUME ExtensionsInv, NEW external \in Addresses, GenerateFromNames(external)
  PROVE  ExtensionsInv'
<1>1. /\ generatedBy = Nobody /\ generatedBy' = "base" /\ handed' = NoExtensions
      /\ given' = given /\ configured' = configured /\ updateCertificateExtensions(external)
  BY DEF GenerateFromNames, Generates
<1>2. MapHolds' /\ FirstTypeRules' /\ PublishedAddresses'
  BY <1>1, UpdateStep
<1>3. Standing'
  BY <1>1 DEF Standing, Nobody
<1>4. HandedOver'
  <2>1. DOMAIN handed' = {}
    BY <1>1 DEF NoExtensions
  <2> QED BY <1>1, <2>1 DEF HandedOver
<1> QED BY <1>2, <1>3, <1>4 DEF ExtensionsInv

(* The map stays, and so does what is said of it.                           *)
LEMMA MapKept ==
  ASSUME ExtensionsInv, given' = given, configured' = configured,
         m_extensions' = m_extensions, updated' = updated
  PROVE  MapHolds' /\ FirstTypeRules' /\ PublishedAddresses'
BY DEF ExtensionsInv, MapHolds, FirstTypeRules, FirstBrings, PublishedAddresses

(* The request for an authority is made before the update.                  *)
LEMMA AuthorityStep ==
  ASSUME ExtensionsInv, NEW external \in Addresses,
         generateDefaultOtherCertificateAuthorities(external)
  PROVE  ExtensionsInv'
<1>1. /\ generatedBy = Nobody /\ generatedBy' = "base" /\ handed' = m_extensions
      /\ given' = given /\ configured' = configured
  BY DEF generateDefaultOtherCertificateAuthorities, Generates
<1>2. Standing'
  BY <1>1 DEF Standing, Nobody
<1>3. CASE updateCertificateExtensions(external)
  <2>1. /\ MapHolds' /\ FirstTypeRules' /\ PublishedAddresses'
        /\ DOMAIN m_extensions' = DOMAIN m_extensions \union FromServer
        /\ \A e \in DOMAIN m_extensions : m_extensions'[e] = m_extensions[e]
    BY <1>1, <1>3, UpdateStep
  <2>2. HandedOver'
    BY <1>1, <2>1, EntryHanded
  <2> QED BY <1>2, <2>1, <2>2 DEF ExtensionsInv
<1>4. CASE UNCHANGED <<m_extensions, updated>>
  <2>1. MapHolds' /\ FirstTypeRules' /\ PublishedAddresses'
    BY <1>1, <1>4, MapKept
  <2>2. HandedOver'
    BY <1>1, <1>4, EntryHanded
  <2> QED BY <1>2, <2>1, <2>2 DEF ExtensionsInv
<1> QED BY <1>3, <1>4 DEF generateDefaultOtherCertificateAuthorities

(* The request for a master is made of an entry that is never updated.      *)
LEMMA MasterStep ==
  ASSUME ExtensionsInv, addCertificateFromMasterCertificateStore
  PROVE  ExtensionsInv'
<1>1. /\ generatedBy = Nobody /\ generatedBy' = "base" /\ handed' = m_extensions
      /\ given' = given /\ configured' = configured
      /\ m_extensions' = m_extensions /\ updated' = updated
  BY DEF addCertificateFromMasterCertificateStore, Generates
<1>2. Standing'
  BY <1>1 DEF Standing, Nobody
<1>3. MapHolds' /\ FirstTypeRules' /\ PublishedAddresses'
  BY <1>1, MapKept
<1>4. HandedOver'
  BY <1>1, EntryHanded
<1> QED BY <1>2, <1>3, <1>4 DEF ExtensionsInv

(* The server configured from XML hands over its own addresses, then what is *)
(* configured.                                                              *)
LEMMA XmlStep ==
  ASSUME ExtensionsInv, GenerateFromXml
  PROVE  ExtensionsInv'
<1> DEFINE own == Published(ServerAddress)
           more == [e \in DOMAIN configured
                       \intersect {"crlDistributionPoints", "infoAccess", "basicConstraints"} |->
                      configured[e]]
<1>1. /\ generatedBy = Nobody /\ generatedBy' = "xml"
      /\ given' = given /\ configured' = configured
      /\ m_extensions' = m_extensions /\ updated' = updated
      /\ handed' = NoExtensions \/ handed' = Insert(own, more)
  BY DEF GenerateFromXml, Generates, getCertificateExtensionsToAdd
<1>2. Standing'
  BY <1>1 DEF Standing, Nobody
<1>3. MapHolds' /\ FirstTypeRules' /\ PublishedAddresses'
  BY <1>1, MapKept
<1>4. DOMAIN own = FromServer /\ \A e \in FromServer : own[e] = ServerAddress
  BY PublishedFacts
<1>5. \A e \in DOMAIN more : e \in DOMAIN configured /\ more[e] = configured[e]
  OBVIOUS
<1> HIDE DEF own, more
<1>6. /\ DOMAIN Insert(own, more) = DOMAIN own \union DOMAIN more
      /\ \A e \in DOMAIN own : Insert(own, more)[e] = own[e]
      /\ \A e \in DOMAIN more \ DOMAIN own : Insert(own, more)[e] = more[e]
  BY InsertFacts
<1>7. ASSUME NEW e \in DOMAIN handed'
      PROVE  IF e \in {"crlDistributionPoints", "infoAccess"} THEN handed'[e] = ServerAddress
             ELSE e \in DOMAIN configured /\ handed'[e] = configured[e]
  <2>1. handed' = Insert(own, more)
    BY <1>1, <1>7 DEF NoExtensions
  <2> QED BY <1>4, <1>5, <1>6, <2>1 DEF FromServer
<1>8. HandedOver'
  BY <1>1, <1>7 DEF HandedOver
<1> QED BY <1>2, <1>3, <1>8 DEF ExtensionsInv

(* Where the values of the map come from is inductive with what it holds    *)
(* and with what was handed over of it.                                     *)
THEOREM ExtensionsInvariant == ExtensionsSpec => []ExtensionsInv
<1>1. ExtensionsInv /\ [ExtensionsNext]_extensionVars => ExtensionsInv'
  <2> SUFFICES ASSUME ExtensionsInv, [ExtensionsNext]_extensionVars
               PROVE  ExtensionsInv'
    OBVIOUS
  <2>1. CASE ExtensionsNext
    BY <2>1, TypeStep, ConfigurationStep, NamesStep, AuthorityStep, MasterStep, XmlStep
       DEF ExtensionsNext
  <2>2. CASE UNCHANGED extensionVars
    BY <2>2 DEF extensionVars, ExtensionsInv, MapHolds, Standing, FirstTypeRules, FirstBrings,
       PublishedAddresses, HandedOver
  <2> QED BY <2>1, <2>2
<1> QED BY <1>1, ExtensionsInitInv, PTL DEF ExtensionsSpec

(* Every extension of an entry's map has the value of the configuration, of *)
(* the first type or of the server's update; what the base server hands to  *)
(* the generating library is the map without its own addresses, and what    *)
(* the server configured from XML hands over has its own whatever is        *)
(* configured.                                                              *)
THEOREM OriginsKept == ExtensionsSpec => []ExtensionOrigins
<1>1. ExtensionsInv => ExtensionOrigins
  BY DEF ExtensionsInv, ExtensionOrigins
<1> QED BY <1>1, ExtensionsInvariant, PTL

-----------------------------------------------------------------------------
(* The database clients.                                                    *)

(* Induction by the smallest counterexample.                                *)
LEMMA SmallestMember ==
  ASSUME NEW T, T \subseteq Nat, T # {}
  PROVE  \E x \in T : \A y \in T : x <= y
<1>1. PICK x \in T : \A y \in T : ~(<<y, x>> \in OpToRel(<, Nat))
  BY WFMin, NatLessThanWellFounded
<1>2. ASSUME NEW y \in T PROVE x <= y
  <2>1. ~(<<y, x>> \in OpToRel(<, Nat))
    BY <1>1
  <2>2. ~(y < x)
    BY <2>1 DEF OpToRel
  <2> QED BY <2>2
<1> QED BY <1>2

(* f says which of the first k words are read as options.                   *)
ReadUpTo(options, k, f) ==
  /\ DOMAIN f = 0 .. k
  /\ f[0] = FALSE
  /\ \A i \in 1 .. k : f[i] = (i = 1 \/ ~(f[i - 1] /\ options[i - 1][2] = Nothing))

(* The recursion that says which words are options has a solution at every  *)
(* length.                                                                  *)
LEMMA ReadUpToExists ==
  ASSUME NEW options, NEW k \in Nat
  PROVE  \E f : ReadUpTo(options, k, f)
<1> DEFINE T == {n \in Nat : ~\E f : ReadUpTo(options, n, f)}
<1>1. SUFFICES ASSUME T # {} PROVE FALSE
  OBVIOUS
<1>2. PICK n \in T : \A m \in T : n <= m
  <2> HIDE DEF T
  <2>1. T \subseteq Nat
    BY DEF T
  <2> QED BY <1>1, <2>1, SmallestMember
<1>3. n \in Nat /\ ~\E f : ReadUpTo(options, n, f)
  OBVIOUS
<1>4. CASE n = 0
  <2>1. ReadUpTo(options, 0, [i \in 0 .. 0 |-> FALSE])
    BY DEF ReadUpTo
  <2> QED BY <1>3, <1>4, <2>1
<1>5. CASE n # 0
  <2>1. n - 1 \in Nat /\ ~(n <= n - 1)
    BY <1>3, <1>5
  <2>2. n - 1 \notin T
    BY <1>2, <2>1
  <2>3. PICK f : ReadUpTo(options, n - 1, f)
    BY <2>1, <2>2
  <2> DEFINE last == n = 1 \/ ~(f[n - 1] /\ options[n - 1][2] = Nothing)
             g == [i \in 0 .. n |-> IF i # n THEN f[i] ELSE last]
  <2>4. DOMAIN g = 0 .. n
    OBVIOUS
  <2>5. g[0] = FALSE
    BY <1>3, <1>5, <2>3 DEF ReadUpTo
  <2>6. ASSUME NEW i \in 1 .. n
        PROVE  g[i] = (i = 1 \/ ~(g[i - 1] /\ options[i - 1][2] = Nothing))
    <3>1. i - 1 \in 0 .. n /\ i - 1 # n /\ i \in 0 .. n
      BY <1>3
    <3>2. g[i - 1] = f[i - 1]
      BY <3>1
    <3>3. CASE i = n
      BY <3>1, <3>2, <3>3
    <3>4. CASE i # n
      <4>1. i \in 1 .. n - 1 /\ g[i] = f[i]
        BY <1>3, <3>1, <3>4
      <4>2. f[i] = (i = 1 \/ ~(f[i - 1] /\ options[i - 1][2] = Nothing))
        BY <2>3, <4>1 DEF ReadUpTo
      <4> QED BY <3>2, <4>1, <4>2
    <3> QED BY <3>3, <3>4
  <2> HIDE DEF g
  <2>7. ReadUpTo(options, n, g)
    BY <2>4, <2>5, <2>6 DEF ReadUpTo
  <2> QED BY <1>3, <2>7
<1> QED BY <1>4, <1>5

(* The first word is read as an option, and every other unless the one      *)
(* before it is and has no value.                                           *)
LEMMA ReadStep ==
  ASSUME NEW options, Len(options) \in Nat
  PROVE  /\ Read(options) \subseteq 1 .. Len(options)
         /\ \A i \in 1 .. Len(options) :
              i \in Read(options) <=>
                i = 1 \/ ~(i - 1 \in Read(options) /\ options[i - 1][2] = Nothing)
<1> DEFINE Step(f) == [i \in 0 .. Len(options) |->
                         i > 0 /\ (i = 1 \/ ~(f[i - 1] /\ options[i - 1][2] = Nothing))]
           read == CHOOSE f : f = Step(f)
<1>1. PICK f : ReadUpTo(options, Len(options), f)
  BY ReadUpToExists
<1>2. \E g : g = Step(g)
  <2> DEFINE g == [i \in 0 .. Len(options) |-> f[i]]
  <2>1. ASSUME NEW i \in 0 .. Len(options)
        PROVE  g[i] = Step(g)[i]
    <3>1. CASE i = 0
      <4>1. f[0] = FALSE /\ 0 \in 0 .. Len(options) /\ ~(0 > 0)
        BY <1>1 DEF ReadUpTo
      <4>2. g[0] = FALSE
        BY <4>1
      <4>3. Step(g)[0] = FALSE
        BY <4>1
      <4> QED BY <3>1, <4>2, <4>3
    <3>2. CASE i # 0
      <4>1. i \in 1 .. Len(options) /\ i - 1 \in 0 .. Len(options) /\ i > 0
        BY <3>2
      <4>2. f[i] = (i = 1 \/ ~(f[i - 1] /\ options[i - 1][2] = Nothing))
        BY <1>1, <4>1 DEF ReadUpTo
      <4>3. g[i] = f[i] /\ g[i - 1] = f[i - 1]
        BY <4>1
      <4> QED BY <4>1, <4>2, <4>3
    <3> QED BY <3>1, <3>2
  <2>2. g = Step(g)
    BY <2>1
  <2> QED BY <2>2
<1>3. read = Step(read)
  <2> HIDE DEF Step
  <2> QED BY <1>2
<1>4. Read(options) = {i \in 1 .. Len(options) : read[i]}
  BY DEF Read
<1> HIDE DEF read
<1>5. ASSUME NEW i \in 1 .. Len(options)
      PROVE  i \in Read(options) <=>
               i = 1 \/ ~(i - 1 \in Read(options) /\ options[i - 1][2] = Nothing)
  <2>1. read[i] <=> i = 1 \/ ~(read[i - 1] /\ options[i - 1][2] = Nothing)
    <3>1. i \in 0 .. Len(options) /\ i > 0
      OBVIOUS
    <3>2. read[i] = Step(read)[i]
      BY <1>3
    <3> QED BY <3>1, <3>2
  <2>2. i # 1 => (i - 1 \in Read(options) <=> read[i - 1])
    <3>1. i # 1 => i - 1 \in 1 .. Len(options)
      OBVIOUS
    <3> QED BY <1>4, <3>1
  <2>3. i \in Read(options) <=> read[i]
    BY <1>4
  <2> QED BY <2>1, <2>2, <2>3
<1> QED BY <1>4, <1>5

-----------------------------------------------------------------------------
(* The last option of a keyword counts.                                     *)
LEMMA EffectiveAt ==
  ASSUME NEW options, NEW keyword, NEW i \in Nat, Len(options) \in Nat,
         i \in Given(options, keyword), \A j \in Given(options, keyword) : j <= i,
         options[i][2] # Nothing
  PROVE  Effective(options, keyword) = options[i][2]
<1> DEFINE last == CHOOSE k \in Given(options, keyword) :
                     \A j \in Given(options, keyword) : j <= k
<1>1. last \in Given(options, keyword) /\ \A j \in Given(options, keyword) : j <= last
  OBVIOUS
<1>2. Given(options, keyword) \subseteq Nat
  BY ReadStep DEF Given
<1> HIDE DEF last
<1>3. last = i
  <2>1. last \in Nat /\ last <= i /\ i <= last
    BY <1>1, <1>2
  <2> QED BY <2>1
<1>4. Given(options, keyword) # {}
  OBVIOUS
<1> QED BY <1>3, <1>4 DEF Effective, last

(* An option that is given is given last somewhere.                         *)
LEMMA GivenLast ==
  ASSUME NEW options, NEW keyword, Len(options) \in Nat,
         Given(options, keyword) # {}
  PROVE  \E i \in Given(options, keyword) : \A j \in Given(options, keyword) : j <= i
<1> DEFINE G == Given(options, keyword)
           T == {n \in Nat : \A j \in G : j <= n}
<1>1. G \subseteq 1 .. Len(options)
  BY ReadStep DEF Given
<1>2. Len(options) \in T
  BY <1>1
<1>3. PICK n \in T : \A m \in T : n <= m
  <2>1. T \subseteq Nat /\ T # {}
    BY <1>2
  <2> HIDE DEF T
  <2> QED BY <2>1, SmallestMember
<1>4. n \in G
  <2> SUFFICES ASSUME n \notin G PROVE FALSE
    OBVIOUS
  <2>1. \A j \in G : j <= n /\ j # n /\ j \in Nat /\ j >= 1
    BY <1>1, <1>3
  <2>2. PICK g \in G : TRUE
    OBVIOUS
  <2>3. n \in Nat /\ n >= 1
    BY <2>1, <2>2
  <2>4. n - 1 \in T
    BY <2>1, <2>3
  <2> QED BY <1>3, <2>3, <2>4
<1> QED BY <1>3, <1>4

-----------------------------------------------------------------------------
(* The clients.                                                             *)

Values == {Address, Nothing, "5432", "user", "allow", "verify-ca", "verify-full"}
            \union DatabaseNames \union Hosts \union Passwords

Keywords == {"hostaddr", "port", "dbname", "host", "sslmode", "user", "password"}

Options == Seq(Keywords \X Values)

MadeClients ==
  [made : {TRUE}, certificate : BOOLEAN, mode : {"allow", "verify-ca", "verify-full"},
   address : {Address, Nothing}, name : DatabaseNames,
   password : Passwords \union {Nothing}, list : Clients, options : Options,
   database : Options]

ClientsTyped ==
  /\ clients \in [Clients -> MadeClients \union {NoClient}]
  /\ names \in [Clients -> Seq(Hosts)]

(* Where a host is among a client's options, it is the first name of its    *)
(* list.                                                                    *)
HostOf(options, client, lists) ==
  \A i \in 1 .. Len(options) :
    options[i][1] = "host" =>
      /\ client.certificate
      /\ lists[client.list] # <<>>
      /\ options[i][2] = Head(lists[client.list])

HostsKept ==
  \A c \in Clients : clients[c].made => HostOf(clients[c].options, clients[c], names)

DatabaseInv == ClientsTyped /\ HostsKept

(* A block of five settings is three and two, whichever two.                *)
LEMMA ThreeAndTwo ==
  ASSUME NEW a, NEW b, NEW c, NEW d, NEW e
  PROVE  <<a, b, c>> \o <<d, e>> = <<a, b, c, d, e>>
<1> DEFINE S == {a, b, c, d, e}
           s == <<a, b, c>>
           t == <<d, e>>
           u == <<a, b, c, d, e>>
<1>1. s \in Seq(S) /\ t \in Seq(S) /\ u \in Seq(S)
  OBVIOUS
<1>2. Len(s) = 3 /\ Len(t) = 2 /\ Len(u) = 5
  OBVIOUS
<1>3. /\ s[1] = u[1] /\ s[2] = u[2] /\ s[3] = u[3] /\ t[1] = u[4] /\ t[2] = u[5]
  OBVIOUS
<1> HIDE DEF S, s, t, u
<1>4. /\ s \o t \in Seq(S) /\ Len(s \o t) = 5
      /\ \A i \in 1 .. 5 : (s \o t)[i] = IF i <= 3 THEN s[i] ELSE t[i - 3]
  <2>1. /\ s \o t \in Seq(S)
        /\ Len(s \o t) = Len(s) + Len(t)
        /\ \A i \in 1 .. Len(s) + Len(t) :
             (s \o t)[i] = IF i <= Len(s) THEN s[i] ELSE t[i - Len(s)]
    BY <1>1, ConcatProperties
  <2> QED BY <1>2, <2>1
<1>5. \A i \in 1 .. 5 : (s \o t)[i] = u[i]
  <2>1. \A i \in 1 .. 5 : i = 1 \/ i = 2 \/ i = 3 \/ i = 4 \/ i = 5
    OBVIOUS
  <2> QED BY <1>3, <1>4, <2>1
<1>6. s \o t = u
  BY <1>1, <1>2, <1>4, <1>5, SeqEqual
<1> QED BY <1>6 DEF s, t, u

(* The settings of an opening: five words, each of its own keyword.         *)
LEMMA SettingsFacts ==
  ASSUME DatabaseInv, NEW c \in Clients, clients[c].made,
         clients[c].certificate => names[clients[c].list] # <<>>
  PROVE  /\ Settings(c) \in Options /\ Len(Settings(c)) = 5
         /\ Settings(c)[1] = <<"hostaddr", clients[c].address>>
         /\ Settings(c)[2] = <<"port", "5432">>
         /\ Settings(c)[3] = <<"dbname", clients[c].name>>
         /\ clients[c].certificate =>
              /\ Settings(c)[4] = <<"host", Head(names[clients[c].list])>>
              /\ Settings(c)[5] = <<"sslmode", clients[c].mode>>
         /\ ~clients[c].certificate =>
              /\ Settings(c)[4] = <<"user", "user">>
              /\ Settings(c)[5] = <<"password", clients[c].password>>
<1>1. clients[c] \in MadeClients
  BY DEF DatabaseInv, ClientsTyped, NoClient
<1>2. clients[c].certificate => Head(names[clients[c].list]) \in Hosts
  <2>1. names[clients[c].list] \in Seq(Hosts)
    BY <1>1 DEF DatabaseInv, ClientsTyped, MadeClients
  <2> QED BY <2>1
<1>3. CASE clients[c].certificate
  <2> DEFINE host == Head(names[clients[c].list])
             s == <<<<"hostaddr", clients[c].address>>, <<"port", "5432">>,
                    <<"dbname", clients[c].name>>, <<"host", host>>,
                    <<"sslmode", clients[c].mode>>>>
  <2>1. Settings(c) = s
    <3>1. Settings(c) = <<<<"hostaddr", clients[c].address>>, <<"port", "5432">>,
                          <<"dbname", clients[c].name>>>>
                        \o <<<<"host", host>>, <<"sslmode", clients[c].mode>>>>
      BY <1>3, Zenon DEF Settings
    <3> QED BY <3>1, ThreeAndTwo, Zenon
  <2>2. host \in Values /\ clients[c].address \in Values /\ clients[c].name \in Values
        /\ clients[c].mode \in Values /\ "5432" \in Values
    BY <1>1, <1>2, <1>3 DEF MadeClients, Values
  <2> HIDE DEF host
  <2>3. s \in Options
    BY <2>2 DEF Options, Keywords
  <2> QED BY <1>3, <2>1, <2>3 DEF host
<1>4. CASE ~clients[c].certificate
  <2> DEFINE s == <<<<"hostaddr", clients[c].address>>, <<"port", "5432">>,
                    <<"dbname", clients[c].name>>, <<"user", "user">>,
                    <<"password", clients[c].password>>>>
  <2>1. Settings(c) = s
    <3>1. Settings(c) = <<<<"hostaddr", clients[c].address>>, <<"port", "5432">>,
                          <<"dbname", clients[c].name>>>>
                        \o <<<<"user", "user">>, <<"password", clients[c].password>>>>
      BY <1>4, Zenon DEF Settings
    <3> QED BY <3>1, ThreeAndTwo, Zenon
  <2>2. clients[c].password \in Values /\ clients[c].address \in Values
        /\ clients[c].name \in Values /\ "5432" \in Values /\ "user" \in Values
    BY <1>1 DEF MadeClients, Values
  <2>3. s \in Options
    BY <2>2 DEF Options, Keywords
  <2> QED BY <1>4, <2>1, <2>3
<1> QED BY <1>3, <1>4

-----------------------------------------------------------------------------
(* s is what the string of options was, with the settings of an opening     *)
(* after it.                                                                *)
Extended(s, c) ==
  LET n == Len(clients[c].options) IN
  /\ s \in Options /\ n \in Nat /\ Len(s) = n + 5
  /\ \A i \in 1 .. n : s[i] = clients[c].options[i]
  /\ \A i \in 1 .. 5 : s[n + i] = Settings(c)[i]

(* An opening appends the settings of the client to its options.            *)
LEMMA OpeningExtends ==
  ASSUME DatabaseInv, NEW c \in Clients, openConnection(c)
  PROVE  /\ clients'[c].options = generateConnectionOptionsString(c)
         /\ Extended(clients'[c].options, c)
         /\ LET s == clients'[c].options
            IN clients'[c] \in {[clients[c] EXCEPT !.options = s],
                               [clients[c] EXCEPT !.options = s, !.database = s]}
         /\ \A d \in Clients \ {c} : clients'[d] = clients[d]
         /\ names' = names
<1>1. clients[c] \in MadeClients /\ clients \in [Clients -> MadeClients \union {NoClient}]
  BY DEF openConnection, DatabaseInv, ClientsTyped, NoClient
<1>2. Settings(c) \in Options /\ Len(Settings(c)) = 5
  BY SettingsFacts DEF openConnection
<1> DEFINE s == generateConnectionOptionsString(c)
           opened == [clients EXCEPT ![c].options = s]
<1>3. clients' = opened \/ clients' = [opened EXCEPT ![c].database = s]
  BY DEF openConnection
<1>4. clients[c].options \in Options
  BY <1>1 DEF MadeClients
<1>5. Extended(s, c)
  <2> DEFINE o == clients[c].options
             t == Settings(c)
             S == Keywords \X Values
  <2>1. o \in Seq(S) /\ t \in Seq(S) /\ Len(t) = 5 /\ Len(o) \in Nat
    BY <1>2, <1>4 DEF Options
  <2> HIDE DEF o, t, S
  <2>2. /\ o \o t \in Seq(S)
        /\ Len(o \o t) = Len(o) + Len(t)
        /\ \A i \in 1 .. Len(o) + Len(t) :
             (o \o t)[i] = IF i <= Len(o) THEN o[i] ELSE t[i - Len(o)]
    BY <2>1, ConcatProperties
  <2>3. \A i \in 1 .. Len(o) : (o \o t)[i] = o[i]
    BY <2>1, <2>2
  <2>4. \A i \in 1 .. 5 : (o \o t)[Len(o) + i] = t[i]
    <3> SUFFICES ASSUME NEW i \in 1 .. 5 PROVE (o \o t)[Len(o) + i] = t[i]
      OBVIOUS
    <3>1. /\ Len(o) + i \in 1 .. Len(o) + Len(t) /\ ~(Len(o) + i <= Len(o))
          /\ (Len(o) + i) - Len(o) = i
      BY <2>1
    <3> QED BY <2>2, <3>1
  <2>5. s = o \o t
    BY DEF generateConnectionOptionsString, o, t
  <2> HIDE DEF s
  <2> QED BY <2>1, <2>2, <2>3, <2>4, <2>5 DEF Extended, Options, o, t, S
<1> HIDE DEF s
<1>6. /\ clients'[c] \in {[clients[c] EXCEPT !.options = s],
                          [clients[c] EXCEPT !.options = s, !.database = s]}
      /\ \A d \in Clients \ {c} : clients'[d] = clients[d]
  BY <1>1, <1>3
<1>7. clients'[c].options = s
  <2> DEFINE r == clients[c]
  <2>1. r \in MadeClients
    BY <1>1
  <2> HIDE DEF r
  <2>2. /\ [r EXCEPT !.options = s].options = s
        /\ [r EXCEPT !.options = s, !.database = s].options = s
    BY <2>1 DEF MadeClients
  <2> QED BY <1>6, <2>2 DEF r
<1> QED BY <1>5, <1>6, <1>7 DEF s, openConnection

(* The name of the database and the word after it are read as options, as   *)
(* the port always has a value.                                             *)
LEMMA BlockRead ==
  ASSUME DatabaseInv, NEW c \in Clients, openConnection(c), NEW s, Extended(s, c),
         NEW n \in Nat, n = Len(clients[c].options)
  PROVE  n + 3 \in Read(s) /\ n + 4 \in Read(s)
<1>1. /\ Len(s) = n + 5 /\ s[n + 2] = Settings(c)[2] /\ s[n + 3] = Settings(c)[3]
  BY DEF Extended
<1>2. Settings(c)[2] = <<"port", "5432">> /\ Settings(c)[3] = <<"dbname", clients[c].name>>
  BY SettingsFacts DEF openConnection
<1>3. clients[c].name # Nothing
  <2>1. clients[c] \in MadeClients
    BY DEF openConnection, DatabaseInv, ClientsTyped, NoClient
  <2>2. clients[c].name \in DatabaseNames
    BY <2>1 DEF MadeClients
  <2> QED BY <2>2, SettingsAssumption
<1>4. s[n + 2][2] # Nothing /\ s[n + 3][2] # Nothing
  <2>1. s[n + 2][2] = "5432" /\ s[n + 3][2] = clients[c].name
    BY <1>1, <1>2
  <2>2. "5432" # Nothing
    BY DEF Nothing
  <2> QED BY <1>3, <2>1, <2>2
<1>5. \A i \in 1 .. Len(s) :
        i \in Read(s) <=> i = 1 \/ ~(i - 1 \in Read(s) /\ s[i - 1][2] = Nothing)
  BY <1>1, ReadStep
<1>6. /\ n + 3 \in 1 .. Len(s) /\ n + 4 \in 1 .. Len(s)
      /\ (n + 3) - 1 = n + 2 /\ (n + 4) - 1 = n + 3
  BY <1>1
<1> QED BY <1>4, <1>5, <1>6

(* A position that is not among the earlier options is one of the five.     *)
LEMMA InBlock ==
  ASSUME NEW n \in Nat, NEW x \in 1 .. n + 5, ~(x <= n)
  PROVE  \E k \in 1 .. 5 : x = n + k
<1>1. x - n \in 1 .. 5 /\ x = n + (x - n)
  OBVIOUS
<1> QED BY <1>1

(* An option of the last block that is read counts.                         *)
LEMMA BlockCounts ==
  ASSUME DatabaseInv, NEW c \in Clients, openConnection(c), NEW s, Extended(s, c),
         NEW n \in Nat, n = Len(clients[c].options), NEW i \in 1 .. 5,
         n + i \in Read(s), s[n + i][2] # Nothing
  PROVE  Effective(s, Settings(c)[i][1]) = Settings(c)[i][2]
<1>1. Len(s) = n + 5 /\ \A j \in 1 .. 5 : s[n + j] = Settings(c)[j]
  BY DEF Extended
<1>2. \A j \in 1 .. 5 : Settings(c)[j][1] = Settings(c)[i][1] => j = i
  <2>1. \A j \in 1 .. 5 : j = 1 \/ j = 2 \/ j = 3 \/ j = 4 \/ j = 5
    OBVIOUS
  <2>2. CASE clients[c].certificate
    <3>1. /\ Settings(c)[1][1] = "hostaddr" /\ Settings(c)[2][1] = "port"
          /\ Settings(c)[3][1] = "dbname" /\ Settings(c)[4][1] = "host"
          /\ Settings(c)[5][1] = "sslmode"
      BY <2>2, SettingsFacts DEF openConnection
    <3> QED BY <2>1, <3>1
  <2>3. CASE ~clients[c].certificate
    <3>1. /\ Settings(c)[1][1] = "hostaddr" /\ Settings(c)[2][1] = "port"
          /\ Settings(c)[3][1] = "dbname" /\ Settings(c)[4][1] = "user"
          /\ Settings(c)[5][1] = "password"
      BY <2>3, SettingsFacts DEF openConnection
    <3> QED BY <2>1, <3>1
  <2> QED BY <2>2, <2>3
<1> DEFINE keyword == Settings(c)[i][1]
<1>3. n + i \in Given(s, keyword)
  BY <1>1 DEF Given
<1>4. ASSUME NEW j \in Given(s, keyword) PROVE j <= n + i
  <2>1. j \in Nat /\ j \in 1 .. n + 5 /\ s[j][1] = keyword
    <3>1. Len(s) \in Nat
      BY <1>1
    <3>2. Read(s) \subseteq 1 .. Len(s)
      BY <3>1, ReadStep
    <3> QED BY <1>1, <3>2 DEF Given
  <2>2. CASE j <= n
    BY <2>1, <2>2
  <2>3. CASE ~(j <= n)
    <3>1. PICK k \in 1 .. 5 : j = n + k
      BY <2>1, <2>3, InBlock
    <3>2. k = i
      BY <1>1, <1>2, <2>1, <3>1
    <3> QED BY <3>1, <3>2
  <2> QED BY <2>2, <2>3
<1> HIDE DEF keyword
<1>5. Effective(s, keyword) = s[n + i][2]
  <2>1. n + i \in Nat /\ Len(s) \in Nat
    BY <1>1
  <2> QED BY <1>3, <1>4, <2>1, EffectiveAt
<1> QED BY <1>1, <1>5 DEF keyword

(* An opening uses the client's own settings.                               *)
LEMMA OpeningUsesSettings ==
  ASSUME DatabaseInv, NEW c \in Clients, openConnection(c)
  PROVE  OpensWithSettings(c) /\ NameAndUserKept(c)
<1>1. PICK s : s = clients'[c].options
  OBVIOUS
<1>2. PICK n : n = Len(clients[c].options)
  OBVIOUS
<1>3. Extended(s, c) /\ n \in Nat /\ Len(s) = n + 5
      /\ \A i \in 1 .. 5 : s[n + i] = Settings(c)[i]
  <2>1. Extended(s, c)
    BY <1>1, OpeningExtends
  <2> QED BY <1>2, <2>1 DEF Extended
<1>4. clients[c].made /\ Len(Settings(c)) = 5
  BY SettingsFacts DEF openConnection
<1>5. OpensWithSettings(c)
  <2> SUFFICES ASSUME ~HasEmpty(s), NEW i \in 1 .. 5
               PROVE  Effective(s, Settings(c)[i][1]) = Settings(c)[i][2]
    BY <1>1, <1>4 DEF OpensWithSettings
  <2>1. n + i \in 1 .. Len(s) /\ (n + i = 1 \/ n + i - 1 \in 1 .. Len(s))
    BY <1>3
  <2>2. s[n + i][2] # Nothing /\ (n + i = 1 \/ s[n + i - 1][2] # Nothing)
    BY <2>1 DEF HasEmpty
  <2>3. n + i \in Read(s)
    <3>1. \A j \in 1 .. Len(s) :
            j \in Read(s) <=> j = 1 \/ ~(j - 1 \in Read(s) /\ s[j - 1][2] = Nothing)
      <4>1. Len(s) \in Nat
        BY <1>3
      <4> QED BY <4>1, ReadStep
    <3>2. PICK j \in 1 .. Len(s) : j = n + i
      BY <2>1
    <3>3. j = 1 \/ s[j - 1][2] # Nothing
      <4>1. CASE j = 1
        BY <4>1
      <4>2. CASE j # 1
        <5>1. j - 1 \in 1 .. Len(s)
          BY <1>3, <4>2
        <5> QED BY <5>1 DEF HasEmpty
      <4> QED BY <4>1, <4>2
    <3>4. j \in Read(s)
      BY <3>1, <3>3
    <3> QED BY <3>2, <3>4
  <2> QED BY <1>2, <1>3, <2>2, <2>3, BlockCounts
<1>6. NameAndUserKept(c)
  <2>1. n + 3 \in Read(s) /\ n + 4 \in Read(s)
    BY <1>2, <1>3, BlockRead
  <2>2. Settings(c)[3] = <<"dbname", clients[c].name>>
    BY <1>4, SettingsFacts DEF openConnection
  <2>3. ~clients[c].certificate => Settings(c)[4] = <<"user", "user">>
    BY <1>4, SettingsFacts DEF openConnection
  <2>4. clients[c].name # Nothing
    <3>1. clients[c] \in MadeClients
      BY <1>4 DEF DatabaseInv, ClientsTyped, NoClient
    <3>2. clients[c].name \in DatabaseNames
      BY <3>1 DEF MadeClients
    <3> QED BY <3>2, SettingsAssumption
  <2>5. Effective(s, "dbname") = clients[c].name
    <3>1. s[n + 3][2] # Nothing /\ 3 \in 1 .. 5
      BY <1>3, <2>2, <2>4
    <3>2. Effective(s, Settings(c)[3][1]) = Settings(c)[3][2]
      BY <1>2, <1>3, <2>1, <3>1, BlockCounts
    <3> QED BY <2>2, <3>2
  <2>6. ~clients[c].certificate => Effective(s, "user") = "user"
    <3> SUFFICES ASSUME ~clients[c].certificate PROVE Effective(s, "user") = "user"
      OBVIOUS
    <3>1. "user" # Nothing
      BY DEF Nothing
    <3>2. s[n + 4][2] # Nothing /\ 4 \in 1 .. 5
      BY <1>3, <2>3, <3>1
    <3>3. Effective(s, Settings(c)[4][1]) = Settings(c)[4][2]
      BY <1>2, <1>3, <2>1, <3>2, BlockCounts
    <3> QED BY <2>3, <3>3
  <2> QED BY <1>1, <2>5, <2>6 DEF NameAndUserKept
<1> QED BY <1>5, <1>6

(* Where every host of the options is the same, that is the one in effect.  *)
LEMMA HostInEffect ==
  ASSUME NEW s, Len(s) \in Nat, NEW host, host # Nothing,
         \A i \in 1 .. Len(s) : s[i][1] = "host" => s[i][2] = host,
         Given(s, "host") # {}
  PROVE  Effective(s, "host") = host
<1>1. PICK i \in Given(s, "host") : \A j \in Given(s, "host") : j <= i
  BY GivenLast
<1>2. Read(s) \subseteq 1 .. Len(s)
  BY ReadStep
<1>3. i \in 1 .. Len(s) /\ s[i][1] = "host" /\ i \in Nat
  BY <1>2 DEF Given
<1>4. s[i][2] = host
  BY <1>3
<1> QED BY <1>1, <1>3, <1>4, EffectiveAt

(* A client's options, after an opening, name no other host than its list.  *)
LEMMA OpeningKeepsHost ==
  ASSUME DatabaseInv, NEW c \in Clients, openConnection(c)
  PROVE  HostOf(clients'[c].options, clients[c], names) /\ HostPinned(c)
<1>1. PICK s : s = clients'[c].options
  OBVIOUS
<1>2. PICK n : n = Len(clients[c].options)
  OBVIOUS
<1>3. /\ Extended(s, c) /\ n \in Nat /\ Len(s) = n + 5
      /\ \A i \in 1 .. n : s[i] = clients[c].options[i]
      /\ \A i \in 1 .. 5 : s[n + i] = Settings(c)[i]
  <2>1. Extended(s, c)
    BY <1>1, OpeningExtends
  <2> QED BY <1>2, <2>1 DEF Extended
<1>4. /\ clients[c].made /\ clients[c] \in MadeClients
      /\ clients[c].certificate => names[clients[c].list] # <<>>
      /\ names[clients[c].list] \in Seq(Hosts)
  <2>1. clients[c].made /\ clients[c] \in MadeClients
    BY DEF openConnection, DatabaseInv, ClientsTyped, NoClient
  <2>2. clients[c].list \in Clients
    BY <2>1 DEF MadeClients
  <2> QED BY <2>1, <2>2 DEF openConnection, DatabaseInv, ClientsTyped
<1>5. HostOf(clients[c].options, clients[c], names)
  BY <1>4 DEF DatabaseInv, HostsKept
<1>6. HostOf(s, clients[c], names)
  <2> SUFFICES ASSUME NEW i \in 1 .. n + 5, s[i][1] = "host"
               PROVE  /\ clients[c].certificate
                      /\ names[clients[c].list] # <<>>
                      /\ s[i][2] = Head(names[clients[c].list])
    BY <1>3 DEF HostOf
  <2>1. CASE i <= n
    <3>1. i \in 1 .. n
      BY <1>3, <2>1
    <3> QED BY <1>2, <1>3, <1>5, <3>1 DEF HostOf
  <2>2. CASE ~(i <= n)
    <3>1. PICK k \in 1 .. 5 : i = n + k
      BY <1>3, <2>2, InBlock
    <3>2. s[i] = Settings(c)[k]
      BY <1>3, <3>1
    <3>3. /\ Settings(c)[1][1] = "hostaddr" /\ Settings(c)[2][1] = "port"
          /\ Settings(c)[3][1] = "dbname"
          /\ ~clients[c].certificate =>
               Settings(c)[4][1] = "user" /\ Settings(c)[5][1] = "password"
          /\ clients[c].certificate =>
               /\ Settings(c)[4] = <<"host", Head(names[clients[c].list])>>
               /\ Settings(c)[5][1] = "sslmode"
      BY <1>4, SettingsFacts
    <3>4. k = 1 \/ k = 2 \/ k = 3 \/ k = 4 \/ k = 5
      OBVIOUS
    <3>5. k = 4 /\ clients[c].certificate
      BY <2>2, <3>2, <3>3, <3>4
    <3> QED BY <1>4, <3>2, <3>3, <3>5
  <2> QED BY <2>1, <2>2
<1>7. HostPinned(c)
  <2> SUFFICES ASSUME Given(clients[c].options, "host") # {}
               PROVE  Effective(s, "host") = Effective(clients[c].options, "host")
    BY <1>1 DEF HostPinned
  <2> DEFINE o == clients[c].options
             host == Head(names[clients[c].list])
  <2>1. Len(o) \in Nat /\ Len(s) \in Nat
    BY <1>2, <1>3
  <2>2. PICK i \in 1 .. Len(o) : o[i][1] = "host"
    <3>1. Read(o) \subseteq 1 .. Len(o)
      BY <2>1, ReadStep
    <3> QED BY <3>1 DEF Given
  <2>3. clients[c].certificate /\ names[clients[c].list] # <<>>
    BY <1>5, <2>2 DEF HostOf
  <2>4. host # Nothing
    <3>1. host \in Hosts
      BY <1>4, <2>3
    <3> QED BY <3>1, SettingsAssumption
  <2>5. Effective(o, "host") = host
    <3>1. \A j \in 1 .. Len(o) : o[j][1] = "host" => o[j][2] = host
      BY <1>5 DEF HostOf
    <3> HIDE DEF o, host
    <3> QED BY <2>1, <2>4, <3>1, HostInEffect DEF o
  <2>6. Effective(s, "host") = host
    <3>1. \A j \in 1 .. Len(s) : s[j][1] = "host" => s[j][2] = host
      BY <1>6 DEF HostOf
    <3>2. n + 4 \in Read(s) /\ s[n + 4][1] = "host" /\ n + 4 \in 1 .. Len(s)
      <4>1. n + 4 \in Read(s)
        BY <1>2, <1>3, BlockRead
      <4>2. Settings(c)[4] = <<"host", host>>
        BY <1>4, <2>3, SettingsFacts
      <4> QED BY <1>3, <4>1, <4>2
    <3>3. Given(s, "host") # {}
      BY <3>2 DEF Given
    <3> HIDE DEF host
    <3> QED BY <2>1, <2>4, <3>1, <3>3, HostInEffect
  <2> QED BY <2>5, <2>6
<1> QED BY <1>1, <1>6, <1>7

-----------------------------------------------------------------------------
(* Each step preserves what is known, and makes no client connect as        *)
(* another.                                                                 *)
Connects ==
  \A c \in Clients : clients[c].made =>
    OpensWithSettings(c) /\ NameAndUserKept(c) /\ HostPinned(c)

(* A client whose string of options is not touched connects as before.      *)
LEMMA OptionsUntouched ==
  ASSUME NEW c \in Clients, clients'[c].options = clients[c].options
  PROVE  OpensWithSettings(c) /\ NameAndUserKept(c) /\ HostPinned(c)
  BY DEF OpensWithSettings, NameAndUserKept, HostPinned

(* The first name of a list stays the first.                                *)
LEMMA ListGrows ==
  ASSUME DatabaseInv, NEW l \in Clients, NEW host \in Hosts
  PROVE  LET lists == addASubjectCommonName(l, host) IN
         /\ lists \in [Clients -> Seq(Hosts)]
         /\ \A x \in Clients : names[x] # <<>> =>
              lists[x] # <<>> /\ Head(lists[x]) = Head(names[x])
<1> DEFINE lists == addASubjectCommonName(l, host)
<1>1. names \in [Clients -> Seq(Hosts)]
  BY DEF DatabaseInv, ClientsTyped
<1>2. lists = [names EXCEPT ![l] = Append(names[l], host)]
  BY DEF addASubjectCommonName
<1>3. Append(names[l], host) \in Seq(Hosts)
  BY <1>1
<1>4. /\ Append(names[l], host) # <<>>
      /\ names[l] # <<>> => Head(Append(names[l], host)) = Head(names[l])
  <2> DEFINE s == names[l]
  <2>1. s \in Seq(Hosts)
    BY <1>1
  <2> HIDE DEF s
  <2>2. Append(s, host) # <<>> /\ (s # <<>> => Head(Append(s, host)) = Head(s))
    <3>1. /\ Append(s, host) \in Seq(Hosts) /\ Len(Append(s, host)) = Len(s) + 1
          /\ Len(s) \in Nat /\ \A i \in 1 .. Len(s) : Append(s, host)[i] = s[i]
      BY <2>1, AppendProperties
    <3>2. s # <<>> => Len(s) >= 1
      BY <2>1
    <3>3. Append(s, host) # <<>>
      BY <3>1
    <3>4. Head(Append(s, host)) = Append(s, host)[1] /\ (s # <<>> => Head(s) = s[1])
      BY <2>1, <3>1, <3>3, HeadTailProperties
    <3> QED BY <3>1, <3>2, <3>3, <3>4
  <2> QED BY <2>2 DEF s
<1> HIDE DEF lists
<1>5. lists \in [Clients -> Seq(Hosts)]
  BY <1>1, <1>2, <1>3
<1>6. \A x \in Clients : lists[x] = IF x = l THEN Append(names[l], host) ELSE names[x]
  BY <1>1, <1>2
<1>7. \A x \in Clients : names[x] # <<>> =>
        lists[x] # <<>> /\ Head(lists[x]) = Head(names[x])
  BY <1>4, <1>6
<1> QED BY <1>5, <1>7 DEF lists

(* What a step must leave as it was for the hosts to be kept.               *)
LEMMA HostsPreserved ==
  ASSUME DatabaseInv,
         \A x \in Clients : names[x] # <<>> =>
           names'[x] # <<>> /\ Head(names'[x]) = Head(names[x]),
         NEW c \in Clients, clients[c].made, NEW d \in Clients,
         clients'[d].options = clients[c].options,
         clients'[d].list = clients[c].list,
         clients'[d].certificate = clients[c].certificate
  PROVE  HostOf(clients'[d].options, clients'[d], names')
<1>1. clients[c].list \in Clients
  <2>1. clients[c] \in MadeClients
    BY DEF DatabaseInv, ClientsTyped, NoClient
  <2> QED BY <2>1 DEF MadeClients
<1>2. HostOf(clients[c].options, clients[c], names)
  BY DEF DatabaseInv, HostsKept
<1> QED BY <1>1, <1>2 DEF HostOf

(* A constructor makes a client without options.                            *)
LEMMA ConstructorStep ==
  ASSUME DatabaseInv, NEW c \in Clients,
         ConstructWithPassword(c) \/ ConstructWithCertificate(c)
           \/ ConstructWithServerName(c)
  PROVE  DatabaseInv' /\ Connects
<1>1. ~clients[c].made /\ clients \in [Clients -> MadeClients \union {NoClient}]
  BY DEF ConstructWithPassword, ConstructWithCertificate, ConstructWithServerName,
     DatabaseInv, ClientsTyped
<1>2. PICK r \in MadeClients : clients' = [clients EXCEPT ![c] = r] /\ r.options = <<>>
  <2>1. ASSUME NEW name \in DatabaseNames, NEW address \in setServerIpAddressOrDomainName
        PROVE  /\ \A password \in Passwords :
                    LET r == [Basic(c, name, address) EXCEPT !.password = password]
                    IN r \in MadeClients /\ r.options = <<>>
               /\ \A mode \in {"verify-ca", "verify-full"} :
                    LET r == [Basic(c, name, address) EXCEPT !.certificate = TRUE, !.mode = mode]
                    IN r \in MadeClients /\ r.options = <<>>
    <3>1. <<>> \in Options
      BY DEF Options
    <3> QED BY <3>1 DEF Basic, MadeClients, setServerIpAddressOrDomainName
  <2>2. CASE ConstructWithPassword(c)
    <3>1. PICK name \in DatabaseNames, address \in setServerIpAddressOrDomainName,
               password \in Passwords :
            clients' = [clients EXCEPT ![c] =
                          [Basic(c, name, address) EXCEPT !.password = password]]
      BY <2>2 DEF ConstructWithPassword
    <3> DEFINE made == [Basic(c, name, address) EXCEPT !.password = password]
    <3>2. made \in MadeClients /\ made.options = <<>>
      BY <2>1
    <3>3. clients' = [clients EXCEPT ![c] = made]
      BY <3>1
    <3> HIDE DEF made
    <3> QED BY <3>2, <3>3
  <2>3. CASE ConstructWithCertificate(c)
    BY <2>1, <2>3 DEF ConstructWithCertificate
  <2>4. CASE ConstructWithServerName(c)
    BY <2>1, <2>4 DEF ConstructWithServerName
  <2> QED BY <2>2, <2>3, <2>4
<1>3. /\ names' \in [Clients -> Seq(Hosts)]
      /\ \A x \in Clients : names[x] # <<>> =>
           names'[x] # <<>> /\ Head(names'[x]) = Head(names[x])
  <2>1. names' = names \/ \E host \in Hosts : names' = addASubjectCommonName(c, host)
    BY DEF ConstructWithPassword, ConstructWithCertificate, ConstructWithServerName
  <2>2. CASE names' = names
    BY <2>2 DEF DatabaseInv, ClientsTyped
  <2>3. CASE \E host \in Hosts : names' = addASubjectCommonName(c, host)
    BY <2>3, ListGrows
  <2> QED BY <2>1, <2>2, <2>3
<1>4. ClientsTyped'
  BY <1>1, <1>2, <1>3 DEF ClientsTyped
<1>5. clients'[c] = r /\ \A d \in Clients \ {c} : clients'[d] = clients[d]
  BY <1>1, <1>2
<1>6. HostsKept'
  <2> SUFFICES ASSUME NEW d \in Clients, clients'[d].made
               PROVE  HostOf(clients'[d].options, clients'[d], names')
    BY DEF HostsKept
  <2>1. CASE d = c
    <3>1. Len(clients'[d].options) = 0
      BY <1>2, <1>5, <2>1
    <3> QED BY <3>1 DEF HostOf
  <2>2. CASE d # c
    BY <1>3, <1>5, <2>2, HostsPreserved
  <2> QED BY <2>1, <2>2
<1>7. Connects
  BY <1>1, <1>5, OptionsUntouched DEF Connects
<1> QED BY <1>4, <1>6, <1>7 DEF DatabaseInv

(* A copy has the settings, the options and the list of its original.       *)
LEMMA CopyStep ==
  ASSUME DatabaseInv, NEW c \in Clients, NEW d \in Clients, Copy(c, d)
  PROVE  DatabaseInv' /\ Connects
<1>1. /\ clients \in [Clients -> MadeClients \union {NoClient}] /\ clients[c].made
      /\ clients' = [clients EXCEPT ![d] = clients[c]] /\ ~clients[d].made
      /\ names' = names
  BY DEF Copy, DatabaseInv, ClientsTyped
<1>2. clients'[d] = clients[c] /\ \A e \in Clients \ {d} : clients'[e] = clients[e]
  BY <1>1
<1>3. ClientsTyped'
  BY <1>1 DEF DatabaseInv, ClientsTyped
<1>4. HostsKept'
  <2> SUFFICES ASSUME NEW e \in Clients, clients'[e].made
               PROVE  HostOf(clients'[e].options, clients'[e], names')
    BY DEF HostsKept
  <2> QED BY <1>1, <1>2, HostsPreserved
<1>5. Connects
  BY <1>1, <1>2, OptionsUntouched DEF Connects
<1> QED BY <1>3, <1>4, <1>5 DEF DatabaseInv

(* A setter changes no option that is already in the string.                *)
LEMMA SetStep ==
  ASSUME DatabaseInv, NEW c \in Clients, Set(c)
  PROVE  DatabaseInv' /\ Connects
<1>1. /\ clients \in [Clients -> MadeClients \union {NoClient}] /\ clients[c].made
      /\ clients[c] \in MadeClients /\ names' = names
  BY DEF Set, DatabaseInv, ClientsTyped, NoClient
<1>2. PICK r \in MadeClients :
        /\ clients' = [clients EXCEPT ![c] = r]
        /\ r.options = clients[c].options /\ r.list = clients[c].list
        /\ r.certificate = clients[c].certificate
  <2> DEFINE q == clients[c]
  <2>1. q \in MadeClients
    BY <1>1
  <2>2. CASE \E name \in DatabaseNames : clients' = [clients EXCEPT ![c].name = name]
    <3>1. PICK name \in DatabaseNames : clients' = [clients EXCEPT ![c] = [q EXCEPT !.name = name]]
      BY <2>2
    <3> HIDE DEF q
    <3> DEFINE r == [q EXCEPT !.name = name]
    <3>2. /\ r \in MadeClients /\ r.options = q.options /\ r.list = q.list
          /\ r.certificate = q.certificate
      BY <2>1 DEF MadeClients
    <3>3. clients' = [clients EXCEPT ![c] = r]
      BY <3>1
    <3> HIDE DEF r
    <3> QED BY <3>2, <3>3 DEF q
  <2>3. CASE \E password \in Passwords : clients' = [clients EXCEPT ![c].password = password]
    <3>1. PICK password \in Passwords :
            clients' = [clients EXCEPT ![c] = [q EXCEPT !.password = password]]
      BY <2>3
    <3> HIDE DEF q
    <3> DEFINE r == [q EXCEPT !.password = password]
    <3>2. /\ r \in MadeClients /\ r.options = q.options /\ r.list = q.list
          /\ r.certificate = q.certificate
      BY <2>1 DEF MadeClients
    <3>3. clients' = [clients EXCEPT ![c] = r]
      BY <3>1
    <3> HIDE DEF r
    <3> QED BY <3>2, <3>3 DEF q
  <2> QED BY <2>2, <2>3 DEF Set
<1>3. clients'[c] = r /\ \A e \in Clients \ {c} : clients'[e] = clients[e]
  BY <1>1, <1>2
<1>4. ClientsTyped'
  BY <1>1, <1>2 DEF DatabaseInv, ClientsTyped
<1>5. HostsKept'
  <2> SUFFICES ASSUME NEW e \in Clients, clients'[e].made
               PROVE  HostOf(clients'[e].options, clients'[e], names')
    BY DEF HostsKept
  <2> QED BY <1>1, <1>2, <1>3, HostsPreserved
<1>6. Connects
  BY <1>2, <1>3, OptionsUntouched DEF Connects
<1> QED BY <1>4, <1>5, <1>6 DEF DatabaseInv

(* A name that is authorised goes behind the first name of its list.        *)
LEMMA AuthorizeStep ==
  ASSUME DatabaseInv, NEW c \in Clients, AuthorizeName(c)
  PROVE  DatabaseInv' /\ Connects
<1>1. /\ clients \in [Clients -> MadeClients \union {NoClient}] /\ clients[c].made
      /\ clients[c] \in MadeClients /\ clients' = clients
  BY DEF AuthorizeName, DatabaseInv, ClientsTyped, NoClient
<1>2. clients[c].list \in Clients
  BY <1>1 DEF MadeClients
<1>3. /\ names' \in [Clients -> Seq(Hosts)]
      /\ \A x \in Clients : names[x] # <<>> =>
           names'[x] # <<>> /\ Head(names'[x]) = Head(names[x])
  BY <1>2, ListGrows DEF AuthorizeName
<1>4. ClientsTyped'
  BY <1>1, <1>3 DEF ClientsTyped
<1>5. HostsKept'
  <2> SUFFICES ASSUME NEW e \in Clients, clients'[e].made
               PROVE  HostOf(clients'[e].options, clients'[e], names')
    BY DEF HostsKept
  <2> QED BY <1>1, <1>3, HostsPreserved
<1>6. Connects
  BY <1>1, OptionsUntouched DEF Connects
<1> QED BY <1>4, <1>5, <1>6 DEF DatabaseInv

(* An opening connects as set, and to the host of the openings before.      *)
LEMMA OpenStep ==
  ASSUME DatabaseInv, NEW c \in Clients, openConnection(c)
  PROVE  DatabaseInv' /\ Connects
<1>1. /\ clients \in [Clients -> MadeClients \union {NoClient}] /\ clients[c].made
      /\ clients[c] \in MadeClients /\ names' = names
  BY DEF openConnection, DatabaseInv, ClientsTyped, NoClient
<1>2. PICK s : s = clients'[c].options
  OBVIOUS
<1>3. /\ s \in Options
      /\ clients'[c] \in {[clients[c] EXCEPT !.options = s],
                          [clients[c] EXCEPT !.options = s, !.database = s]}
      /\ \A d \in Clients \ {c} : clients'[d] = clients[d]
  BY <1>2, OpeningExtends DEF Extended
<1>4. /\ clients'[c] \in MadeClients /\ clients'[c].list = clients[c].list
      /\ clients'[c].certificate = clients[c].certificate
  <2> DEFINE q == clients[c]
  <2>1. q \in MadeClients
    BY <1>1
  <2>2. clients'[c] \in {[q EXCEPT !.options = s], [q EXCEPT !.options = s, !.database = s]}
    BY <1>3
  <2> HIDE DEF q
  <2>3. CASE clients'[c] = [q EXCEPT !.options = s]
    <3> DEFINE r == [q EXCEPT !.options = s]
    <3>1. r \in MadeClients /\ r.list = q.list /\ r.certificate = q.certificate
      <4>1. s \in Options
        BY <1>3
      <4> QED BY <2>1, <4>1 DEF MadeClients
    <3>2. clients'[c] = r
      BY <2>3
    <3> HIDE DEF r
    <3> QED BY <3>1, <3>2 DEF q
  <2>4. CASE clients'[c] = [q EXCEPT !.options = s, !.database = s]
    <3> DEFINE r == [q EXCEPT !.options = s, !.database = s]
    <3>1. r \in MadeClients /\ r.list = q.list /\ r.certificate = q.certificate
      <4>1. s \in Options
        BY <1>3
      <4> QED BY <2>1, <4>1 DEF MadeClients
    <3>2. clients'[c] = r
      BY <2>4
    <3> HIDE DEF r
    <3> QED BY <3>1, <3>2 DEF q
  <2> QED BY <2>2, <2>3, <2>4
<1>5. ClientsTyped'
  <2>1. clients' \in [Clients -> MadeClients \union {NoClient}]
    <3>1. DOMAIN clients' = Clients /\ clients' = [x \in Clients |-> clients'[x]]
      BY <1>1 DEF openConnection
    <3>2. \A x \in Clients : clients'[x] \in MadeClients \union {NoClient}
      BY <1>1, <1>3, <1>4
    <3> QED BY <3>1, <3>2
  <2> QED BY <1>1, <2>1 DEF DatabaseInv, ClientsTyped
<1>6. HostsKept'
  <2> SUFFICES ASSUME NEW e \in Clients, clients'[e].made
               PROVE  HostOf(clients'[e].options, clients'[e], names')
    BY DEF HostsKept
  <2>1. CASE e = c
    <3>1. HostOf(clients'[c].options, clients[c], names)
      BY OpeningKeepsHost
    <3> QED BY <1>1, <1>4, <2>1, <3>1 DEF HostOf
  <2>2. CASE e # c
    BY <1>1, <1>3, <2>2, HostsPreserved
  <2> QED BY <2>1, <2>2
<1>7. Connects
  <2> SUFFICES ASSUME NEW e \in Clients, clients[e].made
               PROVE  OpensWithSettings(e) /\ NameAndUserKept(e) /\ HostPinned(e)
    BY DEF Connects
  <2>1. CASE e = c
    BY <2>1, OpeningUsesSettings, OpeningKeepsHost
  <2>2. CASE e # c
    BY <1>3, <2>2, OptionsUntouched
  <2> QED BY <2>1, <2>2
<1> QED BY <1>5, <1>6, <1>7 DEF DatabaseInv

(* Before any client is made.                                               *)
LEMMA DatabaseInitInv == DatabaseInit => DatabaseInv
<1> SUFFICES ASSUME DatabaseInit PROVE DatabaseInv
  OBVIOUS
<1>1. \A c \in Clients : clients[c] = NoClient /\ ~clients[c].made /\ names[c] \in Seq(Hosts)
  BY DEF DatabaseInit, NoClient
<1> QED BY <1>1 DEF DatabaseInit, DatabaseInv, ClientsTyped, HostsKept

(* Every step keeps the invariant, and no client connects as another.       *)
LEMMA DatabaseStep ==
  DatabaseInv /\ [DatabaseNext]_databaseVars => DatabaseInv' /\ Connects
<1> SUFFICES ASSUME DatabaseInv, [DatabaseNext]_databaseVars
             PROVE  DatabaseInv' /\ Connects
  OBVIOUS
<1>1. CASE UNCHANGED <<clients, names>>
  <2>1. DatabaseInv'
    BY <1>1 DEF DatabaseInv, ClientsTyped, HostsKept
  <2>2. Connects
    BY <1>1, OptionsUntouched DEF Connects
  <2> QED BY <2>1, <2>2
<1>2. CASE DatabaseNext
  <2>1. PICK c \in Clients :
          \/ ConstructWithPassword(c) \/ ConstructWithCertificate(c)
          \/ ConstructWithServerName(c)
          \/ Set(c) \/ AuthorizeName(c)
          \/ openConnection(c) \/ openWithoutName(c) \/ schemaOperation(c)
          \/ \E d \in Clients : Copy(c, d)
    BY <1>2 DEF DatabaseNext
  <2>2. CASE openWithoutName(c) \/ schemaOperation(c)
    BY <1>1, <2>2 DEF openWithoutName, schemaOperation
  <2> QED BY <2>1, <2>2, ConstructorStep, CopyStep, SetStep, AuthorizeStep, OpenStep
<1> QED BY <1>1, <1>2 DEF databaseVars

(* What is among a client's options is typed and names no other host than   *)
(* the first of its list.                                                   *)
THEOREM DatabaseInvariant == DatabaseSpec => []DatabaseInv
<1> QED BY DatabaseInitInv, DatabaseStep, PTL DEF DatabaseSpec

(* A client connects with the settings it has at that opening, always to    *)
(* the host it first verified, whatever it shares with other clients.       *)
THEOREM ClientsConnect == DatabaseSpec => ConnectsAsSet
<1>1. DatabaseInv /\ [DatabaseNext]_databaseVars =>
        [\A c \in Clients : clients[c].made =>
           OpensWithSettings(c) /\ NameAndUserKept(c) /\ HostPinned(c)]_databaseVars
  BY DatabaseStep DEF Connects
<1> QED BY <1>1, DatabaseInvariant, PTL DEF DatabaseSpec, ConnectsAsSet

-----------------------------------------------------------------------------
(* The programs of the private credential scheme.                           *)

(* What the two programs keep, section by section.                          *)
SecretNames == {"alpha", "sk1", "skis", "r", "rPrime", "hs"}
ElementNames == {"h1", "h2", "x1", "xkis", "xis", "yis", "c1", "c2", "c3",
                 "c1Prime", "c2Prime", "c3Prime", "rho1", "rho2", "a"}

ProgramsTyped ==
  /\ program \in {"none", "pbc", "mcl"}
  /\ section \in {"SETUP", "KEYGEN", "ISSUE", "OBTAIN", "SHOW", "VERIFY",
                  "INSPECT", "END"}
  /\ program = "none" <=> section = "SETUP"
  /\ program = "mcl" => section \in {"KEYGEN", "ISSUE", "END"}
  /\ secret \in [SecretNames -> Scalar]
  /\ element \in [ElementNames -> Scalar]
  /\ printed \in [{"obtain", "verify", "inspect"} -> Scalar \X Scalar]

PbcKept ==
  program = "pbc" =>
    /\ element.h1 = secret.alpha /\ element.h2 = Neg(secret.alpha)
    /\ element.xkis = element.xis
    /\ element.c2 = Neg(element.c3) /\ element.c2Prime = Neg(element.c3Prime)
    /\ section \notin {"KEYGEN", "ISSUE"} =>
         /\ element.c3 = secret.r
         /\ element.c1 = Add(Add(element.xkis, XuHs(secret.hs)),
                             Mul(element.h1, element.c3))
    /\ section \in {"VERIFY", "INSPECT", "END"} =>
         element.c3Prime = Add(secret.r, secret.rPrime)
    /\ section = "END" =>
         /\ printed.inspect[1] =
              Sub(Add(element.c1Prime, Mul(element.c2Prime, secret.alpha)), element.xis)
         /\ printed.inspect[2] = Mul(element.x1, Neg(secret.hs))

MclKept ==
  program = "mcl" =>
    /\ element.h1 = secret.alpha /\ element.h2 = Inv(secret.alpha)
    /\ section = "END" => element.c2 = Inv(secret.r) /\ element.c3 = secret.r

(* Before the credential is issued nothing is computed.                    *)
Untouched ==
  section \in {"SETUP", "KEYGEN", "ISSUE"} =>
    element.c2 = Zero /\ element.c3 = Zero /\ element.c2Prime = Zero
      /\ element.c3Prime = Zero /\ element.xkis = element.xis

ProgramsInv ==
  ProgramsTyped /\ PbcKept /\ MclKept /\ Untouched /\ ObtainAgrees

(* Zero is its own opposite.                                                *)
LEMMA NegZero == Neg(Zero) = Zero
  BY ScalarClosed, AddLaws

(* The factor of a credential that holds the keys and the hash is an       *)
(* exponent.                                                               *)
LEMMA HashInverse ==
  ASSUME ProgramsTyped, NEW hs \in Scalar
  PROVE  XuHs(hs) \in Scalar
  BY ScalarClosed DEF XuHs, ProgramsTyped, ElementNames

(* Before a program starts.                                                 *)
LEMMA ProgramsInitInv == ProgramsInit => ProgramsInv
<1> SUFFICES ASSUME ProgramsInit PROVE ProgramsInv
  OBVIOUS
<1>1. ProgramsTyped
  BY ScalarClosed DEF ProgramsInit, ProgramsTyped, SecretNames, ElementNames
<1>2. PbcKept /\ MclKept /\ ObtainAgrees /\ Untouched
  BY DEF ProgramsInit, PbcKept, MclKept, ObtainAgrees, Untouched
<1> QED BY <1>1, <1>2 DEF ProgramsInv

(* Either program begins with its setup.                                    *)
LEMMA SetUpStep ==
  ASSUME ProgramsInv, PbcSetUp \/ MclSetUp
  PROVE  ProgramsInv'
<1>1. PICK exponent \in Scalar, opposite \in Scalar :
        /\ secret' = [secret EXCEPT !.alpha = exponent]
        /\ element' = [element EXCEPT !.h1 = exponent, !.h2 = opposite]
        /\ printed' = printed /\ section = "SETUP" /\ section' = "KEYGEN"
        /\ \/ program' = "pbc" /\ opposite = Neg(exponent)
           \/ program' = "mcl" /\ opposite = Inv(exponent)
  <2>1. \A exponent \in Draws :
          exponent \in Scalar /\ Neg(exponent) \in Scalar /\ Inv(exponent) \in Scalar
    BY DrawsAssumption, ScalarClosed
  <2>2. CASE PbcSetUp
    BY <2>1, <2>2 DEF PbcSetUp, SetUpWith, Section
  <2>3. CASE MclSetUp
    BY <2>1, <2>3 DEF MclSetUp, SetUpWith, Section
  <2> QED BY <2>2, <2>3
<1>2. ProgramsTyped'
  BY <1>1 DEF ProgramsInv, ProgramsTyped, SecretNames, ElementNames
<1>3. (PbcKept /\ MclKept)'
  BY <1>1, NegZero DEF ProgramsInv, ProgramsTyped, PbcKept, MclKept, SecretNames,
     ElementNames, Untouched
<1>4. (ObtainAgrees /\ Untouched)'
  BY <1>1 DEF ProgramsInv, ProgramsTyped, ObtainAgrees, ElementNames, Untouched
<1> QED BY <1>2, <1>3, <1>4 DEF ProgramsInv

(* Both generate the keys.                                                  *)
LEMMA KeyGenStep ==
  ASSUME ProgramsInv, PbcKeyGen \/ MclKeyGen
  PROVE  ProgramsInv'
<1>1. PICK sk1 \in Scalar, skis \in Scalar, yis \in Scalar :
        /\ secret' = [secret EXCEPT !.sk1 = sk1, !.skis = skis]
        /\ element' = [element EXCEPT !.x1 = sk1, !.xkis = skis, !.xis = skis, !.yis = yis]
        /\ printed' = printed /\ program' = program
        /\ program \in {"pbc", "mcl"} /\ section = "KEYGEN" /\ section' = "ISSUE"
  <2>1. \A skis \in Draws : skis \in Scalar /\ Mul(element.h2, skis) \in Scalar
    BY DrawsAssumption, ScalarClosed DEF ProgramsInv, ProgramsTyped, ElementNames
  <2>2. CASE PbcKeyGen
    BY <2>1, <2>2 DEF PbcKeyGen, KeysOf, Section
  <2>3. CASE MclKeyGen
    BY <2>1, <2>3 DEF MclKeyGen, KeysOf, Section
  <2> QED BY <2>2, <2>3
<1>2. ProgramsTyped'
  BY <1>1 DEF ProgramsInv, ProgramsTyped, SecretNames, ElementNames
<1>3. (PbcKept /\ MclKept)'
  BY <1>1 DEF ProgramsInv, ProgramsTyped, PbcKept, MclKept, SecretNames, ElementNames
<1>4. (ObtainAgrees /\ Untouched)'
  BY <1>1 DEF ProgramsInv, ProgramsTyped, ObtainAgrees, ElementNames, Untouched
<1> QED BY <1>2, <1>3, <1>4 DEF ProgramsInv

(* Issue computes the credential; mcl ends with it.                         *)
LEMMA IssueSection ==
  ASSUME ProgramsInv, PbcIssue \/ MclIssue
  PROVE  ProgramsInv'
<1>1. PICK r \in Draws, hs \in Hashes, c1 \in Scalar, c2 \in Scalar :
        /\ secret' = [secret EXCEPT !.r = r, !.hs = hs]
        /\ element' = [element EXCEPT !.c2 = c2, !.c3 = r, !.c1 = c1]
        /\ printed' = printed /\ program' = program
        /\ section = "ISSUE"
        /\ \/ /\ program = "pbc" /\ section' = "OBTAIN" /\ c2 = Neg(r)
              /\ c1 = Add(Add(element.xkis, XuHs(hs)), Mul(element.h1, r))
           \/ program = "mcl" /\ section' = "END" /\ c2 = Inv(r)
  <2>0. \A hsI \in Scalar : Add(element.xkis, Mul(element.x1, hsI)) \in Scalar
    BY ScalarClosed DEF ProgramsInv, ProgramsTyped, ElementNames
  <2>1. ASSUME NEW r \in Draws, NEW hs \in Hashes
        PROVE  /\ r \in Scalar /\ hs \in Scalar /\ Neg(r) \in Scalar /\ Inv(r) \in Scalar
               /\ Add(Add(element.xkis, XuHs(hs)), Mul(element.h1, r)) \in Scalar
    <3>1. r \in Scalar /\ hs \in Scalar
      BY DrawsAssumption, HashesAssumption
    <3>2. XuHs(hs) \in Scalar
      BY <3>1, HashInverse DEF ProgramsInv
    <3>3. element.xkis \in Scalar /\ element.h1 \in Scalar
      BY DEF ProgramsInv, ProgramsTyped, ElementNames
    <3> QED BY <3>1, <3>2, <3>3, ScalarClosed
  <2>2. CASE PbcIssue
    BY <2>1, <2>2 DEF PbcIssue, Section
  <2>3. CASE MclIssue
    BY <2>0, <2>1, <2>3 DEF MclIssue, Section
  <2> QED BY <2>2, <2>3
<1>2. r \in Scalar /\ hs \in Scalar
  BY DrawsAssumption, HashesAssumption
<1>3. ProgramsTyped'
  BY <1>1, <1>2 DEF ProgramsInv, ProgramsTyped, SecretNames, ElementNames
<1>4. XuHs(secret.hs)' = XuHs(hs)
  BY <1>1 DEF XuHs, ProgramsInv, ProgramsTyped, SecretNames, ElementNames
<1>5. (PbcKept /\ MclKept)'
  BY <1>1, <1>4 DEF ProgramsInv, ProgramsTyped, PbcKept, MclKept, SecretNames, ElementNames
<1>6. (ObtainAgrees /\ Untouched)'
  BY <1>1 DEF ProgramsInv, ObtainAgrees, Untouched
<1> QED BY <1>3, <1>5, <1>6 DEF ProgramsInv

(* Obtain, in pbc, prints both sides of the comparison.                     *)
LEMMA ObtainSection ==
  ASSUME ProgramsInv, PbcObtain
  PROVE  ProgramsInv'
<1>1. /\ element.c1 \in Scalar /\ element.xis \in Scalar /\ element.h1 \in Scalar
      /\ element.c3 \in Scalar /\ XuHs(secret.hs) \in Scalar
  BY HashInverse DEF ProgramsInv, ProgramsTyped, SecretNames, ElementNames
<1>2. /\ Pairing(element.c1, One) = element.c1
      /\ Pairing(XuHs(secret.hs), One) = XuHs(secret.hs)
  BY <1>1, ScalarClosed, MulLaws DEF Pairing
<1>3. printed'.obtain[1] = element.c1
       /\ printed'.obtain[2] = Add(Add(element.xis, XuHs(secret.hs)),
                                   Mul(element.h1, element.c3))
  BY <1>2 DEF PbcObtain, ProgramsInv, ProgramsTyped, Pairing
<1>4. ObtainAgrees'
  BY <1>3 DEF ObtainAgrees, PbcObtain, Section, ProgramsInv, PbcKept
<1>5. ProgramsTyped'
  BY <1>1, <1>2, ScalarClosed DEF ProgramsInv, ProgramsTyped, PbcObtain, Section, Pairing
<1>6. (PbcKept /\ MclKept /\ Untouched)'
  BY DEF PbcObtain, Section, ProgramsInv, PbcKept, MclKept, XuHs, Untouched
<1> QED BY <1>4, <1>5, <1>6 DEF ProgramsInv

(* Show randomises the credential.                                          *)
LEMMA ShowSection ==
  ASSUME ProgramsInv, PbcShow
  PROVE  ProgramsInv'
<1>1. PICK rPrime \in Draws, rm \in Draws \ {Zero}, c1Prime \in Draws, rho1 \in Draws :
        /\ secret' = [secret EXCEPT !.rPrime = rPrime]
        /\ element' = [element EXCEPT
             !.c1Prime = c1Prime, !.c2Prime = Neg(Add(secret.r, rPrime)),
             !.c3Prime = Add(secret.r, rPrime), !.rho1 = rho1, !.rho2 = rm,
             !.a = Mul(Mul(secret.sk1, Inv(secret.hs)), Inv(rm))]
  BY DEF PbcShow
<1>2. /\ rPrime \in Scalar /\ rm \in Scalar /\ c1Prime \in Scalar /\ rho1 \in Scalar
      /\ secret.r \in Scalar /\ secret.sk1 \in Scalar /\ secret.hs \in Scalar
  BY DrawsAssumption DEF ProgramsInv, ProgramsTyped, SecretNames
<1>3. /\ Add(secret.r, rPrime) \in Scalar /\ Neg(Add(secret.r, rPrime)) \in Scalar
      /\ Mul(Mul(secret.sk1, Inv(secret.hs)), Inv(rm)) \in Scalar
  BY <1>2, ScalarClosed
<1>4. ProgramsTyped'
  BY <1>1, <1>2, <1>3
  DEF PbcShow, Section, ProgramsInv, ProgramsTyped, SecretNames, ElementNames
<1>5. XuHs(secret.hs)' = XuHs(secret.hs)
  BY <1>1 DEF XuHs, ProgramsInv, ProgramsTyped, SecretNames, ElementNames
<1>6. (PbcKept /\ MclKept)'
  BY <1>1, <1>5 DEF PbcShow, Section, ProgramsInv, ProgramsTyped, PbcKept, MclKept,
     SecretNames, ElementNames
<1>7. (ObtainAgrees /\ Untouched)'
  BY DEF PbcShow, Section, ProgramsInv, ObtainAgrees, Untouched
<1> QED BY <1>4, <1>6, <1>7 DEF ProgramsInv

(* Verify and inspect compute only what they print.                         *)
LEMMA ComparedSections ==
  ASSUME ProgramsInv, PbcVerify \/ PbcInspect
  PROVE  ProgramsInv'
<1>1. ProgramsTyped'
  <2>1. CASE PbcVerify
    <3>1. /\ Pairing(element.rho1, One) \in Scalar
          /\ Add(Add(element.xis,
                   Pairing(Mul(element.rho2, Inv(secret.hs)), element.a)),
               Pairing(element.c2Prime, element.h2)) \in Scalar
      BY ScalarClosed DEF ProgramsInv, ProgramsTyped, SecretNames, ElementNames, Pairing
    <3> QED BY <2>1, <3>1 DEF PbcVerify, Section, ProgramsInv, ProgramsTyped
  <2>2. CASE PbcInspect
    <3>1. /\ Sub(Add(element.c1Prime, Mul(element.c2Prime, secret.alpha)), element.xis)
               \in Scalar
          /\ Mul(element.x1, Neg(secret.hs)) \in Scalar
      BY ScalarClosed DEF ProgramsInv, ProgramsTyped, SecretNames, ElementNames, Sub
    <3> QED BY <2>2, <3>1 DEF PbcInspect, Section, ProgramsInv, ProgramsTyped
  <2> QED BY <2>1, <2>2
<1>2. (PbcKept /\ MclKept /\ Untouched)'
  BY DEF PbcVerify, PbcInspect, Section, ProgramsInv, ProgramsTyped, PbcKept, MclKept,
     XuHs, Untouched
<1>3. ObtainAgrees'
  BY DEF PbcVerify, PbcInspect, ProgramsInv, ProgramsTyped, ObtainAgrees
<1> QED BY <1>1, <1>2, <1>3 DEF ProgramsInv

(* What the two programs compute, section by section, is inductive.         *)
THEOREM ProgramsInvariant == ProgramsSpec => []ProgramsInv
<1>1. ProgramsInv /\ [ProgramsNext]_programVars => ProgramsInv'
  <2> SUFFICES ASSUME ProgramsInv, [ProgramsNext]_programVars
               PROVE  ProgramsInv'
    OBVIOUS
  <2>1. CASE ProgramsNext
    BY <2>1, SetUpStep, KeyGenStep, IssueSection, ObtainSection, ShowSection,
       ComparedSections DEF ProgramsNext
  <2>2. CASE UNCHANGED programVars
    BY <2>2 DEF programVars, ProgramsInv, ProgramsTyped, PbcKept, MclKept, ObtainAgrees,
       XuHs, Untouched
  <2> QED BY <2>1, <2>2
<1> QED BY <1>1, ProgramsInitInv, PTL DEF ProgramsSpec

-----------------------------------------------------------------------------
(* An opposite is unique.                                                   *)
LEMMA NegUnique ==
  ASSUME NEW x \in Scalar, NEW y \in Scalar, Add(x, y) = Zero
  PROVE  y = Neg(x)
<1>1. Add(y, x) = Add(Neg(x), x)
  BY ScalarClosed, AddLaws
<1> QED BY <1>1, ScalarClosed, AddCancel

(* A minus moves from one factor to the other, or goes with another.        *)
LEMMA MulNeg ==
  ASSUME NEW x \in Scalar, NEW y \in Scalar
  PROVE  /\ Mul(x, Neg(y)) = Neg(Mul(x, y))
         /\ Mul(Neg(x), y) = Neg(Mul(x, y))
         /\ Mul(Neg(x), Neg(y)) = Mul(x, y)
<1>1. \A a, b \in Scalar : Mul(a, Neg(b)) = Neg(Mul(a, b))
  <2> SUFFICES ASSUME NEW a \in Scalar, NEW b \in Scalar
               PROVE  Mul(a, Neg(b)) = Neg(Mul(a, b))
    OBVIOUS
  <2>1. Add(Mul(a, b), Mul(a, Neg(b))) = Mul(a, Add(b, Neg(b)))
    BY ScalarClosed, Distributivity
  <2>2. Mul(a, Add(b, Neg(b))) = Zero
    BY AddLaws, MulZero
  <2> QED BY <2>1, <2>2, ScalarClosed, NegUnique
<1>2. Mul(Neg(x), y) = Mul(y, Neg(x)) /\ Mul(x, y) = Mul(y, x)
  BY ScalarClosed, MulLaws
<1>3. Neg(Neg(Mul(x, y))) = Mul(x, y)
  <2> DEFINE z == Mul(x, y)
  <2>1. z \in Scalar
    BY ScalarClosed
  <2> HIDE DEF z
  <2>2. Add(Neg(z), z) = Zero
    BY <2>1, ScalarClosed, AddLaws
  <2>3. z = Neg(Neg(z))
    BY <2>1, <2>2, ScalarClosed, NegUnique
  <2> QED BY <2>3 DEF z
<1>4. Mul(Neg(x), Neg(y)) = Neg(Mul(Neg(x), y))
  BY <1>1, ScalarClosed
<1> QED BY <1>1, <1>2, <1>3, <1>4

(* Inverses of two factors undo both.                                       *)
LEMMA InverseProduct ==
  ASSUME NEW x \in Scalar \ {Zero}, NEW y \in Scalar \ {Zero}
  PROVE  Mul(Mul(Inv(x), Inv(y)), Mul(y, x)) = One
<1>1. Inv(x) \in Scalar /\ Inv(y) \in Scalar
  BY ScalarClosed
<1>2. Mul(Mul(Inv(x), Inv(y)), Mul(y, x)) = Mul(Inv(x), Mul(Inv(y), Mul(y, x)))
  BY <1>1, ScalarClosed, MulLaws
<1>3. Mul(Inv(y), Mul(y, x)) = Mul(Mul(y, Inv(y)), x)
  <2>1. Mul(Inv(y), Mul(y, x)) = Mul(Mul(Inv(y), y), x) /\ Mul(Inv(y), y) = Mul(y, Inv(y))
    BY <1>1, ScalarClosed, MulLaws
  <2> QED BY <2>1
<1>4. Mul(Mul(y, Inv(y)), x) = x
  <2>1. Mul(y, Inv(y)) = One /\ Mul(One, x) = Mul(x, One) /\ Mul(x, One) = x
    BY ScalarClosed, MulLaws
  <2> QED BY <2>1
<1>5. Mul(Inv(x), x) = One
  BY <1>1, ScalarClosed, MulLaws
<1> QED BY <1>2, <1>3, <1>4, <1>5

(* What the inspector subtracts is what issue and show added.               *)
LEMMA InspectorOpens ==
  ASSUME NEW k \in Scalar, NEW u \in Scalar, NEW h \in Scalar, NEW r \in Scalar,
         NEW p \in Scalar
  PROVE  Sub(Add(Add(Add(Add(k, u), Mul(h, r)), Mul(h, p)), Mul(Neg(Add(r, p)), h)), k) = u
<1> DEFINE s == Add(r, p)
           m == Mul(h, s)
<1>1. s \in Scalar /\ m \in Scalar /\ Neg(m) \in Scalar /\ Neg(k) \in Scalar
      /\ Add(k, u) \in Scalar /\ Mul(h, r) \in Scalar /\ Mul(h, p) \in Scalar
  BY ScalarClosed
<1>2. Add(Mul(h, r), Mul(h, p)) = m
  BY Distributivity
<1>3. Mul(Neg(s), h) = Neg(m)
  <2>1. Mul(Neg(s), h) = Neg(Mul(s, h)) /\ Mul(s, h) = m
    BY <1>1, MulNeg, MulLaws
  <2> QED BY <2>1
<1>4. Add(Add(Add(k, u), Mul(h, r)), Mul(h, p)) = Add(Add(k, u), m)
  BY <1>1, <1>2, AddLaws
<1> HIDE DEF m, s
<1>5. Add(Add(Add(k, u), m), Neg(m)) = Add(k, u)
  <2>1. Add(Add(Add(k, u), m), Neg(m)) = Add(Add(k, u), Add(m, Neg(m)))
    BY <1>1, AddLaws
  <2> QED BY <1>1, <2>1, AddLaws
<1>6. Sub(Add(k, u), k) = u
  BY AddSub
<1> QED BY <1>3, <1>4, <1>5, <1>6 DEF s

(* A power of a minus and one of an inverse agree only where the base is    *)
(* one or the exponents are the same.                                       *)
LEMMA PowersCoincide ==
  ASSUME NEW x \in Scalar, NEW a \in Scalar, NEW b \in Scalar
  PROVE  Mul(x, a) = Mul(x, b) <=> (x = Zero \/ a = b)
<1>1. Mul(x, a) = Mul(a, x) /\ Mul(x, b) = Mul(b, x)
  BY MulLaws
<1>2. ASSUME Mul(x, a) = Mul(x, b), x # Zero PROVE a = b
  BY <1>1, <1>2, MulCancel
<1>3. ASSUME x = Zero PROVE Mul(x, a) = Mul(x, b)
  BY <1>1, <1>3, MulZero
<1> QED BY <1>2, <1>3

(* Of the pairs that are printed for comparison, obtain's agrees whatever   *)
(* was drawn, inspect's exactly by the coincidence that is named, and what  *)
(* the parties need to be equal is equal over pbc.                          *)
THEOREM ProgramsAgree == ProgramsSpec => []ValuesAgree
<1>1. ProgramsInv => RandomnessAgrees
  <2> SUFFICES ASSUME ProgramsInv PROVE RandomnessAgrees
    OBVIOUS
  <2>1. /\ secret.alpha \in Scalar /\ secret.r \in Scalar
        /\ element.c3 \in Scalar /\ element.c3Prime \in Scalar
    BY DEF ProgramsInv, ProgramsTyped, SecretNames, ElementNames
  <2>2. CASE program = "pbc"
    <3>1. \A x \in Scalar : Mul(Neg(x), Neg(secret.alpha)) = Mul(secret.alpha, x)
      BY <2>1, MulNeg, MulLaws
    <3> QED BY <2>1, <2>2, <3>1 DEF ProgramsInv, PbcKept, RandomnessAgrees, Pairing
  <2>3. CASE program = "mcl"
    <3>1. ASSUME section = "END", secret.r # Zero, secret.alpha # Zero
          PROVE  Mul(Pairing(element.c2, element.h2), Pairing(element.h1, element.c3)) = One
      <4>1. Mul(Mul(Inv(secret.r), Inv(secret.alpha)), Mul(secret.alpha, secret.r)) = One
        BY <2>1, <3>1, InverseProduct
      <4> QED BY <2>3, <3>1, <4>1 DEF ProgramsInv, MclKept, Pairing
    <3> QED BY <2>3, <3>1 DEF RandomnessAgrees
  <2> QED BY <2>2, <2>3 DEF RandomnessAgrees
<1>2. ProgramsInv => InspectionOpens
  <2> SUFFICES ASSUME ProgramsInv, program = "pbc", section = "END",
                      element.c1Prime = Add(element.c1, Mul(element.h1, secret.rPrime))
               PROVE  /\ printed.inspect[1] = XuHs(secret.hs)
                      /\ (printed.inspect[1] = printed.inspect[2]) <=>
                           (element.x1 = Zero \/ Inv(secret.hs) = Neg(secret.hs))
    BY DEF InspectionOpens
  <2> DEFINE k == element.xis  u == XuHs(secret.hs)  h == secret.alpha
             r == secret.r     p == secret.rPrime
  <2>1. k \in Scalar /\ u \in Scalar /\ h \in Scalar /\ r \in Scalar /\ p \in Scalar
    BY HashInverse DEF ProgramsInv, ProgramsTyped, SecretNames, ElementNames
  <2>2. printed.inspect[1] =
          Sub(Add(Add(Add(Add(k, u), Mul(h, r)), Mul(h, p)), Mul(Neg(Add(r, p)), h)), k)
    BY DEF ProgramsInv, PbcKept
  <2> HIDE DEF k, u, h, r, p
  <2>3. Sub(Add(Add(Add(Add(k, u), Mul(h, r)), Mul(h, p)), Mul(Neg(Add(r, p)), h)), k) = u
    BY <2>1, InspectorOpens
  <2>4. printed.inspect[1] = XuHs(secret.hs)
    BY <2>2, <2>3 DEF u
  <2>5. printed.inspect[2] = Mul(element.x1, Neg(secret.hs))
    BY DEF ProgramsInv, PbcKept
  <2>6. element.x1 \in Scalar /\ Inv(secret.hs) \in Scalar /\ Neg(secret.hs) \in Scalar
    BY ScalarClosed DEF ProgramsInv, ProgramsTyped, SecretNames, ElementNames
  <2>7. Mul(element.x1, Inv(secret.hs)) = Mul(element.x1, Neg(secret.hs))
          <=> (element.x1 = Zero \/ Inv(secret.hs) = Neg(secret.hs))
    BY <2>6, PowersCoincide
  <2> QED BY <2>4, <2>5, <2>7 DEF XuHs
<1>3. ProgramsInv => ValuesAgree
  BY <1>1, <1>2 DEF ValuesAgree, ProgramsInv
<1> QED BY <1>3, ProgramsInvariant, PTL
=============================================================================
