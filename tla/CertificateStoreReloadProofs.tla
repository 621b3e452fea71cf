-------------------- MODULE CertificateStoreReloadProofs --------------------
(***************************************************************************)
(* Theorems about CertificateStoreStartup: what a server knows once it     *)
(* serves, and that a restart in load mode on the configuration of an      *)
(* initialisation accepts what the initialisation accepted and restores    *)
(* what it built.  Both modes read the configured lists entry by entry, so *)
(* the invariant says what a prefix of the lists has left in the maps.     *)
(***************************************************************************)
EXTENDS CertificateStoreStartupProofs

(* The issuers that the rows of a name give, in table t.                    *)
Issuers(t, name) == {t[i].issuer : i \in CertificateIds(t, name)}

IsOcsp(e) == e.type = "OCSP_SIGNING"

(* What the first n authorities leave in the map of passwords: every        *)
(* coherent entry is there, and what is there is of the first entry of the  *)
(* name, the ones that an initialisation passes over apart.                 *)
KnowsAuthorities(passwords, c, n) ==
  /\ \A k \in 1 .. n : CoherentAuthority(c.authorities[k])
                         => c.authorities[k].subject \in DOMAIN passwords
  /\ \A m \in DOMAIN passwords : \E k \in 1 .. n :
       /\ c.authorities[k].subject = m
       /\ c.authorities[k].password = passwords[m]
       /\ \A j \in 1 .. k - 1 : CoherentAuthority(c.authorities[j])
                                  => c.authorities[j].subject # m

(* What the first n certificates leave in the map of the signers' passwords.*)
KnowsSigners(passwords, c, n) ==
  /\ \A k \in 1 .. n : IsOcsp(c.certificates[k])
                         => c.certificates[k].subject \in DOMAIN passwords
  /\ \A s \in DOMAIN passwords : \E k \in 1 .. n :
       /\ IsOcsp(c.certificates[k])
       /\ c.certificates[k].subject = s
       /\ c.certificates[k].password = passwords[s]
       /\ \A j \in 1 .. k - 1 : IsOcsp(c.certificates[j])
                                  => c.certificates[j].subject # s

(* What they leave in the relation between authorities and signers: a       *)
(* signer is related to an issuer of a row of its name, and an authority to *)
(* the first signer; an earlier one has a row of another issuer.            *)
Relates(t, relation, c, n) ==
  /\ \A k \in 1 .. n : IsOcsp(c.certificates[k])
       => \E m \in Issuers(t, c.certificates[k].subject) : m \in DOMAIN relation
  /\ \A m \in DOMAIN relation : \E k \in 1 .. n :
       /\ IsOcsp(c.certificates[k])
       /\ m \in Issuers(t, c.certificates[k].subject)
       /\ relation[m] = c.certificates[k].subject
       /\ \A j \in 1 .. k - 1 : IsOcsp(c.certificates[j])
            => \E i \in Issuers(t, c.certificates[j].subject) : i # m

(* The certificates that were read were not refused.                        *)
CertificatesAccepted(c, n) ==
  \A k \in 1 .. n : ~EntryRejected(c.certificates[k])

(* A registry r after the first n authorities and l certificates of c.      *)
Knows(t, r, c, n, l) ==
  /\ KnowsAuthorities(r.caPassword, c, n)
  /\ KnowsSigners(r.ocspPassword, c, l)
  /\ Relates(t, r.caOcsp, c, l)
  /\ CertificatesAccepted(c, l)

(* The maps of a registry, and the rows of table t that they index.         *)
IsMap(f) == f = [k \in DOMAIN f |-> f[k]]

Indexes(t, r) ==
  /\ IsMap(r.caPassword) /\ IsMap(r.caIndex)
  /\ IsMap(r.ocspPassword) /\ IsMap(r.ocspIndex) /\ IsMap(r.caOcsp)
  /\ DOMAIN r.caPassword = DOMAIN r.caIndex
  /\ DOMAIN r.ocspPassword = DOMAIN r.ocspIndex
  /\ \A m \in DOMAIN r.caIndex : r.caIndex[m] \in AuthorityIds(t, m)
  /\ \A m \in DOMAIN r.ocspIndex : r.ocspIndex[m] \in CertificateIds(t, m)

(* What CheckOcsp decided of a registry.                                    *)
HasOcsp(r) == /\ DOMAIN r.ocspPassword # {}
              /\ DOMAIN r.ocspIndex # {}
              /\ DOMAIN r.caOcsp # {}

CountMatches(r) ==
  Cardinality(DOMAIN r.ocspPassword) = Cardinality(DOMAIN r.caPassword)

OcspDecided(r) ==
  /\ r.ocspOnline \in BOOLEAN
  /\ r.ocspOnline <=> HasOcsp(r) /\ CountMatches(r)
  /\ HasOcsp(r) => CountMatches(r)

(* How far the loops have come.                                             *)
AuthoritiesRead ==
  IF phase = "initializing" THEN 0
  ELSE IF phase \in {"authorities", "signing"} THEN entry - 1
  ELSE Len(config.authorities)

CertificatesRead ==
  IF phase \in {"initializing", "authorities", "signing"} THEN 0
  ELSE IF phase = "certificates" THEN entry - 1
  ELSE Len(config.certificates)

ProcessShape ==
  /\ phase # "down" => exit = "none"
  /\ phase \in {"initializing", "signing"} => mode = "initialize"
  /\ phase = "initializing" => entry = 1
  /\ phase = "signing" => CoherentAuthority(Authority)
  /\ phase \in {"authorities", "signing"} => entry - 1 <= Len(config.authorities)
  /\ phase = "certificates" => entry - 1 <= Len(config.certificates)

(* A failed call that an initialisation passes over is the only way to lose *)
(* an entry.                                                                *)
ProcessKnows ==
  phase # "down" /\ (~faulted \/ mode = "load") =>
    Knows(certificates, Registry, config, AuthoritiesRead, CertificatesRead)

ProcessDecided == phase \in {"publishing", "serving"} => OcspDecided(Registry)

(* What the last initialisation built is right as long as the tables grow.  *)
BuiltRight ==
  \A b \in built :
    /\ b = [config |-> b.config, registry |-> b.registry]
    /\ b.registry = [caPassword |-> b.registry.caPassword,
                     caIndex |-> b.registry.caIndex,
                     ocspPassword |-> b.registry.ocspPassword,
                     ocspIndex |-> b.registry.ocspIndex,
                     caOcsp |-> b.registry.caOcsp,
                     ocspOnline |-> b.registry.ocspOnline]
    /\ Indexes(certificates, b.registry)
    /\ Knows(certificates, b.registry, b.config,
             Len(b.config.authorities), Len(b.config.certificates))
    /\ OcspDecided(b.registry)

RInv == /\ ProcessShape
        /\ Indexes(certificates, Registry)
        /\ ProcessKnows
        /\ ProcessDecided
        /\ BuiltRight

-----------------------------------------------------------------------------
(* One insertion.                                                          *)

LEMMA InsertFacts ==
  ASSUME NEW f, NEW key, NEW value
  PROVE  /\ DOMAIN Insert(f, key, value) = DOMAIN f \cup {key}
         /\ \A k \in DOMAIN f : Insert(f, key, value)[k] = f[k]
         /\ key \notin DOMAIN f => Insert(f, key, value)[key] = value
         /\ IsMap(Insert(f, key, value))
  BY DEF Insert, IsMap

(* An authority that is read: passed over, or inserted.                     *)
LEMMA AuthorityPassed ==
  ASSUME NEW passwords, NEW c, NEW n \in Nat,
         KnowsAuthorities(passwords, c, n),
         ~CoherentAuthority(c.authorities[n + 1])
  PROVE  KnowsAuthorities(passwords, c, n + 1)
<1>1. 1 .. n \subseteq 1 .. n + 1
  OBVIOUS
<1>2. \A k \in 1 .. n + 1 : k \in 1 .. n \/ k = n + 1
  OBVIOUS
<1>3. \A k \in 1 .. n + 1 : CoherentAuthority(c.authorities[k])
                              => c.authorities[k].subject \in DOMAIN passwords
  BY <1>2, Zenon DEF KnowsAuthorities
<1>4. QED
  BY <1>1, <1>3, Zenon DEF KnowsAuthorities

LEMMA AuthorityInserted ==
  ASSUME NEW passwords, NEW c, NEW n \in Nat,
         KnowsAuthorities(passwords, c, n)
  PROVE  KnowsAuthorities(Insert(passwords, c.authorities[n + 1].subject,
                                 c.authorities[n + 1].password), c, n + 1)
<1> DEFINE e == c.authorities[n + 1]
           map == Insert(passwords, e.subject, e.password)
<1>1. /\ DOMAIN map = DOMAIN passwords \cup {e.subject}
      /\ \A k \in DOMAIN passwords : map[k] = passwords[k]
      /\ e.subject \notin DOMAIN passwords => map[e.subject] = e.password
  BY DEF Insert
<1> HIDE DEF map
<1>2. /\ 1 .. n \subseteq 1 .. n + 1
      /\ n + 1 \in 1 .. n + 1
      /\ \A k \in 1 .. n + 1 : k \in 1 .. n \/ k = n + 1
      /\ 1 .. (n + 1) - 1 = 1 .. n
  OBVIOUS
<1>3. \A k \in 1 .. n + 1 : CoherentAuthority(c.authorities[k])
                              => c.authorities[k].subject \in DOMAIN map
  BY <1>1, <1>2, Zenon DEF KnowsAuthorities
<1>4. ASSUME NEW m \in DOMAIN map
      PROVE  \E k \in 1 .. n + 1 :
               /\ c.authorities[k].subject = m
               /\ c.authorities[k].password = map[m]
               /\ \A j \in 1 .. k - 1 : CoherentAuthority(c.authorities[j])
                                          => c.authorities[j].subject # m
  <2>1. CASE m \in DOMAIN passwords
    <3>1. PICK k \in 1 .. n :
             /\ c.authorities[k].subject = m
             /\ c.authorities[k].password = passwords[m]
             /\ \A j \in 1 .. k - 1 : CoherentAuthority(c.authorities[j])
                                        => c.authorities[j].subject # m
      BY <2>1 DEF KnowsAuthorities
    <3>2. QED
      BY <3>1, <2>1, <1>1, <1>2, Zenon
  <2>2. CASE m \notin DOMAIN passwords
    <3>1. m = e.subject /\ map[m] = e.password
      BY <1>1, <2>2, Zenon
    <3>2. \A j \in 1 .. n : CoherentAuthority(c.authorities[j])
                              => c.authorities[j].subject # m
      BY <2>2, Zenon DEF KnowsAuthorities
    <3>3. \A j \in 1 .. (n + 1) - 1 : CoherentAuthority(c.authorities[j])
                                        => c.authorities[j].subject # m
      BY <1>2, <3>2
    <3>4. QED
      BY <3>1, <3>3, <1>2, Zenon
  <2>3. QED
    BY <2>1, <2>2
<1>5. QED
  BY <1>3, <1>4, Zenon DEF KnowsAuthorities, map

(* The same of a certificate and the map of the signers' passwords.         *)
LEMMA SignerPassed ==
  ASSUME NEW passwords, NEW c, NEW n \in Nat,
         KnowsSigners(passwords, c, n),
         ~IsOcsp(c.certificates[n + 1])
  PROVE  KnowsSigners(passwords, c, n + 1)
<1>1. 1 .. n \subseteq 1 .. n + 1
  OBVIOUS
<1>2. \A k \in 1 .. n + 1 : k \in 1 .. n \/ k = n + 1
  OBVIOUS
<1>3. \A k \in 1 .. n + 1 : IsOcsp(c.certificates[k])
                              => c.certificates[k].subject \in DOMAIN passwords
  BY <1>2, Zenon DEF KnowsSigners
<1>4. QED
  BY <1>1, <1>3, Zenon DEF KnowsSigners

LEMMA SignerInserted ==
  ASSUME NEW passwords, NEW c, NEW n \in Nat,
         KnowsSigners(passwords, c, n),
         IsOcsp(c.certificates[n + 1])
  PROVE  KnowsSigners(Insert(passwords, c.certificates[n + 1].subject,
                             c.certificates[n + 1].password), c, n + 1)
<1> DEFINE e == c.certificates[n + 1]
           map == Insert(passwords, e.subject, e.password)
<1>1. /\ DOMAIN map = DOMAIN passwords \cup {e.subject}
      /\ \A k \in DOMAIN passwords : map[k] = passwords[k]
      /\ e.subject \notin DOMAIN passwords => map[e.subject] = e.password
  BY DEF Insert
<1> HIDE DEF map
<1>2. /\ 1 .. n \subseteq 1 .. n + 1
      /\ n + 1 \in 1 .. n + 1
      /\ \A k \in 1 .. n + 1 : k \in 1 .. n \/ k = n + 1
      /\ 1 .. (n + 1) - 1 = 1 .. n
  OBVIOUS
<1>3. \A k \in 1 .. n + 1 : IsOcsp(c.certificates[k])
                              => c.certificates[k].subject \in DOMAIN map
  BY <1>1, <1>2, Zenon DEF KnowsSigners
<1>4. ASSUME NEW s \in DOMAIN map
      PROVE  \E k \in 1 .. n + 1 :
               /\ IsOcsp(c.certificates[k])
               /\ c.certificates[k].subject = s
               /\ c.certificates[k].password = map[s]
               /\ \A j \in 1 .. k - 1 : IsOcsp(c.certificates[j])
                                          => c.certificates[j].subject # s
  <2>1. CASE s \in DOMAIN passwords
    <3>1. PICK k \in 1 .. n :
             /\ IsOcsp(c.certificates[k])
             /\ c.certificates[k].subject = s
             /\ c.certificates[k].password = passwords[s]
             /\ \A j \in 1 .. k - 1 : IsOcsp(c.certificates[j])
                                        => c.certificates[j].subject # s
      BY <2>1 DEF KnowsSigners
    <3>2. QED
      BY <3>1, <2>1, <1>1, <1>2, Zenon
  <2>2. CASE s \notin DOMAIN passwords
    <3>1. s = e.subject /\ map[s] = e.password
      BY <1>1, <2>2, Zenon
    <3>2. \A j \in 1 .. n : IsOcsp(c.certificates[j])
                              => c.certificates[j].subject # s
      BY <2>2 DEF KnowsSigners
    <3>3. \A j \in 1 .. (n + 1) - 1 : IsOcsp(c.certificates[j])
                                        => c.certificates[j].subject # s
      BY <1>2, <3>2
    <3>4. QED
      BY <3>1, <3>3, <1>2, Zenon
  <2>3. QED
    BY <2>1, <2>2
<1>5. QED
  BY <1>3, <1>4, Zenon DEF KnowsSigners, map

(* The same of a certificate and the relation.                              *)
LEMMA RelationPassed ==
  ASSUME NEW t, NEW relation, NEW c, NEW n \in Nat,
         Relates(t, relation, c, n),
         ~IsOcsp(c.certificates[n + 1])
  PROVE  Relates(t, relation, c, n + 1)
<1>1. 1 .. n \subseteq 1 .. n + 1
  OBVIOUS
<1>2. \A k \in 1 .. n + 1 : k \in 1 .. n \/ k = n + 1
  OBVIOUS
<1>3. \A k \in 1 .. n + 1 : IsOcsp(c.certificates[k])
        => \E m \in Issuers(t, c.certificates[k].subject) : m \in DOMAIN relation
  BY <1>2, Zenon DEF Relates
<1>4. QED
  BY <1>1, <1>3, Zenon DEF Relates

LEMMA RelationInserted ==
  ASSUME NEW t, NEW relation, NEW c, NEW n \in Nat, NEW issuer,
         Relates(t, relation, c, n),
         IsOcsp(c.certificates[n + 1]),
         issuer \in Issuers(t, c.certificates[n + 1].subject)
  PROVE  Relates(t, Insert(relation, issuer, c.certificates[n + 1].subject),
                 c, n + 1)
<1> DEFINE e == c.certificates[n + 1]
           map == Insert(relation, issuer, e.subject)
<1>1. /\ DOMAIN map = DOMAIN relation \cup {issuer}
      /\ \A k \in DOMAIN relation : map[k] = relation[k]
      /\ issuer \notin DOMAIN relation => map[issuer] = e.subject
  BY DEF Insert
<1> HIDE DEF map
<1>2. /\ 1 .. n \subseteq 1 .. n + 1
      /\ n + 1 \in 1 .. n + 1
      /\ \A k \in 1 .. n + 1 : k \in 1 .. n \/ k = n + 1
      /\ 1 .. (n + 1) - 1 = 1 .. n
  OBVIOUS
<1>3. \A k \in 1 .. n + 1 : IsOcsp(c.certificates[k])
        => \E m \in Issuers(t, c.certificates[k].subject) : m \in DOMAIN map
  BY <1>1, <1>2, Zenon DEF Relates
<1>4. ASSUME NEW m \in DOMAIN map
      PROVE  \E k \in 1 .. n + 1 :
               /\ IsOcsp(c.certificates[k])
               /\ m \in Issuers(t, c.certificates[k].subject)
               /\ map[m] = c.certificates[k].subject
               /\ \A j \in 1 .. k - 1 : IsOcsp(c.certificates[j])
                    => \E i \in Issuers(t, c.certificates[j].subject) : i # m
  <2>1. CASE m \in DOMAIN relation
    <3>1. PICK k \in 1 .. n :
             /\ IsOcsp(c.certificates[k])
             /\ m \in Issuers(t, c.certificates[k].subject)
             /\ relation[m] = c.certificates[k].subject
             /\ \A j \in 1 .. k - 1 : IsOcsp(c.certificates[j])
                  => \E i \in Issuers(t, c.certificates[j].subject) : i # m
      BY <2>1 DEF Relates
    <3>2. QED
      BY <3>1, <2>1, <1>1, <1>2, Zenon
  <2>2. CASE m \notin DOMAIN relation
    <3>1. m = issuer /\ map[m] = e.subject
      BY <1>1, <2>2, Zenon
    <3>2. \A j \in 1 .. (n + 1) - 1 : IsOcsp(c.certificates[j])
            => \E i \in Issuers(t, c.certificates[j].subject) : i # m
      BY <1>2, <2>2, Zenon DEF Relates
    <3>3. QED
      BY <3>1, <3>2, <1>2, Zenon
  <2>3. QED
    BY <2>1, <2>2
<1>5. QED
  BY <1>3, <1>4, Zenon DEF Relates, map

-----------------------------------------------------------------------------
(* The table grows.                                                        *)

Grown(t, u) ==
  /\ \A m : AuthorityIds(t, m) \subseteq AuthorityIds(u, m)
  /\ \A m : CertificateIds(t, m) \subseteq CertificateIds(u, m)
  /\ \A i \in DOMAIN t : u[i] = t[i]

LEMMA GrownIssuers ==
  ASSUME NEW t, NEW u, Grown(t, u)
  PROVE  \A name : Issuers(t, name) \subseteq Issuers(u, name)
  BY DEF Grown, Issuers, CertificateIds

LEMMA GrownRelates ==
  ASSUME NEW t, NEW u, Grown(t, u), NEW relation, NEW c, NEW n,
         Relates(t, relation, c, n)
  PROVE  Relates(u, relation, c, n)
<1>1. \A name : Issuers(t, name) \subseteq Issuers(u, name)
  BY GrownIssuers
<1>2. ASSUME NEW k \in 1 .. n, IsOcsp(c.certificates[k])
      PROVE  \E m \in Issuers(u, c.certificates[k].subject) : m \in DOMAIN relation
  BY <1>1, <1>2 DEF Relates
<1>3. ASSUME NEW m \in DOMAIN relation
      PROVE  \E k \in 1 .. n :
               /\ IsOcsp(c.certificates[k])
               /\ m \in Issuers(u, c.certificates[k].subject)
               /\ relation[m] = c.certificates[k].subject
               /\ \A j \in 1 .. k - 1 : IsOcsp(c.certificates[j])
                    => \E i \in Issuers(u, c.certificates[j].subject) : i # m
  <2>1. PICK k \in 1 .. n :
           /\ IsOcsp(c.certificates[k])
           /\ m \in Issuers(t, c.certificates[k].subject)
           /\ relation[m] = c.certificates[k].subject
           /\ \A j \in 1 .. k - 1 : IsOcsp(c.certificates[j])
                => \E i \in Issuers(t, c.certificates[j].subject) : i # m
    BY DEF Relates
  <2>2. m \in Issuers(u, c.certificates[k].subject)
    BY <2>1, <1>1
  <2>3. ASSUME NEW j \in 1 .. k - 1, IsOcsp(c.certificates[j])
        PROVE  \E i \in Issuers(u, c.certificates[j].subject) : i # m
    BY <2>1, <2>3, <1>1
  <2>4. QED
    BY <2>1, <2>2, <2>3, Zenon
<1>4. QED
  BY <1>2, <1>3, Zenon DEF Relates

LEMMA GrownKnows ==
  ASSUME NEW t, NEW u, Grown(t, u), NEW r, NEW c, NEW n, NEW l,
         Knows(t, r, c, n, l)
  PROVE  Knows(u, r, c, n, l)
  BY GrownRelates, Zenon DEF Knows

LEMMA GrownIndexes ==
  ASSUME NEW t, NEW u, Grown(t, u), NEW r, Indexes(t, r)
  PROVE  Indexes(u, r)
  BY Zenon DEF Indexes, Grown

LEMMA GrownBuilt ==
  ASSUME BuiltRight, Grown(certificates, certificates'), built' = built
  PROVE  BuiltRight'
<1> SUFFICES ASSUME NEW b \in built
             PROVE  /\ Indexes(certificates', b.registry)
                    /\ Knows(certificates', b.registry, b.config,
                             Len(b.config.authorities), Len(b.config.certificates))
  BY Zenon DEF BuiltRight
<1>1. QED
  BY GrownIndexes, GrownKnows, Zenon DEF BuiltRight

LEMMA NothingGrown ==
  ASSUME NEW t PROVE Grown(t, t)
  BY DEF Grown

LEMMA StoredGrown ==
  ASSUME certificates \in Seq(Row), NEW r \in Row,
         certificates' = Append(certificates, r)
  PROVE  Grown(certificates, certificates')
  BY AppendIds DEF Grown

-----------------------------------------------------------------------------
(* Steps that leave the loops, and steps that go on in them.                *)

(* The lists that the loops are reading.                                    *)
LEMMA Lists ==
  ASSUME TypeOK
  PROVE  /\ Len(config.authorities) \in Nat
         /\ Len(config.certificates) \in Nat
         /\ entry \in Nat \ {0}
         /\ entry - 1 \in Nat
         /\ (entry - 1) + 1 = entry
         /\ (entry + 1) - 1 = entry
<1>1. config.authorities \in Seq(Entry) /\ config.certificates \in Seq(Entry)
  BY ConfigurationsAssumption DEF TypeOK, Configuration
<1>2. entry \in Nat \ {0}
  BY DEF TypeOK
<1>3. QED
  BY <1>1, <1>2

(* A process that ends keeps nothing but what the tables and history hold.  *)
LEMMA EndKnows ==
  ASSUME RInv, phase' = "down",
         UNCHANGED <<certificates, caPassword, caIndex, ocspPassword, ocspIndex,
                     caOcsp, built>>
  PROVE  RInv'
<1>1. Indexes(certificates, Registry)'
  BY DEF RInv, Indexes, Registry
<1>2. BuiltRight'
  BY DEF RInv, BuiltRight
<1>3. QED
  BY <1>1, <1>2 DEF RInv, ProcessShape, ProcessKnows, ProcessDecided

(* An authority's certificate is registered.                                *)
LEMMA RegisteredKnows ==
  ASSUME IInv, RInv, NEW id,
         phase \in {"authorities", "signing"}, phase' = "authorities",
         entry <= Len(config.authorities), entry' = entry + 1,
         RegisterAuthority(Authority.subject, Authority.password, id),
         id \in AuthorityIds(certificates', Authority.subject),
         Grown(certificates, certificates'),
         UNCHANGED <<config, mode, exit, faulted, built>>
  PROVE  RInv'
<1>1. BuiltRight'
  BY GrownBuilt DEF RInv
<1>2. Indexes(certificates', Registry)
  BY GrownIndexes DEF RInv
<1>3. /\ caPassword' = Insert(caPassword, Authority.subject, Authority.password)
      /\ caIndex' = Insert(caIndex, Authority.subject, id)
      /\ UNCHANGED <<ocspPassword, ocspIndex, caOcsp, ocspOnline>>
  BY DEF RegisterAuthority
<1>4. Indexes(certificates, Registry)'
  <2>1. /\ IsMap(caPassword') /\ IsMap(caIndex')
        /\ DOMAIN caPassword' = DOMAIN caPassword \cup {Authority.subject}
        /\ DOMAIN caIndex' = DOMAIN caIndex \cup {Authority.subject}
        /\ \A m \in DOMAIN caIndex : caIndex'[m] = caIndex[m]
        /\ Authority.subject \notin DOMAIN caIndex => caIndex'[Authority.subject] = id
    BY <1>3 DEF IsMap, Insert
  <2>2. /\ DOMAIN caPassword' = DOMAIN caIndex'
        /\ \A m \in DOMAIN caIndex' : caIndex'[m] \in AuthorityIds(certificates', m)
    BY <1>2, <2>1 DEF Indexes, Registry
  <2>3. QED
    BY <1>2, <1>3, <2>1, <2>2 DEF Indexes, Registry
<1>5. ProcessKnows'
  <2>1. SUFFICES ASSUME ~faulted \/ mode = "load"
                 PROVE  Knows(certificates, Registry, config,
                              AuthoritiesRead, CertificatesRead)'
    BY DEF ProcessKnows
  <2>2. /\ AuthoritiesRead = entry - 1 /\ AuthoritiesRead' = (entry - 1) + 1
        /\ CertificatesRead = 0 /\ CertificatesRead' = 0
        /\ entry - 1 \in Nat
    BY Lists DEF IInv, AuthoritiesRead, CertificatesRead
  <2>3. Knows(certificates', Registry, config, entry - 1, 0)
    <3>1. Knows(certificates, Registry, config, entry - 1, 0)
      BY <2>1, <2>2 DEF RInv, ProcessKnows
    <3>2. QED
      BY <3>1, GrownKnows
  <2>4. Authority = config.authorities[(entry - 1) + 1]
    BY Lists DEF Authority, IInv
  <2>5. KnowsAuthorities(caPassword', config, (entry - 1) + 1)
    <3>1. KnowsAuthorities(caPassword, config, entry - 1)
      BY <2>3 DEF Knows, Registry
    <3>2. QED
      BY <1>3, <2>2, <2>4, <3>1, AuthorityInserted
  <2>6. QED
    BY <1>3, <2>2, <2>3, <2>5 DEF Knows, Registry
<1>6. ProcessShape'
  BY Lists DEF RInv, IInv, ProcessShape
<1>7. ProcessDecided'
  BY DEF ProcessDecided
<1>8. QED
  BY <1>1, <1>4, <1>5, <1>6, <1>7 DEF RInv

(* An authority is passed over: for its type, or because a call failed.     *)
LEMMA PassedKnows ==
  ASSUME IInv, RInv,
         phase = "authorities", phase' = "authorities",
         entry <= Len(config.authorities), entry' = entry + 1,
         \/ ~CoherentAuthority(Authority) /\ faulted' = faulted
         \/ mode = "initialize" /\ faulted' = TRUE,
         UNCHANGED <<certificates, registry, config, mode, exit, built>>
  PROVE  RInv'
<1>1. BuiltRight'
  BY NothingGrown, GrownBuilt DEF RInv
<1>2. Registry' = Registry /\ Indexes(certificates, Registry)'
  BY DEF RInv, Registry, registry
<1>3. ProcessKnows'
  <2>1. SUFFICES ASSUME ~faulted' \/ mode = "load"
                 PROVE  Knows(certificates, Registry, config,
                              AuthoritiesRead, CertificatesRead)'
    BY DEF ProcessKnows
  <2>2. ~CoherentAuthority(Authority) /\ (~faulted \/ mode = "load")
    BY <2>1
  <2>3. /\ AuthoritiesRead = entry - 1 /\ AuthoritiesRead' = (entry - 1) + 1
        /\ CertificatesRead = 0 /\ CertificatesRead' = 0
        /\ entry - 1 \in Nat
    BY Lists DEF IInv, AuthoritiesRead, CertificatesRead
  <2>4. Knows(certificates, Registry, config, entry - 1, 0)
    BY <2>2, <2>3 DEF RInv, ProcessKnows
  <2>5. Authority = config.authorities[(entry - 1) + 1]
    BY Lists DEF Authority, IInv
  <2>6. KnowsAuthorities(Registry.caPassword, config, (entry - 1) + 1)
    BY <2>2, <2>3, <2>4, <2>5, AuthorityPassed DEF Knows
  <2>7. QED
    BY <1>2, <2>3, <2>4, <2>6 DEF Knows
<1>4. ProcessShape'
  BY Lists DEF RInv, IInv, ProcessShape
<1>5. QED
  BY <1>1, <1>2, <1>3, <1>4 DEF RInv, ProcessDecided

(* A signer's certificate is registered.                                    *)
LEMMA SignerKnows ==
  ASSUME IInv, RInv, NEW id, NEW issuer,
         phase = "certificates", phase' = "certificates",
         entry <= Len(config.certificates), entry' = entry + 1,
         ~EntryRejected(Certificate), IsOcsp(Certificate),
         RegisterOcsp(issuer, Certificate.subject, Certificate.password, id),
         id \in CertificateIds(certificates', Certificate.subject),
         issuer \in Issuers(certificates', Certificate.subject),
         Grown(certificates, certificates'),
         UNCHANGED <<config, mode, exit, faulted, built>>
  PROVE  RInv'
<1>1. BuiltRight'
  BY GrownBuilt DEF RInv
<1>2. Indexes(certificates', Registry)
  BY GrownIndexes DEF RInv
<1>3. /\ ocspPassword' = Insert(ocspPassword, Certificate.subject,
                                Certificate.password)
      /\ ocspIndex' = Insert(ocspIndex, Certificate.subject, id)
      /\ caOcsp' = Insert(caOcsp, issuer, Certificate.subject)
      /\ UNCHANGED <<caPassword, caIndex, ocspOnline>>
  BY DEF RegisterOcsp
<1>4. Indexes(certificates, Registry)'
  <2>1. /\ IsMap(ocspPassword') /\ IsMap(ocspIndex') /\ IsMap(caOcsp')
        /\ DOMAIN ocspPassword' = DOMAIN ocspPassword \cup {Certificate.subject}
        /\ DOMAIN ocspIndex' = DOMAIN ocspIndex \cup {Certificate.subject}
        /\ \A m \in DOMAIN ocspIndex : ocspIndex'[m] = ocspIndex[m]
        /\ Certificate.subject \notin DOMAIN ocspIndex
             => ocspIndex'[Certificate.subject] = id
    BY <1>3 DEF IsMap, Insert
  <2>2. /\ DOMAIN ocspPassword' = DOMAIN ocspIndex'
        /\ \A m \in DOMAIN ocspIndex' :
             ocspIndex'[m] \in CertificateIds(certificates', m)
    BY <1>2, <2>1 DEF Indexes, Registry
  <2>3. QED
    BY <1>2, <1>3, <2>1, <2>2 DEF Indexes, Registry
<1>5. ProcessKnows'
  <2>1. SUFFICES ASSUME ~faulted \/ mode = "load"
                 PROVE  Knows(certificates, Registry, config,
                              AuthoritiesRead, CertificatesRead)'
    BY DEF ProcessKnows
  <2> DEFINE all == Len(config.authorities)
             n == entry - 1
  <2>2. /\ AuthoritiesRead = all /\ AuthoritiesRead' = all
        /\ CertificatesRead = n /\ CertificatesRead' = n + 1
        /\ n \in Nat
    BY Lists DEF IInv, AuthoritiesRead, CertificatesRead
  <2>3. Certificate = config.certificates[n + 1]
    BY Lists DEF Certificate, IInv
  <2> HIDE DEF all, n
  <2>4. Knows(certificates', Registry, config, all, n)
    <3>1. Knows(certificates, Registry, config, all, n)
      BY <2>1, <2>2 DEF RInv, ProcessKnows
    <3>2. QED
      BY <3>1, GrownKnows
  <2>5. KnowsSigners(ocspPassword', config, n + 1)
    <3>1. KnowsSigners(ocspPassword, config, n)
      BY <2>4 DEF Knows, Registry
    <3>2. QED
      BY <1>3, <2>2, <2>3, <3>1, SignerInserted
  <2>6. Relates(certificates', caOcsp', config, n + 1)
    <3>1. Relates(certificates', caOcsp, config, n)
      BY <2>4 DEF Knows, Registry
    <3>2. QED
      BY <1>3, <2>2, <2>3, <3>1, RelationInserted
  <2>7. CertificatesAccepted(config, n + 1)
    <3>1. CertificatesAccepted(config, n)
      BY <2>4 DEF Knows
    <3>2. QED
      BY <2>2, <2>3, <3>1 DEF CertificatesAccepted
  <2>8. KnowsAuthorities(caPassword', config, all)
    BY <1>3, <2>4 DEF Knows, Registry
  <2>9. QED
    BY <1>3, <2>2, <2>5, <2>6, <2>7, <2>8 DEF Knows, Registry
<1>6. ProcessShape'
  BY Lists DEF RInv, IInv, ProcessShape
<1>7. ProcessDecided'
  BY DEF ProcessDecided
<1>8. QED
  BY <1>1, <1>4, <1>5, <1>6, <1>7 DEF RInv

(* A certificate that is no signer's: stored, or passed over.               *)
LEMMA OtherKnows ==
  ASSUME IInv, RInv,
         phase = "certificates", phase' = "certificates",
         entry <= Len(config.certificates), entry' = entry + 1,
         ~EntryRejected(Certificate),
         \/ ~IsOcsp(Certificate) /\ faulted' = faulted
         \/ mode = "initialize" /\ faulted' = TRUE,
         Grown(certificates, certificates'),
         UNCHANGED <<registry, config, mode, exit, built>>
  PROVE  RInv'
<1>1. BuiltRight'
  BY GrownBuilt DEF RInv
<1>2. Registry' = Registry
  BY DEF Registry, registry
<1>3. Indexes(certificates, Registry)'
  BY <1>2, GrownIndexes DEF RInv
<1>4. ProcessKnows'
  <2>1. SUFFICES ASSUME ~faulted' \/ mode = "load"
                 PROVE  Knows(certificates, Registry, config,
                              AuthoritiesRead, CertificatesRead)'
    BY DEF ProcessKnows
  <2>2. ~IsOcsp(Certificate) /\ (~faulted \/ mode = "load")
    BY <2>1
  <2> DEFINE all == Len(config.authorities)
             n == entry - 1
  <2>3. /\ AuthoritiesRead = all /\ AuthoritiesRead' = all
        /\ CertificatesRead = n /\ CertificatesRead' = n + 1
        /\ n \in Nat
    BY Lists DEF IInv, AuthoritiesRead, CertificatesRead
  <2>4. Certificate = config.certificates[n + 1]
    BY Lists DEF Certificate, IInv
  <2> HIDE DEF all, n
  <2>5. Knows(certificates', Registry, config, all, n)
    <3>1. Knows(certificates, Registry, config, all, n)
      BY <2>2, <2>3 DEF RInv, ProcessKnows
    <3>2. QED
      BY <3>1, GrownKnows
  <2>6. KnowsSigners(Registry.ocspPassword, config, n + 1)
    BY <2>2, <2>3, <2>4, <2>5, SignerPassed DEF Knows
  <2>7. Relates(certificates', Registry.caOcsp, config, n + 1)
    BY <2>2, <2>3, <2>4, <2>5, RelationPassed DEF Knows
  <2>8. CertificatesAccepted(config, n + 1)
    <3>1. CertificatesAccepted(config, n)
      BY <2>5 DEF Knows
    <3>2. QED
      BY <2>3, <2>4, <3>1 DEF CertificatesAccepted
  <2>9. QED
    BY <1>2, <2>3, <2>5, <2>6, <2>7, <2>8 DEF Knows
<1>5. ProcessShape'
  BY Lists DEF RInv, IInv, ProcessShape
<1>6. QED
  BY <1>1, <1>3, <1>4, <1>5 DEF RInv, ProcessDecided

-----------------------------------------------------------------------------
(* The actions.                                                            *)

LEMMA OperatorKnows ==
  ASSUME IInv, RInv,
         (\E m \in {"initialize", "load"} : Start(m)) \/ EditConfiguration \/ Crash
  PROVE  RInv'
<1>1. CASE \E m \in {"initialize", "load"} : Start(m)
  <2>1. /\ phase' \in {"initializing", "authorities"} /\ entry' = 1
        /\ phase' = "initializing" => mode' = "initialize"
        /\ caPassword' = EmptyMap /\ caIndex' = EmptyMap
        /\ ocspPassword' = EmptyMap /\ ocspIndex' = EmptyMap
        /\ caOcsp' = EmptyMap /\ exit' = "none"
        /\ UNCHANGED <<certificates, config, built>>
    BY <1>1 DEF Start, database
  <2>2. Indexes(certificates, Registry)' /\ BuiltRight'
    BY <2>1 DEF RInv, Indexes, Registry, IsMap, EmptyMap, BuiltRight
  <2>3. AuthoritiesRead' = 0 /\ CertificatesRead' = 0
    BY <2>1 DEF AuthoritiesRead, CertificatesRead
  <2>4. Knows(certificates', Registry', config', 0, 0)
    BY <2>1 DEF Knows, KnowsAuthorities, KnowsSigners, Relates,
                CertificatesAccepted, Registry, EmptyMap
  <2>5. ProcessKnows'
    BY <2>3, <2>4 DEF ProcessKnows
  <2>6. ProcessShape' /\ ProcessDecided'
    BY <2>1, Lists DEF IInv, ProcessShape, ProcessDecided
  <2>7. QED
    BY <2>2, <2>5, <2>6 DEF RInv
<1>2. CASE EditConfiguration
  BY <1>2, EndKnows DEF EditConfiguration, database, registry, history
<1>3. CASE Crash
  BY <1>3, EndKnows DEF Crash, database, registry, history
<1>4. QED
  BY <1>1, <1>2, <1>3

(* initializeDatabase forgets what an earlier initialisation built.         *)
LEMMA InitializeKnows ==
  ASSUME IInv, RInv, InitializeDatabase
  PROVE  RInv'
<1>1. /\ phase = "initializing" /\ phase' = "authorities" /\ entry' = 1
      /\ mode = "initialize" /\ exit = "none" /\ built' = {}
      /\ UNCHANGED <<registry, config, mode, entry, exit>>
  BY DEF InitializeDatabase, RInv, ProcessShape
<1>2. /\ DOMAIN caPassword' = {} /\ DOMAIN caIndex' = {}
      /\ DOMAIN ocspPassword' = {} /\ DOMAIN ocspIndex' = {}
      /\ DOMAIN caOcsp' = {}
      /\ IsMap(caPassword') /\ IsMap(caIndex')
      /\ IsMap(ocspPassword') /\ IsMap(ocspIndex') /\ IsMap(caOcsp')
  BY <1>1 DEF IInv, RegistryEmpty, RInv, Indexes, Registry, registry
<1>3. Indexes(certificates, Registry)'
  BY <1>2 DEF Indexes, Registry
<1>4. AuthoritiesRead' = 0 /\ CertificatesRead' = 0
  BY <1>1 DEF AuthoritiesRead, CertificatesRead
<1>5. Knows(certificates', Registry', config', 0, 0)
  BY <1>2 DEF Knows, KnowsAuthorities, KnowsSigners, Relates,
              CertificatesAccepted, Registry
<1>6. ProcessKnows' /\ BuiltRight'
  BY <1>1, <1>4, <1>5 DEF ProcessKnows, BuiltRight
<1>7. ProcessShape' /\ ProcessDecided'
  BY <1>1, Lists DEF IInv, ProcessShape, ProcessDecided
<1>8. QED
  BY <1>3, <1>6, <1>7 DEF RInv

(* Every way out of the loops by an exception.                              *)
LEMMA ThrowKnows ==
  ASSUME RInv,
         \/ RejectAuthority \/ RejectCertificate
         \/ LoadAuthorityThrows \/ LoadOcspThrows
  PROVE  RInv'
  BY EndKnows DEF RejectAuthority, RejectCertificate, LoadAuthorityThrows,
                  LoadOcspThrows, Throw, database, registry, history

LEMMA SelfSignedKnows ==
  ASSUME IInv, RInv, GenerateSelfSignedAuthority
  PROVE  RInv'
<1> DEFINE row == CertificateRow(Authority.subject, Authority.subject,
                                 Authority.type, Len(certificates) + 1)
<1>1. /\ Authority \in Entry /\ Authority.type = "SELF_SIGNED_CA"
      /\ phase = "authorities" /\ entry <= Len(config.authorities)
      /\ UNCHANGED <<config, mode, built>>
  BY EntryTyped DEF IInv, GenerateSelfSignedAuthority, AtAuthority
<1>2. certificates \in Seq(Row) /\ Len(certificates) + 1 \in Nat
  BY DEF IInv, TypeOK
<1>3. /\ row \in Row
      /\ row.subject = Authority.subject /\ row.type = "SELF_SIGNED_CA"
  BY <1>1, <1>2, RowTyped DEF Entry, CertificateRow
<1>4. CASE /\ certificates' = Append(certificates, row)
           /\ RegisterAuthority(Authority.subject, Authority.password,
                                Len(certificates) + 1)
           /\ entry' = entry + 1
           /\ NoFailure
           /\ UNCHANGED <<phase, exit>>
  <2> HIDE DEF row
  <2>1. Len(certificates) + 1 \in AuthorityIds(certificates', Authority.subject)
    BY <1>2, <1>3, <1>4, AppendIds DEF AuthorityIds, AuthorityType
  <2>2. Grown(certificates, certificates')
    BY <1>2, <1>3, <1>4, StoredGrown
  <2>3. QED
    BY <1>1, <1>4, <2>1, <2>2, RegisteredKnows DEF NoFailure
<1>5. CASE Throw /\ UNCHANGED <<certificates, registry, entry>>
  BY <1>1, <1>5, EndKnows DEF Throw, registry
<1>6. QED
  BY <1>4, <1>5 DEF GenerateSelfSignedAuthority

LEMMA SignKnows ==
  ASSUME IInv, RInv, SignAuthority
  PROVE  RInv'
<1> DEFINE signer == caIndex[Authority.issuer]
           row == CertificateRow(Authority.subject, certificates[signer].subject,
                                 Authority.type, signer)
<1>1. /\ phase = "signing" /\ entry <= Len(config.authorities)
      /\ Authority.issuer \in DOMAIN caIndex
      /\ Authority.type \in {"CA", "INTERMEDIATE_CA"}
      /\ UNCHANGED <<config, mode, built>>
  BY DEF IInv, SigningAgrees, SignAuthority
<1>2. Authority \in Entry
  BY <1>1, EntryTyped DEF IInv
<1>3. certificates \in Seq(Row) /\ Len(certificates) + 1 \in Nat
  BY DEF IInv, TypeOK
<1>4. /\ certificates[signer].subject = Authority.issuer
      /\ signer \in Nat
  BY <1>1, <1>3 DEF IInv, RegistryAgrees, AuthorityIds
<1>5. /\ row \in Row
      /\ row.subject = Authority.subject /\ row.type = Authority.type
  BY <1>2, <1>4, RowTyped DEF Entry, CertificateRow
<1>6. CASE /\ certificates' = Append(certificates, row)
           /\ RegisterAuthority(Authority.subject, Authority.password,
                                Len(certificates) + 1)
           /\ entry' = entry + 1
           /\ phase' = "authorities"
           /\ NoFailure
           /\ UNCHANGED exit
  <2> HIDE DEF row, signer
  <2>1. Len(certificates) + 1 \in AuthorityIds(certificates', Authority.subject)
    BY <1>1, <1>3, <1>5, <1>6, AppendIds DEF AuthorityIds, AuthorityType
  <2>2. Grown(certificates, certificates')
    BY <1>3, <1>5, <1>6, StoredGrown
  <2>3. QED
    BY <1>1, <1>6, <2>1, <2>2, RegisteredKnows DEF NoFailure
<1>7. CASE Throw /\ UNCHANGED <<certificates, registry, entry>>
  BY <1>1, <1>7, EndKnows DEF Throw, registry
<1>8. QED
  BY <1>6, <1>7 DEF SignAuthority, SignedAuthority

(* The request for the certificate of a coherent authority.                 *)
LEMMA RequestKnows ==
  ASSUME IInv, RInv, RequestAuthority
  PROVE  RInv'
<1>1. /\ phase = "authorities" /\ mode = "initialize"
      /\ entry <= Len(config.authorities)
      /\ CoherentAuthority(Authority)
      /\ UNCHANGED <<certificates, registry, config, mode, entry, built>>
  BY DEF RequestAuthority, AtAuthority, CoherentAuthority, SelfSigned, SignedLocally
<1>2. CASE phase' = "signing" /\ NoFailure /\ UNCHANGED exit
  <2>1. Registry' = Registry /\ Authority' = Authority
    BY <1>1 DEF Registry, registry, Authority
  <2>2. Indexes(certificates, Registry)' /\ BuiltRight'
    BY <1>1, <2>1, NothingGrown, GrownBuilt DEF RInv
  <2>3. /\ AuthoritiesRead' = AuthoritiesRead
        /\ CertificatesRead' = CertificatesRead
    BY <1>1, <1>2 DEF AuthoritiesRead, CertificatesRead
  <2>4. ProcessKnows'
    BY <1>1, <1>2, <2>1, <2>3 DEF RInv, ProcessKnows, NoFailure
  <2>5. ProcessShape' /\ ProcessDecided'
    BY <1>1, <1>2, <2>1 DEF RInv, ProcessShape, ProcessDecided
  <2>6. QED
    BY <2>2, <2>4, <2>5 DEF RInv
<1>3. CASE Throw
  BY <1>1, <1>3, EndKnows DEF Throw, registry
<1>4. QED
  BY <1>2, <1>3 DEF RequestAuthority

(* An authority passed over, or one asked of the master's.                  *)
LEMMA SkipKnows ==
  ASSUME IInv, RInv, SkipAuthority \/ RequestAuthorityFromMaster
  PROVE  RInv'
<1>1. /\ phase = "authorities" /\ mode = "initialize"
      /\ entry <= Len(config.authorities)
      /\ UNCHANGED <<certificates, registry, config, mode, built>>
  BY DEF SkipAuthority, RequestAuthorityFromMaster, RequestFromMaster, AtAuthority,
         database, history
<1>2. CASE SkipAuthority
  <2>1. ~CoherentAuthority(Authority)
    BY <1>2 DEF SkipAuthority, CoherentAuthority, SelfSigned, SignedLocally
  <2>2. phase' = phase /\ entry' = entry + 1 /\ UNCHANGED <<exit, faulted>>
    BY <1>2 DEF SkipAuthority, history
  <2>3. QED
    BY <1>1, <2>1, <2>2, PassedKnows
<1>3. CASE RequestAuthorityFromMaster
  <2>1. \/ phase' = "down"
        \/ /\ faulted' = TRUE
           /\ entry' = entry + 1
           /\ UNCHANGED <<phase, exit>>
    BY <1>3 DEF RequestAuthorityFromMaster, RequestFromMaster, Throw, Fail
  <2>2. CASE phase' = "down"
    BY <1>1, <2>2, EndKnows DEF registry
  <2>3. QED
    BY <1>1, <2>1, <2>2, PassedKnows
<1>4. QED
  BY <1>2, <1>3

LEMMA LoadAuthorityKnows ==
  ASSUME IInv, RInv, LoadAuthority
  PROVE  RInv'
<1>1. /\ phase = "authorities" /\ entry <= Len(config.authorities)
      /\ entry' = entry + 1
      /\ UNCHANGED <<certificates, config, phase, mode, exit, faulted, built>>
  BY DEF LoadAuthority, AtAuthority, database, history
<1>2. PICK id \in AuthorityIds(certificates, Authority.subject) :
             RegisterAuthority(Authority.subject, Authority.password, id)
  BY DEF LoadAuthority
<1>3. Grown(certificates, certificates')
  BY <1>1, NothingGrown
<1>4. QED
  BY <1>1, <1>2, <1>3, RegisteredKnows

(* The ends of the loops: every entry was read.                             *)
LEMMA DoneKnows ==
  ASSUME IInv, RInv, AuthoritiesDone \/ CertificatesDone
  PROVE  RInv'
<1>1. /\ UNCHANGED <<certificates, registry, config, mode, exit, faulted, built>>
      /\ phase # "down"
  BY DEF AuthoritiesDone, CertificatesDone, database, history
<1>2. Registry' = Registry
  BY <1>1 DEF Registry, registry
<1>3. Indexes(certificates, Registry)' /\ BuiltRight'
  BY <1>1, <1>2, NothingGrown, GrownBuilt DEF RInv
<1>4. /\ AuthoritiesRead' = AuthoritiesRead
      /\ CertificatesRead' = CertificatesRead
      /\ ProcessShape' /\ ProcessDecided'
  <2>1. CASE AuthoritiesDone
    <3>1. /\ phase = "authorities" /\ phase' = "certificates"
          /\ entry > Len(config.authorities) /\ entry' = 1
      BY <2>1 DEF AuthoritiesDone
    <3>2. entry - 1 = Len(config.authorities)
      BY <3>1, Lists DEF IInv, RInv, ProcessShape
    <3>3. QED
      BY <1>1, <3>1, <3>2, Lists
      DEF IInv, RInv, ProcessShape, ProcessDecided, AuthoritiesRead, CertificatesRead
  <2>2. CASE CertificatesDone
    <3>1. /\ phase = "certificates" /\ phase' = "coherence"
          /\ entry > Len(config.certificates) /\ entry' = entry
      BY <2>2 DEF CertificatesDone
    <3>2. entry - 1 = Len(config.certificates)
      BY <3>1, Lists DEF IInv, RInv, ProcessShape
    <3>3. QED
      BY <1>1, <3>1, <3>2, Lists
      DEF IInv, RInv, ProcessShape, ProcessDecided, AuthoritiesRead, CertificatesRead
  <2>3. QED
    BY <2>1, <2>2
<1>5. ProcessKnows'
  BY <1>1, <1>2, <1>4 DEF RInv, ProcessKnows
<1>6. QED
  BY <1>3, <1>4, <1>5 DEF RInv

(* A certificate is stored; a signer's is registered under its issuer.      *)
LEMMA GenerateKnows ==
  ASSUME IInv, RInv, GenerateCertificate
  PROVE  RInv'
<1> DEFINE row(i) == CertificateRow(Certificate.subject, Certificate.issuer,
                                    Certificate.type, i)
<1>1. /\ Certificate \in Entry
      /\ Certificate.type \in {"CLIENT", "SERVER", "OCSP_SIGNING"}
      /\ phase = "certificates" /\ entry <= Len(config.certificates)
      /\ ~EntryRejected(Certificate)
      /\ UNCHANGED <<config, mode, built>>
  BY EntryTyped DEF IInv, GenerateCertificate, AtCertificate
<1>2. certificates \in Seq(Row) /\ Len(certificates) + 1 \in Nat
  BY DEF IInv, TypeOK
<1>3. CASE /\ \E i \in AuthorityIds(certificates, Certificate.issuer) :
                certificates' = Append(certificates, row(i))
           /\ IF Certificate.type = "OCSP_SIGNING"
              THEN RegisterOcsp(Certificate.issuer, Certificate.subject,
                                Certificate.password, Len(certificates) + 1)
              ELSE UNCHANGED registry
           /\ entry' = entry + 1
           /\ NoFailure
           /\ UNCHANGED <<phase, exit>>
  <2>1. PICK signer \in AuthorityIds(certificates, Certificate.issuer) :
               certificates' = Append(certificates, row(signer))
    BY <1>3
  <2>2. /\ row(signer) \in Row
        /\ row(signer).subject = Certificate.subject
        /\ row(signer).issuer = Certificate.issuer
        /\ row(signer).type = Certificate.type
    <3>1. signer \in Nat
      BY <1>2 DEF AuthorityIds
    <3>2. row(signer) \in Row
      BY <1>1, <3>1, RowTyped DEF Entry
    <3>3. QED
      BY <3>2 DEF CertificateRow
  <2> HIDE DEF row
  <2>3. Grown(certificates, certificates')
    BY <1>2, <2>1, <2>2, StoredGrown
  <2>4. UNCHANGED <<phase, exit, faulted>> /\ entry' = entry + 1
    BY <1>3 DEF NoFailure
  <2>5. CASE Certificate.type = "OCSP_SIGNING"
    <3>1. /\ Len(certificates) + 1
               \in CertificateIds(certificates', Certificate.subject)
          /\ certificates'[Len(certificates) + 1].issuer = Certificate.issuer
      BY <1>2, <2>1, <2>2, <2>5, AppendIds DEF CertificateIds, AuthorityType
    <3>2. Certificate.issuer \in Issuers(certificates', Certificate.subject)
      BY <3>1 DEF Issuers
    <3>3. RegisterOcsp(Certificate.issuer, Certificate.subject,
                       Certificate.password, Len(certificates) + 1)
      BY <1>3, <2>5
    <3>4. QED
      BY <1>1, <2>3, <2>4, <2>5, <3>1, <3>2, <3>3, SignerKnows DEF IsOcsp
  <2>6. CASE Certificate.type # "OCSP_SIGNING"
    BY <1>1, <1>3, <2>3, <2>4, <2>6, OtherKnows DEF IsOcsp
  <2>7. QED
    BY <2>5, <2>6
<1>4. CASE Throw /\ UNCHANGED <<certificates, registry, entry>>
  BY <1>1, <1>4, EndKnows DEF Throw, registry
<1>5. QED
  BY <1>3, <1>4 DEF GenerateCertificate

(* A certificate passed over, or one asked of the master's.                 *)
LEMMA SkipCertificateKnows ==
  ASSUME IInv, RInv, SkipCertificate \/ RequestCertificateFromMaster
  PROVE  RInv'
<1>1. /\ phase = "certificates" /\ mode = "initialize"
      /\ entry <= Len(config.certificates)
      /\ ~EntryRejected(Certificate)
      /\ UNCHANGED <<certificates, registry, config, mode, built>>
  BY DEF SkipCertificate, RequestCertificateFromMaster, RequestFromMaster,
         AtCertificate, database, history
<1>2. Grown(certificates, certificates')
  BY <1>1, NothingGrown
<1>3. CASE SkipCertificate
  <2>1. ~IsOcsp(Certificate)
    BY <1>3 DEF SkipCertificate, IsOcsp
  <2>2. phase' = phase /\ entry' = entry + 1 /\ UNCHANGED <<exit, faulted>>
    BY <1>3 DEF SkipCertificate, history
  <2>3. QED
    BY <1>1, <1>2, <2>1, <2>2, OtherKnows
<1>4. CASE RequestCertificateFromMaster
  <2>1. \/ phase' = "down"
        \/ /\ faulted' = TRUE
           /\ entry' = entry + 1
           /\ UNCHANGED <<phase, exit>>
    BY <1>4 DEF RequestCertificateFromMaster, RequestFromMaster, Throw, Fail
  <2>2. CASE phase' = "down"
    BY <1>1, <2>2, EndKnows DEF registry
  <2>3. QED
    BY <1>1, <1>2, <2>1, <2>2, OtherKnows
<1>5. QED
  BY <1>3, <1>4

LEMMA LoadOcspKnows ==
  ASSUME IInv, RInv, LoadOcsp
  PROVE  RInv'
<1>1. /\ phase = "certificates" /\ entry <= Len(config.certificates)
      /\ ~EntryRejected(Certificate)
      /\ entry' = entry + 1
      /\ UNCHANGED <<certificates, config, phase, mode, exit, faulted, built>>
  BY DEF LoadOcsp, AtCertificate, database, history
<1>2. Grown(certificates, certificates')
  BY <1>1, NothingGrown
<1>3. CASE ~IsOcsp(Certificate)
  <2>1. UNCHANGED registry
    BY <1>3 DEF LoadOcsp, IsOcsp
  <2>2. QED
    BY <1>1, <1>2, <1>3, <2>1, OtherKnows
<1>4. CASE IsOcsp(Certificate)
  <2>1. PICK id, c \in CertificateIds(certificates, Certificate.subject) :
               RegisterOcsp(certificates[c].issuer, Certificate.subject,
                            Certificate.password, id)
    BY <1>4 DEF LoadOcsp, IsOcsp
  <2>2. certificates[c].issuer \in Issuers(certificates', Certificate.subject)
    BY <1>1, <2>1 DEF Issuers
  <2>3. QED
    BY <1>1, <1>2, <1>4, <2>1, <2>2, SignerKnows
<1>5. QED
  BY <1>3, <1>4

(* The OCSP configuration is decided, or the start is refused.              *)
LEMMA CheckKnows ==
  ASSUME IInv, RInv, CheckOcsp
  PROVE  RInv'
<1>1. /\ phase = "coherence"
      /\ UNCHANGED <<certificates, caPassword, caIndex, ocspPassword, ocspIndex,
                     caOcsp, config, mode, entry, faulted, built>>
  BY DEF CheckOcsp, database, history
<1>2. CASE Throw
  BY <1>1, <1>2, EndKnows DEF Throw
<1>3. CASE ~Throw
  <2>1. /\ phase' = "publishing" /\ exit' = exit
        /\ NoOcsp \/ OcspCountMatches
    BY <1>3 DEF CheckOcsp
  <2>2. Indexes(certificates, Registry)' /\ BuiltRight'
    BY <1>1, NothingGrown, GrownBuilt DEF RInv, Indexes, Registry
  <2>3. AuthoritiesRead' = AuthoritiesRead /\ CertificatesRead' = CertificatesRead
    BY <1>1, <2>1 DEF AuthoritiesRead, CertificatesRead
  <2>4. ProcessKnows'
    BY <1>1, <2>1, <2>3 DEF RInv, ProcessKnows, Knows, Registry
  <2>5. ProcessShape'
    BY <1>1, <2>1 DEF RInv, ProcessShape
  <2>6. ProcessDecided'
    <3>1. /\ HasOcsp(Registry)' <=> ~NoOcsp
          /\ CountMatches(Registry)' <=> OcspCountMatches
      BY <1>1 DEF HasOcsp, CountMatches, Registry, NoOcsp, OcspCountMatches
    <3>2. Registry.ocspOnline' = (~NoOcsp /\ OcspCountMatches)
      BY DEF CheckOcsp, Registry
    <3>3. OcspDecided(Registry)'
      BY <2>1, <3>1, <3>2, Zenon DEF OcspDecided
    <3>4. QED
      BY <3>3 DEF ProcessDecided
  <2>7. QED
    BY <2>2, <2>4, <2>5, <2>6 DEF RInv
<1>4. QED
  BY <1>2, <1>3

(* The server serves; what an initialisation without a failure built is     *)
(* what this process knows.                                                 *)
LEMMA PublishKnows ==
  ASSUME IInv, RInv, PublishRevocationLists
  PROVE  RInv'
<1>1. /\ phase = "publishing" /\ phase' = "serving"
      /\ UNCHANGED <<certificates, registry, config, mode, entry, exit>>
      /\ ~faulted' => ~faulted
  BY DEF PublishRevocationLists, database, NoFailure, Fail
<1>2. Registry' = Registry
  BY <1>1 DEF Registry, registry
<1>3. /\ AuthoritiesRead = Len(config.authorities)
      /\ AuthoritiesRead' = Len(config.authorities)
      /\ CertificatesRead = Len(config.certificates)
      /\ CertificatesRead' = Len(config.certificates)
  BY <1>1 DEF AuthoritiesRead, CertificatesRead
<1>4. Indexes(certificates, Registry)'
  BY <1>1, <1>2 DEF RInv
<1>5. ProcessKnows'
  BY <1>1, <1>2, <1>3 DEF RInv, ProcessKnows
<1>6. ProcessShape' /\ ProcessDecided'
  BY <1>1, <1>2 DEF RInv, ProcessShape, ProcessDecided
<1>7. BuiltRight'
  <2>1. CASE built' = built
    BY <1>1, <2>1, NothingGrown, GrownBuilt DEF RInv
  <2>2. CASE /\ ~faulted
             /\ built' = {[config |-> config, registry |-> Registry]}
    <3>1. /\ Indexes(certificates, Registry)
          /\ Knows(certificates, Registry, config,
                   Len(config.authorities), Len(config.certificates))
          /\ OcspDecided(Registry)
      BY <1>1, <1>3, <2>2 DEF RInv, ProcessKnows, ProcessDecided
    <3>2. Registry = [caPassword |-> Registry.caPassword,
                      caIndex |-> Registry.caIndex,
                      ocspPassword |-> Registry.ocspPassword,
                      ocspIndex |-> Registry.ocspIndex,
                      caOcsp |-> Registry.caOcsp,
                      ocspOnline |-> Registry.ocspOnline]
      BY DEF Registry
    <3> DEFINE b == [config |-> config, registry |-> Registry]
    <3>3. b.config = config /\ b.registry = Registry
      OBVIOUS
    <3> HIDE DEF b
    <3>4. /\ b = [config |-> b.config, registry |-> b.registry]
          /\ Indexes(certificates', b.registry)
          /\ Knows(certificates', b.registry, b.config,
                   Len(b.config.authorities), Len(b.config.certificates))
          /\ OcspDecided(b.registry)
      <4>1. b = [config |-> b.config, registry |-> b.registry]
        BY <3>3 DEF b
      <4>2. QED
        BY <1>1, <3>1, <3>3, <4>1
    <3>5. \A x \in built' : x = b
      BY <2>2 DEF b
    <3>6. QED
      BY <3>2, <3>3, <3>4, <3>5, Zenon DEF BuiltRight
  <2>3. QED
    BY <2>1, <2>2 DEF PublishRevocationLists
<1>8. QED
  BY <1>4, <1>5, <1>6, <1>7 DEF RInv

-----------------------------------------------------------------------------
(* The inductive invariant.                                                 *)

LEMMA InitRInv == Init => RInv
<1> SUFFICES ASSUME Init PROVE RInv
  OBVIOUS
<1>1. Indexes(certificates, Registry)
  BY DEF Init, Indexes, Registry, IsMap, EmptyMap
<1>2. phase = "down" /\ built = {}
  BY DEF Init
<1>3. QED
  BY <1>1, <1>2 DEF RInv, ProcessShape, ProcessKnows, ProcessDecided, BuiltRight

LEMMA NextRInv == IInv /\ RInv /\ [Next]_startupVars => RInv'
<1> SUFFICES ASSUME IInv, RInv, [Next]_startupVars PROVE RInv'
  OBVIOUS
<1>1. CASE Next
  BY <1>1, OperatorKnows, InitializeKnows, ThrowKnows, SelfSignedKnows, SignKnows,
     RequestKnows, SkipKnows, LoadAuthorityKnows, DoneKnows, GenerateKnows,
     SkipCertificateKnows, LoadOcspKnows, CheckKnows, PublishKnows
  DEF Next, Configure
<1>2. CASE UNCHANGED startupVars
  <2>1. /\ Registry' = Registry /\ Authority' = Authority
        /\ AuthoritiesRead' = AuthoritiesRead
        /\ CertificatesRead' = CertificatesRead
    BY <1>2 DEF startupVars, registry, Registry, Authority, AuthoritiesRead,
                CertificatesRead
  <2>2. UNCHANGED <<certificates, config, phase, mode, entry, exit, faulted, built>>
    BY <1>2 DEF startupVars, database, history
  <2>3. QED
    BY <2>1, <2>2
    DEF RInv, ProcessShape, ProcessKnows, ProcessDecided, BuiltRight
<1>3. QED
  BY <1>1, <1>2

(* What a process knows, prefix by prefix, and what an initialisation built.*)
THEOREM KnowledgeInvariant == Spec => [](IInv /\ RInv)
<1>1. Init => IInv /\ RInv
  BY InitIInv, InitRInv
<1>2. IInv /\ RInv /\ [Next]_startupVars => (IInv /\ RInv)'
  BY NextIInv, NextRInv
<1>3. QED
  BY <1>1, <1>2, PTL DEF Spec

(* A serving server knows what its configuration lists and nothing else.    *)
THEOREM RegistryComplete == Spec => []RegistryMatchesConfiguration
<1>1. IInv /\ RInv => RegistryMatchesConfiguration
  <2> SUFFICES ASSUME IInv, RInv, phase = "serving", ~faulted
               PROVE  RegistryMatchesConfiguration
    BY DEF RegistryMatchesConfiguration
  <2>1. Knows(certificates, Registry, config,
              Len(config.authorities), Len(config.certificates))
    BY DEF RInv, ProcessKnows, AuthoritiesRead, CertificatesRead
  <2>2. /\ DOMAIN config.authorities = 1 .. Len(config.authorities)
        /\ DOMAIN config.certificates = 1 .. Len(config.certificates)
    BY ConfigurationsAssumption DEF IInv, TypeOK, Configuration
  <2>3. KnowsAuthorities(caPassword, config, Len(config.authorities))
    BY <2>1 DEF Knows, Registry
  <2>4. KnowsSigners(ocspPassword, config, Len(config.certificates))
    BY <2>1 DEF Knows, Registry
  <2>5. /\ \A k \in DOMAIN config.authorities :
             CoherentAuthority(config.authorities[k])
               => config.authorities[k].subject \in DOMAIN caPassword
        /\ \A n \in DOMAIN caPassword : \E k \in DOMAIN config.authorities :
             /\ config.authorities[k].subject = n
             /\ config.authorities[k].password = caPassword[n]
    BY <2>2, <2>3, Zenon DEF KnowsAuthorities
  <2>6. \A k \in DOMAIN config.certificates :
          config.certificates[k].type = "OCSP_SIGNING"
            => config.certificates[k].subject \in DOMAIN ocspPassword
    BY <2>2, <2>4 DEF KnowsSigners, IsOcsp
  <2>7. \A n \in DOMAIN ocspPassword : \E k \in DOMAIN config.certificates :
          /\ config.certificates[k].type = "OCSP_SIGNING"
          /\ config.certificates[k].subject = n
    BY <2>2, <2>4, Zenon DEF KnowsSigners, IsOcsp
  <2>8. QED
    BY <2>5, <2>6, <2>7 DEF RegistryMatchesConfiguration
<1>2. QED
  BY <1>1, KnowledgeInvariant, PTL

-----------------------------------------------------------------------------
(* Two registries that know one configuration.                             *)

(* Of coherent authorities every one is known.                              *)
LEMMA SameAuthorityNames ==
  ASSUME NEW f, NEW g, NEW c, NEW n,
         KnowsAuthorities(f, c, n), KnowsAuthorities(g, c, n),
         \A k \in 1 .. n : CoherentAuthority(c.authorities[k])
  PROVE  DOMAIN f = DOMAIN g
  BY DEF KnowsAuthorities

LEMMA SameAuthorities ==
  ASSUME NEW f, NEW g, NEW c, NEW n, IsMap(f), IsMap(g),
         KnowsAuthorities(f, c, n), KnowsAuthorities(g, c, n),
         \A k \in 1 .. n : CoherentAuthority(c.authorities[k])
  PROVE  f = g
<1>1. DOMAIN f = DOMAIN g
  BY SameAuthorityNames
<1>2. ASSUME NEW m \in DOMAIN f
      PROVE  f[m] = g[m]
  <2>1. PICK k \in 1 .. n :
           /\ c.authorities[k].subject = m
           /\ c.authorities[k].password = f[m]
           /\ \A j \in 1 .. k - 1 : CoherentAuthority(c.authorities[j])
                                      => c.authorities[j].subject # m
    BY DEF KnowsAuthorities
  <2>2. PICK l \in 1 .. n :
           /\ c.authorities[l].subject = m
           /\ c.authorities[l].password = g[m]
           /\ \A j \in 1 .. l - 1 : CoherentAuthority(c.authorities[j])
                                      => c.authorities[j].subject # m
    BY <1>1 DEF KnowsAuthorities
  <2>3. k = l \/ k \in 1 .. l - 1 \/ l \in 1 .. k - 1
    OBVIOUS
  <2>4. QED
    BY <2>1, <2>2, <2>3, Zenon
<1>3. QED
  BY <1>1, <1>2 DEF IsMap

LEMMA SameSignerNames ==
  ASSUME NEW f, NEW g, NEW c, NEW n, KnowsSigners(f, c, n), KnowsSigners(g, c, n)
  PROVE  DOMAIN f = DOMAIN g
<1>1. ASSUME NEW x, NEW y, KnowsSigners(x, c, n), KnowsSigners(y, c, n),
             NEW m \in DOMAIN x
      PROVE  m \in DOMAIN y
  <2>1. PICK k \in 1 .. n : /\ IsOcsp(c.certificates[k])
                            /\ c.certificates[k].subject = m
    BY <1>1 DEF KnowsSigners
  <2>2. QED
    BY <1>1, <2>1 DEF KnowsSigners
<1>2. DOMAIN f \subseteq DOMAIN g
  BY <1>1
<1>3. DOMAIN g \subseteq DOMAIN f
  BY <1>1
<1>4. QED
  BY <1>2, <1>3

LEMMA SameSigners ==
  ASSUME NEW f, NEW g, NEW c, NEW n, IsMap(f), IsMap(g),
         KnowsSigners(f, c, n), KnowsSigners(g, c, n)
  PROVE  f = g
<1>1. DOMAIN f = DOMAIN g
  BY SameSignerNames
<1>2. ASSUME NEW m \in DOMAIN f
      PROVE  f[m] = g[m]
  <2>1. PICK k \in 1 .. n :
           /\ IsOcsp(c.certificates[k])
           /\ c.certificates[k].subject = m
           /\ c.certificates[k].password = f[m]
           /\ \A j \in 1 .. k - 1 : IsOcsp(c.certificates[j])
                                      => c.certificates[j].subject # m
    BY DEF KnowsSigners
  <2>2. PICK l \in 1 .. n :
           /\ IsOcsp(c.certificates[l])
           /\ c.certificates[l].subject = m
           /\ c.certificates[l].password = g[m]
           /\ \A j \in 1 .. l - 1 : IsOcsp(c.certificates[j])
                                      => c.certificates[j].subject # m
    BY <1>1 DEF KnowsSigners
  <2>3. k = l \/ k \in 1 .. l - 1 \/ l \in 1 .. k - 1
    OBVIOUS
  <2>4. QED
    BY <2>1, <2>2, <2>3, Zenon
<1>3. QED
  BY <1>1, <1>2 DEF IsMap

(* The relation, when no two rows of a name give different issuers.         *)
LEMMA SameRelation ==
  ASSUME NEW t, NEW f, NEW g, NEW c, NEW n, IsMap(f), IsMap(g),
         Relates(t, f, c, n), Relates(t, g, c, n),
         \A name : \A i, j \in Issuers(t, name) : i = j
  PROVE  f = g
<1>1. DOMAIN f = DOMAIN g
  <2>1. ASSUME NEW x, NEW y, Relates(t, x, c, n), Relates(t, y, c, n),
               NEW m \in DOMAIN x
        PROVE  m \in DOMAIN y
    <3>1. PICK k \in 1 .. n : /\ IsOcsp(c.certificates[k])
                              /\ m \in Issuers(t, c.certificates[k].subject)
      BY <2>1 DEF Relates
    <3>2. PICK i \in Issuers(t, c.certificates[k].subject) : i \in DOMAIN y
      BY <2>1, <3>1 DEF Relates
    <3>3. QED
      BY <3>1, <3>2, Zenon
  <2>2. DOMAIN f \subseteq DOMAIN g
    BY <2>1
  <2>3. DOMAIN g \subseteq DOMAIN f
    BY <2>1
  <2>4. QED
    BY <2>2, <2>3
<1>2. ASSUME NEW m \in DOMAIN f
      PROVE  f[m] = g[m]
  <2>1. PICK k \in 1 .. n :
           /\ IsOcsp(c.certificates[k])
           /\ m \in Issuers(t, c.certificates[k].subject)
           /\ f[m] = c.certificates[k].subject
           /\ \A j \in 1 .. k - 1 : IsOcsp(c.certificates[j])
                => \E i \in Issuers(t, c.certificates[j].subject) : i # m
    BY DEF Relates
  <2>2. PICK l \in 1 .. n :
           /\ IsOcsp(c.certificates[l])
           /\ m \in Issuers(t, c.certificates[l].subject)
           /\ g[m] = c.certificates[l].subject
           /\ \A j \in 1 .. l - 1 : IsOcsp(c.certificates[j])
                => \E i \in Issuers(t, c.certificates[j].subject) : i # m
    BY <1>1 DEF Relates
  <2>3. k = l \/ k \in 1 .. l - 1 \/ l \in 1 .. k - 1
    OBVIOUS
  <2>4. QED
    BY <2>1, <2>2, <2>3, Zenon
<1>3. QED
  BY <1>1, <1>2 DEF IsMap

(* The indexes, when no two rows share a name.                              *)
LEMMA SameIndexes ==
  ASSUME DistinctSubjects, NEW r, NEW s,
         Indexes(certificates, r), Indexes(certificates, s),
         DOMAIN r.caPassword = DOMAIN s.caPassword,
         DOMAIN r.ocspPassword = DOMAIN s.ocspPassword
  PROVE  r.caIndex = s.caIndex /\ r.ocspIndex = s.ocspIndex
<1>1. /\ DOMAIN r.caIndex = DOMAIN s.caIndex
      /\ DOMAIN r.ocspIndex = DOMAIN s.ocspIndex
  BY DEF Indexes
<1>2. \A m \in DOMAIN r.caIndex : r.caIndex[m] = s.caIndex[m]
  BY <1>1 DEF Indexes, AuthorityIds, DistinctSubjects
<1>3. \A m \in DOMAIN r.ocspIndex : r.ocspIndex[m] = s.ocspIndex[m]
  BY <1>1 DEF Indexes, CertificateIds, DistinctSubjects
<1>4. /\ IsMap(r.caIndex) /\ IsMap(s.caIndex)
      /\ IsMap(r.ocspIndex) /\ IsMap(s.ocspIndex)
  BY DEF Indexes
<1>5. QED
  BY <1>1, <1>2, <1>3, <1>4 DEF IsMap

(* A reload restores the registry of the initialisation.                    *)
THEOREM ReloadCorrect == Spec => []ReloadRestoresRegistry
<1>1. IInv /\ RInv => ReloadRestoresRegistry
  <2> SUFFICES ASSUME IInv, RInv, phase = "serving", mode = "load",
                      DistinctSubjects, NEW b \in built,
                      b.config = config, CoherentAuthorities(config)
               PROVE  b.registry = Registry
    BY DEF ReloadRestoresRegistry
  <2> DEFINE r == b.registry
             n == Len(config.authorities)
             l == Len(config.certificates)
  <2>1. Knows(certificates, Registry, config, n, l) /\ OcspDecided(Registry)
    BY DEF RInv, ProcessKnows, ProcessDecided, AuthoritiesRead, CertificatesRead
  <2>2. Indexes(certificates, Registry)
    BY DEF RInv
  <2>3. /\ Knows(certificates, r, config, n, l) /\ OcspDecided(r)
        /\ Indexes(certificates, r)
    BY DEF RInv, BuiltRight
  <2>4. r = [caPassword |-> r.caPassword, caIndex |-> r.caIndex,
             ocspPassword |-> r.ocspPassword, ocspIndex |-> r.ocspIndex,
             caOcsp |-> r.caOcsp, ocspOnline |-> r.ocspOnline]
    BY DEF RInv, BuiltRight
  <2>5. \A k \in 1 .. n : CoherentAuthority(config.authorities[k])
    BY ConfigurationsAssumption DEF IInv, TypeOK, Configuration, CoherentAuthorities
  <2>6. \A name : \A i, j \in Issuers(certificates, name) : i = j
    BY DEF DistinctSubjects, Issuers, CertificateIds
  <2> HIDE DEF r, n, l
  <2>7. r.caPassword = Registry.caPassword
    BY <2>1, <2>2, <2>3, <2>5, SameAuthorities DEF Knows, Indexes
  <2>8. r.ocspPassword = Registry.ocspPassword
    BY <2>1, <2>2, <2>3, SameSigners DEF Knows, Indexes
  <2>9. r.caOcsp = Registry.caOcsp
    BY <2>1, <2>2, <2>3, <2>6, SameRelation DEF Knows, Indexes
  <2>10. r.caIndex = Registry.caIndex /\ r.ocspIndex = Registry.ocspIndex
    BY <2>2, <2>3, <2>7, <2>8, SameIndexes
  <2>11. r.ocspOnline = Registry.ocspOnline
    <3>1. r.ocspOnline <=> Registry.ocspOnline
      <4>1. /\ HasOcsp(r) <=> HasOcsp(Registry)
            /\ CountMatches(r) <=> CountMatches(Registry)
        BY <2>7, <2>8, <2>9, <2>10, Zenon DEF HasOcsp, CountMatches
      <4>2. QED
        BY <4>1, <2>1, <2>3, Zenon DEF OcspDecided
    <3>2. r.ocspOnline \in BOOLEAN /\ Registry.ocspOnline \in BOOLEAN
      BY <2>1, <2>3, Zenon DEF OcspDecided
    <3>3. QED
      BY <3>1, <3>2
  <2>12. r = Registry
    <3>1. Registry = [caPassword |-> Registry.caPassword,
                      caIndex |-> Registry.caIndex,
                      ocspPassword |-> Registry.ocspPassword,
                      ocspIndex |-> Registry.ocspIndex,
                      caOcsp |-> Registry.caOcsp,
                      ocspOnline |-> Registry.ocspOnline]
      BY DEF Registry
    <3>2. QED
      BY <2>4, <2>7, <2>8, <2>9, <2>10, <2>11, <3>1, Zenon
  <2>13. QED
    BY <2>12 DEF r
<1>2. QED
  BY <1>1, KnowledgeInvariant, PTL

(* The registry a process has, where an initialisation of the same coherent *)
(* configuration ended: the same names.                                     *)
LEMMA BuiltAccepts ==
  ASSUME IInv, RInv, NEW b \in built, b.config = config,
         CoherentAuthorities(config)
  PROVE  /\ \A k \in 1 .. Len(config.authorities) :
              /\ CoherentAuthority(config.authorities[k])
              /\ AuthorityIds(certificates, config.authorities[k].subject) # {}
         /\ \A k \in 1 .. Len(config.certificates) :
              /\ ~EntryRejected(config.certificates[k])
              /\ IsOcsp(config.certificates[k])
                   => CertificateIds(certificates, config.certificates[k].subject) # {}
         /\ \A r : Indexes(certificates, r)
                     /\ Knows(certificates, r, config, Len(config.authorities),
                              Len(config.certificates))
                   => (HasOcsp(r) => CountMatches(r))
<1> DEFINE q == b.registry
           n == Len(config.authorities)
           l == Len(config.certificates)
<1>1. /\ Knows(certificates, q, config, n, l) /\ OcspDecided(q)
      /\ Indexes(certificates, q)
  BY DEF RInv, BuiltRight
<1>2. \A k \in 1 .. n : CoherentAuthority(config.authorities[k])
  BY ConfigurationsAssumption DEF IInv, TypeOK, Configuration, CoherentAuthorities
<1> HIDE DEF q, n, l
<1>3. /\ KnowsAuthorities(q.caPassword, config, n)
      /\ KnowsSigners(q.ocspPassword, config, l)
      /\ Relates(certificates, q.caOcsp, config, l)
      /\ CertificatesAccepted(config, l)
  BY <1>1 DEF Knows
<1>4. ASSUME NEW k \in 1 .. n
      PROVE  AuthorityIds(certificates, config.authorities[k].subject) # {}
  <2>1. config.authorities[k].subject \in DOMAIN q.caIndex
    BY <1>1, <1>2, <1>3 DEF KnowsAuthorities, Indexes
  <2>2. QED
    BY <1>1, <2>1 DEF Indexes
<1>5. ASSUME NEW k \in 1 .. l, IsOcsp(config.certificates[k])
      PROVE  CertificateIds(certificates, config.certificates[k].subject) # {}
  <2>1. config.certificates[k].subject \in DOMAIN q.ocspIndex
    BY <1>1, <1>3, <1>5 DEF KnowsSigners, Indexes
  <2>2. QED
    BY <1>1, <2>1 DEF Indexes
<1>6. ASSUME NEW r, Indexes(certificates, r), Knows(certificates, r, config, n, l),
             HasOcsp(r)
      PROVE  CountMatches(r)
  <2>1. /\ DOMAIN r.caPassword = DOMAIN q.caPassword
        /\ DOMAIN r.ocspPassword = DOMAIN q.ocspPassword
    BY <1>2, <1>3, <1>6, SameAuthorityNames, SameSignerNames DEF Knows
  <2>2. HasOcsp(q)
    <3>1. /\ DOMAIN r.ocspPassword # {}
          /\ DOMAIN q.ocspPassword = DOMAIN q.ocspIndex
      BY <1>1, <1>6 DEF HasOcsp, Indexes
    <3>2. PICK s \in DOMAIN q.ocspPassword : TRUE
      BY <2>1, <3>1
    <3>3. PICK k \in 1 .. l : IsOcsp(config.certificates[k])
      BY <1>3, <3>2 DEF KnowsSigners
    <3>4. DOMAIN q.caOcsp # {}
      BY <1>3, <3>3 DEF Relates
    <3>5. QED
      BY <2>1, <3>1, <3>4 DEF HasOcsp
  <2>3. CountMatches(q)
    BY <1>1, <2>2 DEF OcspDecided
  <2>4. QED
    BY <2>1, <2>3 DEF CountMatches
<1>7. \A k \in 1 .. l : ~EntryRejected(config.certificates[k])
  BY <1>3 DEF CertificatesAccepted
<1>8. \A r : Indexes(certificates, r) /\ Knows(certificates, r, config, n, l)
               => (HasOcsp(r) => CountMatches(r))
  BY <1>6
<1>9. QED
  BY <1>2, <1>4, <1>5, <1>7, <1>8, Zenon DEF n, l

(* A load refuses nothing that an initialisation of the same coherent       *)
(* configuration accepted.                                                  *)
THEOREM ReloadNeverRefused == Spec => ReloadAccepted
<1> DEFINE Step == phase # "down" /\ exit' = "exception" /\ mode = "load" /\ ~faulted'
                     => \A b \in built : b.config = config
                                           => ~CoherentAuthorities(config)
<1>1. IInv /\ RInv /\ [Next]_startupVars => [Step]_startupVars
  <2> SUFFICES ASSUME IInv, RInv, Next, phase # "down", exit' = "exception",
                      mode = "load", ~faulted', NEW b \in built,
                      b.config = config, CoherentAuthorities(config)
               PROVE  FALSE
    BY DEF startupVars
  <2>1. exit = "none" /\ phase \notin {"initializing", "signing"}
    BY DEF RInv, ProcessShape
  <2>2. LoadAuthorityThrows \/ LoadOcspThrows \/ CheckOcsp
    <3> USE <2>1 DEF AtAuthority, AtCertificate, database, registry, history
    <3>1. ~(\E m \in {"initialize", "load"} : Start(m)) /\ ~EditConfiguration /\ ~Crash
      BY DEF Start, EditConfiguration, Crash
    <3>2. /\ ~InitializeDatabase /\ ~RejectAuthority /\ ~GenerateSelfSignedAuthority
          /\ ~SkipAuthority /\ ~RequestAuthority /\ ~SignAuthority
          /\ ~RequestAuthorityFromMaster /\ ~RejectCertificate /\ ~SkipCertificate
          /\ ~GenerateCertificate /\ ~RequestCertificateFromMaster
      BY DEF InitializeDatabase, RejectAuthority, GenerateSelfSignedAuthority,
             SkipAuthority, RequestAuthority, SignAuthority,
             RequestAuthorityFromMaster, RejectCertificate, SkipCertificate,
             GenerateCertificate, RequestCertificateFromMaster
    <3>3. /\ ~LoadAuthority /\ ~AuthoritiesDone /\ ~LoadOcsp /\ ~CertificatesDone
          /\ ~PublishRevocationLists
      BY DEF LoadAuthority, AuthoritiesDone, LoadOcsp, CertificatesDone,
             PublishRevocationLists
    <3>4. QED
      BY <3>1, <3>2, <3>3 DEF Next, Configure
  <2>3. CASE LoadAuthorityThrows
    <3>1. /\ entry \in 1 .. Len(config.authorities)
          /\ \/ ~AuthorityLoadable(Authority)
             \/ AuthorityIds(certificates, Authority.subject) = {}
      BY <2>3, Lists DEF IInv, LoadAuthorityThrows, AtAuthority, Fail
    <3>2. /\ CoherentAuthority(Authority)
          /\ AuthorityIds(certificates, Authority.subject) # {}
      BY <3>1, BuiltAccepts DEF Authority
    <3>3. QED
      BY <3>1, <3>2 DEF CoherentAuthority, Accepted, AuthorityLoadable, AuthorityType
  <2>4. CASE LoadOcspThrows
    <3>1. /\ entry \in 1 .. Len(config.certificates)
          /\ \/ EntryRejected(Certificate)
             \/ /\ IsOcsp(Certificate)
                /\ CertificateIds(certificates, Certificate.subject) = {}
      BY <2>4, Lists DEF IInv, LoadOcspThrows, AtCertificate, Fail, IsOcsp
    <3>2. QED
      BY <3>1, BuiltAccepts DEF Certificate
  <2>5. CASE CheckOcsp
    <3>1. phase = "coherence" /\ ~NoOcsp /\ ~OcspCountMatches
      BY <2>1, <2>5 DEF CheckOcsp
    <3>2. HasOcsp(Registry) /\ ~CountMatches(Registry)
      BY <3>1 DEF HasOcsp, CountMatches, Registry, NoOcsp, OcspCountMatches
    <3>3. Knows(certificates, Registry, config,
                Len(config.authorities), Len(config.certificates))
      BY <3>1 DEF RInv, ProcessKnows, AuthoritiesRead, CertificatesRead
    <3>4. QED
      BY <3>2, <3>3, BuiltAccepts DEF RInv
  <2>6. QED
    BY <2>2, <2>3, <2>4, <2>5
<1>2. QED
  BY <1>1, KnowledgeInvariant, PTL DEF Spec, ReloadAccepted
=============================================================================
