# A TLA+ model of mirrored-PKIPCS

The repository holds two prototypes and their libraries: a public key infrastructure (a
*certificate store server* over a database, in `pki-openssl-version`) and a private credential
scheme over pairings (`pcs-*-version`). This directory holds TLA+ specifications of its core,
TLC configurations that model-check them on small instances, and proofs that TLAPS checks for
every value of the constants.

`certificateStoreServer.cpp` is abbreviated `cSS.cpp` below.

## 1. The system

### Components

| Component | State it keeps | Operations | Interacts with |
|---|---|---|---|
| **certificate store server, startup** (`cSS.cpp` 61-462, 1451-1525) | maps name -> password and name -> database index of the authorities and of the OCSP signers, authority -> signer, OCSP flag | initialise the database and generate the configured authorities and certificates, or load them; check OCSP; write the revocation lists; serve | database (every step is durable), `<name>.crl.pem` files, master store |
| **certificate store server, end points** (`cSS.cpp` 486-1449) | nothing of its own: it reads the maps and works on database and files | issue (POST `/certificateRequest`), revoke (POST `/certificateRevocationList`), verify (POST `/verifyCertificate`), listings, master's chains and lists, OCSP, default page | https server (one handler per connection, in threads), database, files, master store |
| **server configured from XML** (`certificateStoreServerFromXml.cpp`, `.h`) | a configured variant of the first | the same startup with another failure policy, and a real POST to the master whose certificates it stores and registers | the same |
| **worker** (`worker/`) | queue, mutex, condition variable, thread and timer thread, `m_timerExit` | `createThread`, `postMessage`, `exitThread`, destructor | its owner, its callers, its timer |
| **database clients** (`database/`) | connection options, connection | configure, open, queries | PostgreSQL through ODB |
| **certificate, authentication, authorised certificates** (`utilities/security`, `utilities/xml`) | records filled from XML; extensions by certificate type | setters, getters | server, database |
| **utilities** | none (a static flag in `genericFromXml`) | files, clocks, regular expressions, identifiers | all |
| **BSON parser** (`parser/bson`) | the file (static), document boundaries, tokens | `parseData`, one `parse` per token type | none |
| **C++ tokeniser** (`parser/cpp`) | the stream, the token list | `parse_tokens`, one `parse_token` per class | none |
| **private credential scheme** (`pcs-*-version`) | keys, credential, presentation; two globals for self-checks | setup, key generation, issue, obtain, show, verify; the programs over pbc and mcl: one `main` each, from setup to inspection | mcl, tepla or pbc |
| vendored XML parser, `transcode`, configuration samples, schemas, build files | - | - | - |

### What is hard in it

*Startup.* A start is a long sequence of durable steps that can stop anywhere: an exception
leaves a `noexcept` function, the process is killed, a database call fails. The next start, in
either mode and with a configuration an operator has edited meanwhile, works on what the last one
left. Five maps are kept in step by hand and index one another with `operator[]`, which makes an
entry of index 0 where none is. What one mode passes over without an error the other throws for.

*End points.* Handlers run in several threads without a lock: they interleave at every call to
the database and to a file. A revocation is two steps, the row and the list file. A verification
reads the authorities, then their lists one by one, while others rewrite them. A request has
several elements; a failure in the middle keeps the first ones. An exception in a handler
without a `try`, and a null answer of the master, end the process with every request in flight.

*Worker.* Three threads and the owner share a queue; the exit message travels through the same
queue as data; the worker joins its timer, which needs the worker's mutex, while the owner joins
the worker.

*The rest* is sequential. Its hazards are of sequences of legal calls (a connection string that
every opening appends to, a list that copies of a client share, an extension that a second type
does not replace, a global that accumulates over shows), of stale state (a token pushed twice, a
static buffer) and numeric (a nested document parsed from the wrong offset, a character dropped
after a comment, random exponents that are zero or coincide). All are listed in `PROJECT.json`.

### What makes each component correct

- startup: the maps agree with each other and with the database; a certificate's signer is the
  authority its issuer names; a serving server knows what its configuration lists; a reload
  restores what the initialisation built; a start ends;
- end points: an answer lists what the request asked for; a revocation reaches the list of its
  issuer; the lists hold nothing else; a verification honours a revocation that was published
  before it was asked, and does not refuse what was not revoked; every request is answered;
- worker: messages are handled once, in order, up to the exit message; no wakeup is lost; exiting
  returns; no thread outlives the object;
- server configured from XML: the same, as far as a master that issues lets it be;
- database client: an opening connects with the settings of now, not of an earlier opening; a
  verified host stays the one that was verified first;
- certificate extensions: what an entry is configured with counts before what its type brings, and
  a certificate carries no other address than the one its server means it to;
- credential scheme: what an honest issuer issues an honest user obtains and can show, more than
  once, and nobody else can; what is shown opens to what was signed;
- parsers: the tokens spell the input, each byte once, and every run ends.

## 2. The modules

| Module | Models | Composes |
|---|---|---|
| `CertificateStoreTypes` | certificate types, configuration entries, database rows, `std::map::insert`, lookups by name | - |
| `CertificateStoreStartup` | `configureCertificateStore` and everything it calls, across restarts | extends `CertificateStoreTypes` |
| `CertificateStoreServer` | the whole life of a server: the startup and the end points it registers | extends `CertificateStoreStartup`; its next-state relation contains the startup's |
| `Mailbox` | abstract: what `worker.h` promises | - |
| `Worker` | the worker's threads | instantiates `Mailbox` with a refinement mapping |
| `CertificateStoreServerFromXml` | the start of the server configured from XML, with a master that answers | extends `CertificateStoreStartup`, whose state and unchanged steps it uses |
| `CppTokenizer` | `parser/cpp`: `parse_tokens`, a `parse_token` per class, `print_tokens` | - |
| `BsonParser` | `parser/bson`: cutting a file, a token per element, printing | - |
| `DatabaseClient` | the PostgreSQL client's settings, openings, copies, shared lists, shutdown | - |
| `CertificateExtensions` | `utilities/security/certificate.cpp` and the two servers' extensions | - |
| `Scalars` | external: the exponents of the pairing groups | - |
| `PrivateCredential` | the scheme of `mclUtilities.cpp` and `mainMcl.cpp` | extends `Scalars` |
| `CredentialPrograms` | the programs over pbc and mcl | extends `Scalars` |
| `CertificateStoreStartupProofs` | theorems: types, registry and issuance of the startup | extends `CertificateStoreStartup` |
| `CertificateStoreReloadProofs` | theorems: what a serving server knows, and what a reload restores and accepts | extends `CertificateStoreStartupProofs` |
| `CertificateStoreServerProofs` | theorems: issuance, lists, revocations, VALID; types of the handlers, answers, NOT VALID | extends `CertificateStoreServer` and the startup's proofs |
| `CertificateStoreServerFromXmlProofs` | theorems about the server configured from XML | extends `CertificateStoreServerFromXml` and the startup's proofs |
| `WorkerProofs` | theorems: wakeups, the timer, the order of messages, the mailbox | extends `Worker` |
| `PrivateCredentialProofs` | theorems about the scheme | extends `PrivateCredential` |
| `ProgramsProofs` | theorems about extensions, database clients and the programs over pbc and mcl | extends the three modules and `PrivateCredentialProofs` for its identities of the field |
| `ParserProofs` | theorems: the two parsers keep what they read, in its place | extends `CppTokenizer` and `BsonParser` |
| `MC*` | instances for TLC | extend the module they instantiate; `MCPrograms` puts the six sequential programs side by side |

### CertificateStoreStartup

*State.* `certificates`, `requests`, `revoked` are the tables and `crl` the list files: they
survive the process. `caPassword`, `caIndex`, `ocspPassword`, `ocspIndex`, `caOcsp`,
`ocspOnline` are the members of the same meaning of the class (`m_certificateAuthorities...`,
`m_oCSP...`); `config` and `mode` are the file and the initialisation flag, `phase` and `entry`
where the code stands. `faulted`, `initialized` and `built` are history for the properties.

*Steps.* One step is one call that the database makes durable, or one iteration without such a
call; a crash can fall between any two.

| Action | Code |
|---|---|
| `Start`, `EditConfiguration`, `Crash` | constructor `cSS.cpp` 1451-1488; the operator |
| `InitializeDatabase` | 1503-1520; a failure falls through, as in the code |
| `RejectAuthority`, `GenerateSelfSignedAuthority`, `SkipAuthority`, `RequestAuthority`, `SignAuthority` | `generateDefaultCertificateAuthorities` and its two callees, 154-266 |
| `RequestAuthorityFromMaster`, `RequestCertificateFromMaster` | 393-455: this class's POST to the master answers nothing, so it ends in "empty answer"; a request that could not be stored is passed over |
| `LoadAuthority`, `LoadAuthorityThrows`, `LoadOcsp`, `LoadOcspThrows` | 340-391 |
| `RejectCertificate`, `SkipCertificate`, `GenerateCertificate` | 268-338 |
| `AuthoritiesDone`, `CertificatesDone`, `CheckOcsp`, `PublishRevocationLists` | `generateOrLoad...` 61-109 |

*Abstractions.* A certificate is its names, its type and its signer's row; keys, validity dates,
file formats and the dump of created certificates are left out. Rows are never deleted but by an
initialisation. `Fail` is any database or file call that fails, at most `MaxFailures` times.

### CertificateStoreServer

*State.* Per connection: `task` (what its handler does next), `items` (elements of the request
left), `status`, `body` and `verdict` (the answer), `target`, `chain`, `unread`, `listed` (locals
of the verification), and history `asked`, `known`, `stale`.

| Action | Code |
|---|---|
| `ReceiveCertificateRequest`, `RefuseItem`, `IssueItem`, `ReadBack`, `AnswerIssued` | 991-1119, two steps per element: `IssueItem` stores and generates (1060), `ReadBack` reads the certificate of that number for the answer (1072-1080), and other handlers run between the two |
| `ReceiveRevocation`, `RefuseRevocation`, `Revoke`, `Publish`, `AnswerRevoked` | 1205-1273: `Revoke` is the row, `Publish` the list of the issuer *the request names* |
| `ReceiveVerify`, `ReadAuthorities`, `ReadList`, `ListsRead`, `Decide` | 1275-1406; a list that cannot be read is passed over, a null master ends the process |
| `AnswerRefusal`, `AnswerListing`, `AnswerFromMaster` | 506-599, 769-898, 932-989 and 111-121 |
| `AnswerNotFoundPage` | 900-930 with `stonepine.utilities.regex.cpp` 55-69 |
| `StartupStep`, `ServerCrash` | the startup's steps; a crash drops every handler |

*Abstractions.* `IsCertificateValid` stands for the chain check of the library: it builds a path
of signers to a self-signed authority out of what was read, none of it listed as revoked. When a
master is configured the certificate to verify may be the master's, which the database does not
have (`target` 0): the verdict is then free. `UnknownPath` and `getXFromMasterCertificateStore` are
shared by the handlers as in the code. The extended handlers
(`answerExtendedCertificateAuthority`, `...Request`, `...Certificate`) are reached through the
default page only; those for OCSP and for lists of revocations are behind an exception that the
handlers before them throw for every path, so no request reaches them (section 6).

*Assumed of the database library.* A call is atomic. Two calls do much:
`addCertificateRequestAndGenerateACertificate` stores a request, generates a certificate and stores
it (`IssueItem`: the request alone, both, or neither); `updateCertificateRevocationList` reads the
issuer's revocations, signs a list and writes its file (`Publish`, and `PublishRevocationLists` for
every authority). The second is what makes lists only grow while a process is up: a library that
let another update of the same issuer come between the reading and the writing could replace a
list by a shorter one. `RevocationPublished`, `RevocationReachesList` and
`VerdictRespectsRevocation`, and the theorems about them, rest on it.

### Worker and Mailbox

A step of `Worker` is a critical section of `m_mutex`, or what a thread does between two. `thread`
is `m_thread`: null, joinable, or joined and never reset. The mapping reads the mailbox's box as
the user data before the first exit message in the queue, preceded by the message in hand; its
state follows `thread`, `process` and `owner`. `Mailbox` says: what is put while open is got, in
order, exactly once; closing gets what is left and ends.

### CertificateStoreServerFromXml

The state is `CertificateStoreStartup`'s, with two phases more: the request to the master is out
(`askingAuthority`, `askingCertificate`). Steps that are the same call for call are those of that
module; the others are here.

| Action | Code |
|---|---|
| `XmlInitializeDatabase` | a failed initialisation throws, and the handler of `configureCertificateStoreServer` exits |
| `XmlRejectAuthority`, `XmlRejectCertificate` | absent names and types throw; an absent password is mandatory for authorities, and `get()` of one elsewhere ends the process (`ReadAbsentPassword`) |
| `XmlAsk...`, `XmlMaster...` | the POST to the master and its four ends: certificates are stored and registered by the type that was configured, an answer without certificates is passed over, a request is lost, a failure throws |
| `XmlLoad...` | loading, with the types it reads a password for |

### CppTokenizer

*State.* `source` and `rest` are the stream, `input_char` the character read ahead, `objects` the
tokens allocated, `token` the variable of that name, `token_list` the list of references: an
object can be in it twice. An action is one turn of the loop of `parse_tokens`, with the
`parse_token` of the class it chooses. A character stands for its class; the classes are those of
`<cctype>` in the C locale. Messages are left out; that a source is refused (`exit(0)` or false)
is not.

### BsonParser

*State.* `m_fileData` is the static buffer, `position` the iterator, `m_documentsSizes` the cut of
the file, `m_tokens` the tokens by document, as built with one thread and several documents in a
file (`config.h`). An action cuts a document or parses one element. Reading beyond the buffer is
undefined behaviour: the run of the program is over (`parsing = "undefined"`) unless it surely
survives, and then what was read is any value. The format of the file is `EncodedFile`, from the
BSON specification; a byte is in 0 .. 255 and a size is four of them, the last with a sign.
`Shaped` is the body that BSON gives each type: that of a nested document or of a type that is not
BSON's may be any bytes. The parser of a nested document replaces the static buffer by that
document, then reads on where it stood in the buffer before, so no nested document survives
(`parseNested`).

### DatabaseClient and CertificateExtensions

`DatabaseClient` has the clients of a program, one of them a copy of another. The connection
string is a sequence of options; what `libpq` makes of it (`Read`, `Effective`) is external: the
last value of a keyword counts, and a keyword without a value takes the next word. Setting,
opening (which fails or not), copying, authorising a name and shutting down are the actions; the
lists of authorised names are shared objects.

`CertificateExtensions` has one entry of a configuration: `setCertificateType` any number of times,
`setExtensions`, then the server that generates it, once. `m_extensions` is the entry's map, and
`handed` what the library's call is handed to generate from.

| Action | Code |
|---|---|
| `GenerateFromNames` | `cSS.cpp` 196-209 and 305-318: the entry is updated with the addresses, and the library is handed names |
| `generateDefaultOtherCertificateAuthorities` | 227-244: the request is made of the entry (238), which is updated afterwards (242) |
| `addCertificateFromMasterCertificateStore` | 398-405: the request is made of the entry, never updated |
| `GenerateFromXml` | the other server hands over what `getCertificateExtensionsToAdd` makes of the configuration, or nothing with the request for its master |

`Insert` is `std::map::insert`. What a certificate carries is the library's to say: here, what was
handed over, at most.

### Scalars, PrivateCredential and CredentialPrograms

An element of a pairing group is its exponent to the group's generator: the operation of the
groups is `Add`, a power is `Mul`, and so is the pairing. The exponents are constants with the laws
of a field, assumed in `Scalars` and evaluated by TLC on its instance.
`PrivateCredential` has one action per function of `mclUtilities.cpp`; `rRPrime` and `pkuSisHsIG2`
are the globals that `show1` and `verify` compare with. `mainMcl` calls each function once; the
model shows a credential several times and obtains with any key and attributes, which the
functions allow. `show1` and `show3` append to the vectors they are passed (`mclUtilities.cpp:199`,
251, 257): each show is given fresh ones. The program over mcl inverts H(S) in `Fp`, the field of
coordinates and not that of the exponents (`pcs-mcl-version/main.cpp:152-180`): `MclIssue` takes
any exponent for the inverse. `CredentialPrograms` has one action per section of the two programs.

## 3. The runs

| Run | Question | Instance and bounds |
|---|---|---|
| `startup` | do the maps, the table and the configuration agree, whatever an operator writes, across edits and a failing database, and does a start end? | every list of at most 2 of 7 authority entries and at most 2 of 5 certificate entries (well formed, refused, passed over, listed twice, before their issuer, unknown), with and without a master; a three-level hierarchy with a signer each and six edits of it, one of them an entry that an initialisation passes over under the name of another; any sequence of starts in both modes and crashes; one failing call anywhere; fairness |
| `fromxml` | the same of the server configured from XML, and what does its master change? | at most 2 of 9 authority entries (absent names and passwords, entries only a master can issue, an authority below a client) and at most 1 of 7 certificate entries; the operator adds or removes the master or drops the certificates; one failing call |
| `server_revocation` | do the lists and the verdicts respect revocations? | two symmetric connections, hierarchy root -> ca -> leaf, with and without a master; revocations of one and two elements, under the right issuer, under another one, under none, incomplete and unknown; restarts and new databases; no issuing |
| `server_issuing` | does an answer list what was asked, in its order, and is every request answered? | two connections and a server with a root of its own; requests of two elements, one of which fails at its second; one failing call anywhere (storing, generating, reading back); at most 3 rows, the bound after which an element is refused; no symmetry; fairness |
| `server_failures` | do lists stay right for one connection that issues, revokes and verifies while a call fails and the operator drops an authority? | one failure, at most 4 rows |
| `server_liveness` | is every revocation and verification answered, does every revocation reach its list? | two connections, no symmetry, with and without a master; no failing call: with one, a revocation may miss its list (`RevocationPublished`); fairness |
| `worker` | the worker's safety, that exiting returns, and that it implements the mailbox | three messages, at most 2 timer (and repeated exit) messages in the queue; spurious wakeups; fairness |
| `programs` | do the sequential programs do what their names and comments say? | **tokeniser**: every source of at most 3 of 18 characters (each class, each beginning of an operator), of at most 5 of `/ * a` and newline, of at most 4 of the characters of literals, constants, operators and of a character without a class, of at most 3 of those of the digraphs, every comment around 3 characters. **BSON**: every document of at most 2 of 28 elements (each type, lengths that read as types, an unknown type, an empty name), files of up to 3 small documents, some that do not end by 00. **Database**: a client and a copy of it, 2 names, hosts and passwords (the empty one too), 2 openings. **Extensions**: every sequence of 3 types, 5 configurations, 2 addresses, every way to generate. **Scheme**: exponents modulo 7, draws 0 and 3, three triples of generators, two lists of attributes, 2 shows; the programs with two hashes |
| `startup_ocsp`, `server_notfound`, `worker_post`, `worker_destructor` | what the repository says and the code does not do (section 6) | the instances above |

Why the bounds are enough. Two entries show every order of an authority and its issuer and every
pair of entries that compete for a name; the third level of the hierarchy is in the other
runs. The handlers share nothing but tables and files that they read and write one row or one
list at a time, so two show every conflict of a pair. One failure is enough to leave a request
half done, and the process after it starts without having failed. Two timer messages put one
before and one after any message. The tokeniser looks three characters ahead at most (`->*`,
`...`), and its state between two tokens is one character and the last object, so three characters
and the longer sources of the classes that keep state show every pair of neighbours; two elements
show what the parser's position does to the next one, and three documents what the static buffer
does to a document in the middle. Two openings are a string that was grown once; the clients are
set freely before each. A field of seven elements has a draw that is zero and one that is not, and
coincidences that a large field almost never has: the properties of the scheme say exactly when
they happen, and the theorems do not depend on the field.

The six programs of `programs` share nothing, so a behaviour of the run is one of theirs
(`Alone`); it is one run because it asks one question.

Deadlock is checked everywhere but in the worker's runs, where a destroyed worker has nothing
left to do, and in `programs`, whose programs come to their ends.

### Fairness

- `FairSpec` and `FairServerSpec` assume weak fairness of the code's own steps: `Configure` is
  the body of one function in one thread, `Handle(c)` the body of one handler in one thread of
  the https server. Starts, edits, crashes, requests and the master are free. A failed call is
  one of the outcomes of a step, so fairness never forces a success.
- `FairSpec` of `MCPrograms` says that a tokeniser and a parser that have begun go on: each is a
  loop in one thread that waits for nothing. It is what `ProgramsEnd` needs.
- `FairWorkerSpec` assumes that the scheduler runs the worker, the timer and the joining thread.
  A mutex that is given up by every holder is enough for weak fairness, since no step waits for
  another inside a critical section. Nobody is obliged to post or to exit; wakeups may be
  spurious, and none is needed.

## 4. The properties

| Property | What could be wrong |
|---|---|
| `RegistryAgrees` | the five maps disagree, or index a row of another name or kind, after any mixture of starts |
| `IssuedByAuthority` | a certificate signed by another key than that of the issuer it names |
| `RegistryMatchesConfiguration` | a serving server misses a configured authority or signer, or knows an authority or a signer that is not configured |
| `ReloadRestoresRegistry`, `ReloadAccepted` | load and initialisation disagree about one configuration |
| `StartupEnds` | a start that neither serves nor ends |
| `RevocationPublished`, `RevocationReachesList` | a revocation that never reaches the list of the issuer |
| `ListsAreSound` | a list file of an older database, or of another authority, survives |
| `VerdictRespectsRevocation` | VALID against a list as it was when the request arrived |
| `VerdictExplained` | NOT VALID without a revocation or another reason |
| `AnswerMatchesRequest` | an answer in another order, with the certificate that another request stored in between, or with certificates missing though no call failed |
| `RequestsEnd` | a handler that never answers, after a failure half way for one |
| `XmlRegistryRight`, `XmlIssuance` | a certificate of the master registered under another name or row, or signing where it should not; a configured entry that a serving server misses |
| `XmlReloadAccepted` | a start that accepts what the next one refuses |
| `TokensRead` (`TokensSpellSource`, `TokensShared`) | a character lost, doubled or read into the wrong token; a listed token rewritten by a later one |
| `LongestPunctuation`, `LinesKept` | `a->*b` split, or any operator of C++ but the ones named (`SplitOperators`); a comment that eats or makes lines |
| `FileRead` (`ElementsRead`, `DocumentsRead`), `BytesLeft` | an element read from the middle of another, or beyond the file; a document without its tokens, the null pointer that `print` would dereference; an element that does not end where the next begins |
| `ProgramsEnd` (`TokenizerEnds`, `ParserEnds`) | a loop that does not go forward |
| `ConnectsAsSet` (`OpensWithSettings`, `NameAndUserKept`, `HostPinned`) | an opening with the settings of an earlier one, a value swallowed by an empty one, another host verified |
| `ExtensionOrigins` (`FirstTypeRules`, `PublishedAddresses`, `HandedOver`) | an extension of a later type, an address that is not the configured one or the server's, an entry handed over before it is complete or after it is changed: what of the entry's map can reach a certificate |
| `ObtainExact` | a credential refused to its user, or accepted from another key or for other attributes |
| `PresentationOpens`, `AcceptedByCoincidence`, `Show1Accumulates` | the randomness of one part of a presentation is not that of another, on the second show or for some draw |
| `ValuesAgree` (`ObtainAgrees`, `RandomnessAgrees`, `InspectionOpens`) | two values that a party needs to be equal are not; of the two pairs that are printed to be compared, which one agrees, and when |
| `NoLostWakeup`, `InOrder`, `TimerEndsFirst`, `ExitReturns`, `ImplementsMailbox` | the worker's concurrency: a sleep on a full queue, messages out of order or cut by the exit message elsewhere than where it stands, a timer that outlives its object, a join that waits for ever |

Some name their exceptions, which are what the code does: `RevocationPublished` excepts a
revocation whose request named another issuer than the certificate's, or whose list could not be
written (`cSS.cpp:1255` ignores the result); `VerdictRespectsRevocation`, `VerdictExplained` and
`ListsAreSound` are stated for processes in which no call failed, since an unreadable list is
passed over (`cSS.cpp:1376`); `ReloadRestoresRegistry` is stated for configurations whose
authorities are coherent (`CoherentAuthorities`: a self-signed entry is of the self-signed type,
any other of one of the two other types of authorities), since an entry that an initialisation passes over may be registered by a
load (section 6); `VerdictExplained` excepts ambiguous names, since lookups by name
return any of the rows of that name. `XmlReloadAccepted` excepts a signer without a password, which
a generation takes and a load does not survive; `OpensWithSettings` a setting that was ever empty.
`RandomnessAgrees` and `AcceptedByCoincidence` say what the programs compute, which is not what
the scheme needs: see section 6. The type invariants are `TypeOK`, `ServerTypeOK` and
`WorkerTypeOK`; the modules without one of their own in a run (XML, the programs) extend a typed one
or say more in the properties above.

## 5. The theorems

The assumptions are those of the modules: the empty name is no name and the empty password no
password; configurations and requests are well typed; the bounds are natural numbers; the three
kinds of messages differ; the exponents are a field; a database and the name of a server that a
client must verify are not empty (`SettingsAssumption`: an operator writes them, and libpq reads
an empty one as if the next word were its value); the addresses that are configured are not the
server's own (`AddressesAssumption`: they are two sources, which the properties must tell apart);
a source is a sequence of the characters of the model (`SourcesAssumption`); a BSON file is
documents of elements with the bodies that BSON gives their types, each of a size that four bytes
can say (`BsonFilesAssumption`: the parser reads a file that is not BSON too, but then there is
nothing that it should have read).
Nothing is assumed about how many names, connections, messages, clients, shows or failures there
are. Each theorem says of `Init /\ [][Next]_vars` what a run checks with TLC, by one inductive
invariant per module, which the step lemmas preserve action by action.

**`CertificateStoreStartupProofs`.** `TypeCorrect`, `RegistryCorrect` and `IssuanceCorrect`
(`Spec => []TypeOK`, `[]RegistryAgrees`, `[]IssuedByAuthority`) follow from one inductive
invariant, `IInv`. It adds two parts: `SigningAgrees` (between the request and the certificate
of an authority the entry is one that is signed here, so its issuer has an index) and
`RegistryEmpty` (before the loops the maps are empty). Without the first, `SignAuthority` could
index the map outside its domain; without the second, initialising the database would leave maps
that index rows that are gone. The argument is one of growth: rows are only appended while a
process is up, and appending keeps what the lookups by name may return (`AppendIds`), so the maps
stay right; a new row names an authority that the index or the lookup found (`AppendIssued`).

**`CertificateStoreReloadProofs`.** `RegistryComplete`, `ReloadCorrect` and `ReloadNeverRefused`
(`RegistryMatchesConfiguration`, `ReloadRestoresRegistry`, `ReloadAccepted`). The two modes read
the same lists by different code, so the invariant `RInv` does not compare two executions: it says
in each of them what the first n authorities and l certificates have left in the maps
(`ProcessKnows`: each coherent entry is there, with the password of the first entry of its name,
and nothing else is), that every index is a row of the name and its kind (`Indexes`), and the same
of what every initialisation of this database built, at its full length (`BuiltRight`). Two
registries of which it holds for one configuration are then equal when no two certificates share
a name (`SameAuthorities`, `SameSigners`): there is one row for each name to index. Rows that are
appended take nothing back (`Grown*`), but for an initialisation, which empties `built` with the
tables. `ReloadNeverRefused` follows because what the initialisation left in the maps is in the
tables, which is all that a load looks for.

**`CertificateStoreServerProofs`.** `ServerIssuanceCorrect`, `ListsCorrect`,
`RevocationsPublished` and `VerdictsRespectRevocation` hold for any number of connections. The
invariant `SInv` is `IInv`, the shape of the handlers' variables, that handlers run only while the
server serves, `ListsAreSound`, `RevocationPublished`, and `HandlerSound(c)` for each handler:
what a verification has yet to overlook (`NothingOverlooked`: an authority it read whose list
held a certificate when the request arrived is either unread or has contributed it) and what it
may have answered. The last is what makes the verdict inductive: lists only grow while a process
is up, because `updateCertificateRevocationList` writes every revocation of the issuer, so
reading them late never loses what they held. `OthersSound` says that a step of one connection
keeps the others' parts.

Of the same module, `ServerTypeCorrect`, `AnswersMatch` and `VerdictsExplained`
(`ServerTypeOK`, `AnswerMatchesRequest`, `VerdictExplained`), for any number of connections. A
certificate is read back from the table after others have stored theirs, so `AnswerSound` says at
every step how many elements of the request are done (`InProgress`), that what is answered are
certificates of those, in their order and one for each while no call has failed (`Placed`), and,
between the store and the reading, that the row whose number the handler holds is the one that its
element asked for: others only append rows, so it still is when it is read. `ReadSound` says that
a verification has a row for every authority the server knows, and nothing in its lists that was
not revoked; with it, a path can only be missing where an issuer is unknown or something was
revoked. The invariant `AInv` adds that nothing of a handler survives its process
(`HandlersCleared`): without it, a restart would answer with rows of the database before.

**`CertificateStoreServerFromXmlProofs`.** `XmlIssuanceCorrect` and `XmlRegistryCorrect` from `XInv`, and `XmlReloadNeverRefused` from `XInv` and `XAcc`. The startup's
own lemmas are used where a step is the startup's. The master's certificates are registered under
the name and type that were asked for, whatever came back, so `XmlKnows` is the prefix invariant
for configurations without a master only, and `XmlIssuance` excepts what the master issued.
`AskingAgrees` is what makes the answers safe to take: a request is out only for an entry of the
list, and only where there is a master. `XAcc` says of every initialisation what a load would test
(`XmlAuthoritiesAccepted`, `XmlCertificatesAccepted`, `OcspAccepted`); the OCSP test compares two
sizes, so its verdict is a function of the configuration that both modes must agree on.

**`WorkerProofs`.** `WorkerTypeCorrect`, `WakeupsKept` and `TimerEnds` from `WInv`: types,
`NoLostWakeup`, and how the threads stand to each other (`ThreadsAgree`: the worker is done only
after its timer, the owner has joined only a worker that is done). `HandledInOrder` (`InOrder`) from
`OInv`, which adds where the exit message can be (`ExitAgrees`: nowhere before the owner exits, in
the queue or taken after) and that the messages accepted are those handled, the one in hand and
those the queue will deliver (`OrderKept`). What a queue delivers, `Kept`, is a recursive function
of its positions; the facts about it (`Append` adds at the end, `Head` and `Tail` split it) are
proved by the smallest counterexample: the least length at which a fact fails would be preceded by
one at which it holds. `WorkerIsMailbox` is the safety part of the refinement: `MailboxState` and
the box are functions of the worker's state, an initial state maps to an initial state, and each
step of the worker to a step of the mailbox or a stutter (`MailboxSteps`), with `OInv` for what
closing may still deliver.

**`PrivateCredentialProofs`.** For every field of exponents, every draw, every list of attributes
and any number of shows: `CredentialTypeCorrect`; `ObtainDecides` (equation (1) accepts a
credential for the key and the attributes it was issued for, and for others only when their
products coincide or a secret is zero); `ShownOpens` (what is shown opens to the issuer's key and
the signed attributes); `AcceptanceDecided` (exactly when equation (2) accepts an honest show) and
`ProductKept` (`verify`'s product is the one `issue` computed). The invariant `CredentialInv` says
what the keys are once they are made (`KeysMade`), what a credential is once it is issued, and
that what was last shown carries the randomness of its c2 (`ShownRight`); `Formed` adds what
equation (2) needs, the form of c3 before and after a show. The steps are identities of the field,
each in a lemma (`Regroup`, `Cancel`, `Rerandomize`, `EquationTwoCancels`, ...), since the prover
does no algebra on uninterpreted operations; the converses rest on `NoDivisors` (a product is zero
only when a factor is), which follows from the inverse. The assumption that a product of hashes is
not zero (`ProductAssumption`) is what a field gives. `ComparisonAccumulates` (`Show1Accumulates`)
rests on `Accounts`: the global that `show1` compares with is what was shown last with the
randomness of every show before it.

**`ProgramsProofs`.** Three components that share nothing.
`OriginsKept` (`ExtensionOrigins`), from `ExtensionsInv`: the map holds what was configured, what the
types given have brought and the addresses once it was updated (`MapHolds`), and `Insert` never
replaces, so the first word said about an extension is the last; `TypedFacts` is what makes it
possible, that a type brings the same extensions to every map. Of what is handed over there is a
lemma for each way to generate (`NamesStep`, `AuthorityStep`, `MasterStep`, `XmlStep`); once an
entry is generated nothing changes it (`NotGenerated`).
`ClientsConnect` (`ConnectsAsSet`), for any number of clients, copies, shared lists and openings,
from `DatabaseInv`: types, and that the host in a client's options is the first name of its list
(`HostsKept`). Which words of a string are read as options is a recursion over the words
(`Read`); `ReadStep` unfolds it, by the smallest counterexample again, and from it: a block of
settings that is appended is read wherever the word before it is not empty, what is read last
counts (`EffectiveAt`), and even after an empty word the database and the user are read, since they
are not the first of a block (`BlockRead`).
`ProgramsAgree` (`ValuesAgree`), for every field and every draw, from `ProgramsInv`: what each section
has computed of what was drawn (`PbcKept`, `MclKept`), and that what obtaining compares agrees
(`ObtainAgrees`).

**`ParserProofs`.** For every set of files and every set of sources, of any length. What a loop
made of a whole input is compared with functions of that input, and no induction over it can be
stated, so the module begins with what the library lacks: `FlattenSeq` (recursive in the community
modules) takes one more piece at its end (`FlattenAppend`), distributes over a concatenation
(`FlattenCat`) and holds each piece after those before it (`FlattenPiece`), all by the smallest
counterexample (`SmallestMember`).

*BSON.* `BsonFilesRead` (`FileRead`) and `BsonBytesLeft` (`BytesLeft`) from `BsonIInv`. Its parts:
the documents cut so far are the well-formed ones among those before the position, each with the
bytes of its encoding (`Cutting`); a document that is parsed has a token for each of its elements
before the position, the position is where the next element is laid out, or the tenth byte of a
64-bit integer that is of no type, or an element before it is misread, and a document that was left
has one that is misread (`Parsing`); and so has a file that was left (`LeftForMisread`). An
element is known by where its encoding is held in the bytes (`LaidParts`), a size of four bytes
decodes to itself (`Int32Encoded`, where `MaxSize` is needed), and for each type there is a lemma
of what its token keeps and where it ends. The theorem needs no assumption on what follows an
element that is misread: from there on the position is not said to be any element's. Two things
that the run had not shown were found on the way: a 64-bit integer is misread when the tenth byte
of its encoding reads as a type, so with a longer name it may be a byte of the name and not one of
the number (`Misread`), and a document for which nullptr is returned has lost the elements that it
had (`ElementsRead` says nothing of it).

*The tokeniser.* `TokenizerTypes` says where it stands: `Reading(p)`, the character read ahead is
that of place p of the source and the stream is what follows it. Each action is put once in terms
of p (lemmas `...Reads`), so that what follows is about places and not about streams.
`PunctuationIsLongest` (`LongestPunctuation`) is inductive with the types: a token is as long as
`Follow` lets it be when it is pushed, and no step rewrites it before the next one is.
`TokensInOrder`: without a character of no class the list is the objects, once each, in order
(`ListedInOrder`), so none listed is rewritten, which is one half of `TokensAreRead` (`TokensRead`).
The other, `TokensSpellSource`, is inductive with the types: a step moves characters from what is to
be read to what is spelled, up to blanks (`Moved`), and the lemmas on quoted constants
(`QuoteSpelled`) are where a quote that is not closed, or one behind a backslash, would be lost.
`LinesAreKept` (`LinesKept`) from `LinesCounted`: some set of newlines before p holds all of them
but those at a star, and is as large as what is listed, or one less when the source is at its
end (`Counted`); a block comment lists all its newlines but those it reads as the character after
a star (`BlockRead`), and that set grows by what each step read (`CountedMore`).
`tlapm` needs about ten minutes for this module from nothing, and less than four for any other.

**Only model-checked.** Liveness (`StartupEnds`, `RequestsEnd`, `RevocationReachesList`,
`ExitReturns`, `ProgramsEnd`) and the fairness in `ImplementsMailbox`, which are out of the prover's
reach: `WorkerIsMailbox` is its safety. Every other property of a passing run is stated by a
theorem. The findings of section 6 are refuted properties, so there is nothing to prove of them.

## 6. Where the code and its words part

Runs that TLC refutes:

- `startup_ocsp`: OCSP coherence compares two sizes (`cSS.cpp:98`), so two signers of one
  authority pass for one of each.
- `server_notfound`: the default page throws out of a `noexcept` handler instead of answering 404
  (`cSS.cpp:915`).
- `worker_post`, `worker_destructor`: `m_thread` is never reset after the join, so a later
  `postMessage` is accepted and lost, and the destructor joins again (`worker.cpp:83`, `:73`).

What the modules say of the code and a reader may not expect:

- After "exiting..." (`cSS.cpp:1513`) the base server goes on, into the tables that were there; the
  server configured from XML does exit (`XmlInitializeDatabase`). The tables that the library leaves
  when its initialisation fails half way are taken as they were before.
- `show1` raises c3 to the power 1 + r' where c1 and c2 are moved by r' (`mclUtilities.cpp:186-202`),
  so the verifier refuses an honest presentation but for coincidences (`AcceptedByCoincidence`,
  proved of every field by `AcceptanceDecided`).
- The program over mcl inverts r where the one over pbc negates it (`RandomnessAgrees`, a part of `ValuesAgree`); the show
  of the program over pbc derives c'1 from the attribute and not from c1 (`InspectionOpens`).
- INSPECT of the program over pbc prints two values for a reader to compare
  (`pcs-pbc-version/main.cpp:532`, 548). With the c'1 it means to have, the first is Xu^(1/H(S))
  whatever was drawn; the second is Xu^(-H(S)), since line 543 negates where it should invert. They
  agree only when the user's key is zero or 1/H(S) = -H(S) (`InspectionOpens`, proved of every field
  by `ProgramsAgree`), and `pcs-pbc-version/output.txt:58-59` shows them different.
- `parser.cpp:5` says that the tokeniser "does correctly identify and process C/C++ tokens". It has
  no case for `^=`, `.*` and the digraphs, and reads each as two tokens or more: `SplitOperators`
  names them, and `LongestPunctuation` is stated for the other operators of C++.
- The base server puts the addresses of its lists and of OCSP into the map of an entry
  (`cSS.cpp:123-139`) and hands that map to nobody: self-signed authorities and certificates are
  generated from names (209, 318), and the request of another authority is made (238) before the
  update (242). No certificate that this server generates carries an address but a configured one.
  The server configured from XML hands over its own addresses always, and never the configured
  ones, since it inserts its own first (`certificateStoreServerFromXml.h:78-92`) (`HandedOver`).
- An authority that an initialisation passes over, for its type is not that of a self-signed
  entry, is registered by a load with its own password if a later entry generated a certificate of
  its name (`cSS.cpp:340-366`): the configuration `<<root, (ca, issuer root, SELF_SIGNED_CA), ca>>`
  is one. `ReloadRestoresRegistry` excepts it (`CoherentAuthorities`) and the run `startup` has it.
- A revocation list that is still there from a database before the last initialisation holds
  serial numbers of rows that are no longer in the table (`ServerTypeOK` says only that they are
  numbers); `ListsAreSound` says when a list is right again.
- A nested BSON document is located from its element's type byte, its parser replaces the static
  bytes of the file by it, and the parser of the file reads on in those: it is never among the
  tokens, and what becomes of the file is undefined (`BytesLeft`, proved of every file).
- The token of a 64-bit integer reads no name (`x12Token.cpp`), so the element after it is looked
  for at its own tenth byte. Where that is of no type the document ends there, with the tokens read
  so far; otherwise an element is read from the middle of the name or of the number (`Misread`).
- `/**/` does not end a comment and `/*/` does; the character after a block comment is dropped; a
  constant that is not closed is read for ever (`parser.cpp:132`).
- An empty password or address makes libpq take the next word for it (`NameAndUserKept` says what
  is safe from it).
- The extensions of a time-stamping authority are written down (`certificate.cpp:66`) and set by
  no type.

## 7. The plan

Done: the startup, the server, the worker with the mailbox it implements, the server configured
from XML, the tokeniser, the BSON parser, the database client, the extensions, the credential
scheme and the programs, with the proofs of section 5. Left, in order of importance:

1. The end points composed with the start of the server configured from XML.
2. The programs over tepla (server and client), the file and path utilities.

**Not modelled, and why.** The OCSP responder's own answers, TLS, the validity of dates and the
arithmetic of the pairing libraries are third-party or data; the vendored XML parser is not called
by any source; `transcode` is a straight line around library calls; the programs over tepla are an
earlier form of the scheme in one `main` each around sockets; the utilities are files, clocks and
identifiers, whose regular expressions are modelled where the server uses them; the sample
configurations, schemas and build files are data.
