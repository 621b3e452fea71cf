-------------------- MODULE CertificateStoreServerProofs --------------------
(***************************************************************************)
(* Theorems about CertificateStoreServer, for any number of connections    *)
(* and any sets of requests: the database stays well-founded, the lists    *)
(* say what was revoked, and no verification overlooks what the lists held *)
(* when its request arrived; then its type invariant, that an answer lists *)
(* what its request asked for, and that NOT VALID has a reason.            *)
(***************************************************************************)
EXTENDS CertificateStoreServer, CertificateStoreStartupProofs

(* Each variable of the handlers has a value for every connection.          *)
HandlersShaped ==
  /\ DOMAIN task = Connections /\ DOMAIN items = Connections
  /\ DOMAIN verdict = Connections /\ DOMAIN target = Connections
  /\ DOMAIN unread = Connections /\ DOMAIN listed = Connections
  /\ DOMAIN known = Connections

(* No handler outlives its process.                                         *)
HandlersGone ==
  phase # "serving" =>
    \A c \in Connections : task[c] = "idle" /\ verdict[c] = "none"

(* What a handler works on is typed by what it does; a revocation whose     *)
(* list is still to be written has been stored.                             *)
ItemsTyped(c) ==
  /\ task[c] \in {"issuing", "reading"} => items[c] \in Seq(RequestItem)
  /\ task[c] = "reading" => items[c] # <<>>
  /\ task[c] \in {"revoking", "publishing"} => items[c] \in Seq(RevocationItem)
  /\ task[c] = "publishing" => items[c] # <<>> /\ Head(items[c]).serial \in revoked

(* While no call has failed, what the lists held when the request arrived   *)
(* is still to be read from them, then among those read or still to be      *)
(* read, then read.                                                         *)
NothingOverlooked(c) ==
  ~faulted =>
    /\ task[c] = "authorities" => known[c] \subseteq Published
    /\ task[c] = "lists" =>
         /\ unread[c] \subseteq DOMAIN caPassword
         /\ known[c] \subseteq listed[c] \cup UNION {crl[n] : n \in unread[c]}
    /\ task[c] = "deciding" => known[c] \subseteq listed[c]

(* A handler that issues certificates has given no verdict.                 *)
VerdictSound(c) ==
  /\ task[c] \in {"issuing", "reading"} => verdict[c] = "none"
  /\ ~faulted /\ verdict[c] = "VALID" /\ target[c] # 0 =>
       /\ target[c] \in DOMAIN certificates
       /\ target[c] \notin known[c]
       /\ certificates[target[c]].signer \notin known[c]

HandlerSound(c) == ItemsTyped(c) /\ NothingOverlooked(c) /\ VerdictSound(c)

SInv == /\ IInv
        /\ HandlersShaped
        /\ HandlersGone
        /\ \A c \in Connections : HandlerSound(c)
        /\ ListsAreSound
        /\ RevocationPublished

-----------------------------------------------------------------------------
(* While it serves, the process keeps its registry, the table of            *)
(* certificates and the set of the revoked ones only grow, and so does each *)
(* list until a call fails.                                                 *)
Grows ==
  /\ phase = "serving" /\ phase' = "serving"
  /\ caPassword' = caPassword
  /\ DOMAIN certificates \subseteq DOMAIN certificates'
  /\ \A i \in DOMAIN certificates : certificates'[i] = certificates[i]
  /\ revoked \subseteq revoked'
  /\ ~faulted' =>
       /\ ~faulted
       /\ \A n \in DOMAIN caPassword :
            n \in DOMAIN crl /\ n \in DOMAIN crl' /\ crl[n] \subseteq crl'[n]

(* The other connections' handlers do nothing in a step of c's.             *)
OnlyHandler(c) ==
  /\ HandlersShaped'
  /\ \A d \in Connections \ {c} :
       /\ task'[d] = task[d] /\ items'[d] = items[d] /\ verdict'[d] = verdict[d]
       /\ target'[d] = target[d] /\ unread'[d] = unread[d]
       /\ listed'[d] = listed[d] /\ known'[d] = known[d]

(* Nothing a handler relies on is disturbed while the lists grow.           *)
LEMMA OthersSound ==
  ASSUME NEW c \in Connections, NEW d \in Connections, d # c,
         SInv, Grows, OnlyHandler(c)
  PROVE  HandlerSound(d)'
<1>1. HandlerSound(d) /\ ListsAreSound
  BY DEF SInv
<1>2. ItemsTyped(d)'
  BY <1>1 DEF HandlerSound, ItemsTyped, Grows, OnlyHandler
<1>3. NothingOverlooked(d)'
  <2> SUFFICES ASSUME ~faulted' PROVE NothingOverlooked(d)'
    BY DEF NothingOverlooked
  <2>1. /\ ~faulted
        /\ \A n \in DOMAIN caPassword :
             n \in DOMAIN crl /\ n \in DOMAIN crl' /\ crl[n] \subseteq crl'[n]
        /\ caPassword' = caPassword
    BY DEF Grows
  <2>2. Published \subseteq Published'
    BY <2>1 DEF Published
  <2>3. task'[d] = task[d] /\ known'[d] = known[d]
        /\ unread'[d] = unread[d] /\ listed'[d] = listed[d]
    BY DEF OnlyHandler
  <2>4. CASE task[d] = "authorities"
    BY <1>1, <2>1, <2>2, <2>3, <2>4 DEF HandlerSound, NothingOverlooked
  <2>5. CASE task[d] = "lists"
    <3>1. /\ unread[d] \subseteq DOMAIN caPassword
          /\ known[d] \subseteq listed[d] \cup UNION {crl[n] : n \in unread[d]}
      BY <1>1, <2>1, <2>5 DEF HandlerSound, NothingOverlooked
    <3>2. UNION {crl[n] : n \in unread[d]} \subseteq UNION {crl'[n] : n \in unread[d]}
      BY <2>1, <3>1
    <3>3. unread[d] \subseteq DOMAIN caPassword'
      BY <2>1, <3>1
    <3>4. QED
      BY <2>3, <2>5, <3>1, <3>2, <3>3 DEF NothingOverlooked
  <2>6. CASE task[d] \notin {"authorities", "lists"}
    BY <1>1, <2>1, <2>3, <2>6 DEF HandlerSound, NothingOverlooked
  <2>7. QED
    BY <2>4, <2>5, <2>6
<1>4. VerdictSound(d)'
  BY <1>1 DEF HandlerSound, VerdictSound, Grows, OnlyHandler
<1>5. QED
  BY <1>2, <1>3, <1>4 DEF HandlerSound

(* A step of one handler that changes neither the database nor the lists    *)
(* preserves the invariant when it leaves the handler sound.                *)
LEMMA QuietHandler ==
  ASSUME NEW c \in Connections, SInv, IInv', phase = "serving",
         UNCHANGED <<certificates, revoked, crl, phase, caPassword, stale>>,
         ~faulted' => ~faulted,
         task[c] # "publishing", OnlyHandler(c), HandlerSound(c)'
  PROVE  SInv'
<1>1. Grows
  BY DEF Grows, SInv, ListsAreSound
<1>2. \A d \in Connections : HandlerSound(d)'
  BY <1>1, OthersSound
<1>3. HandlersShaped' /\ HandlersGone'
  BY DEF OnlyHandler, HandlersGone
<1>4. ListsAreSound'
  BY DEF SInv, ListsAreSound, RevokedBy
<1>5. InFlight \subseteq InFlight'
  BY DEF InFlight, OnlyHandler
<1>6. RevocationPublished'
  BY <1>5 DEF SInv, RevocationPublished
<1>7. QED
  BY <1>2, <1>3, <1>4, <1>6 DEF SInv

-----------------------------------------------------------------------------
(* The process ends.                                                        *)
LEMMA EndPreserves ==
  ASSUME SInv, IInv', phase' = "down", DropHandlers
  PROVE  SInv'
<1>1. HandlersShaped' /\ HandlersGone'
  BY DEF DropHandlers, HandlersShaped, HandlersGone
<1>2. \A c \in Connections : HandlerSound(c)'
  BY DEF DropHandlers, HandlerSound, ItemsTyped, NothingOverlooked, VerdictSound
<1>3. ListsAreSound' /\ RevocationPublished'
  BY DEF ListsAreSound, RevocationPublished
<1>4. QED
  BY <1>1, <1>2, <1>3 DEF SInv

LEMMA DiePreserves ==
  ASSUME SInv, NEW reason \in {"exception", "crash"}, Die(reason)
  PROVE  SInv'
<1>1. /\ UNCHANGED <<certificates, revoked, requests, config, mode, entry, registry,
                     failures, faulted, initialized>>
      /\ phase' = "down" /\ exit' = reason
      /\ DropHandlers
  BY DEF Die, database, history
<1>2. RegistryAgrees' /\ IssuedByAuthority'
  BY <1>1, NothingRegistered DEF SInv, IInv, registry
<1>3. TypeOK' /\ SigningAgrees' /\ RegistryEmpty'
  BY <1>1 DEF SInv, IInv, TypeOK, Phase, registry, SigningAgrees, RegistryEmpty
<1>4. QED
  BY <1>1, <1>2, <1>3, EndPreserves DEF IInv

LEMMA CrashPreserves ==
  ASSUME SInv, ServerCrash
  PROVE  SInv'
<1>1. IInv' /\ phase' = "down"
  BY OperatorPreserves DEF SInv, ServerCrash, Crash
<1>2. QED
  BY <1>1, EndPreserves DEF ServerCrash

(* The start of a process: the lists are written for the revocations of the *)
(* database, before any handler runs.                                       *)
LEMMA StartupPreserves ==
  ASSUME SInv, StartupStep
  PROVE  SInv'
<1>1. Next /\ UNCHANGED handlers
  BY DEF StartupStep, Next
<1>2. IInv'
  BY <1>1, NextIInv DEF SInv
<1>3. phase # "serving"
  BY DEF StartupStep, Start, EditConfiguration, Configure, InitializeDatabase,
         RejectAuthority, GenerateSelfSignedAuthority, SkipAuthority,
         RequestAuthority, SignAuthority, RequestAuthorityFromMaster,
         LoadAuthority, LoadAuthorityThrows, AuthoritiesDone,
         RejectCertificate, SkipCertificate, GenerateCertificate,
         RequestCertificateFromMaster, LoadOcsp, LoadOcspThrows,
         CertificatesDone, CheckOcsp, PublishRevocationLists, AtAuthority,
         AtCertificate
<1>4. \A c \in Connections : task[c] = "idle" /\ verdict[c] = "none"
  BY <1>3 DEF SInv, HandlersGone
<1>5. /\ HandlersShaped' /\ HandlersGone'
      /\ \A c \in Connections : HandlerSound(c)'
  BY <1>1, <1>4 DEF SInv, HandlersShaped, HandlersGone, handlers,
     HandlerSound, ItemsTyped, NothingOverlooked, VerdictSound
<1>6. ListsAreSound' /\ RevocationPublished'
  <2>1. CASE PublishRevocationLists
    <3>1. /\ UNCHANGED <<certificates, revoked, caPassword>>
          /\ phase' = "serving"
          /\ stale' = IF failures' # failures THEN revoked ELSE stale
      BY <2>1 DEF StartupStep, PublishRevocationLists, database, registry
    <3>2. CASE WriteLists(DOMAIN caPassword) /\ NoFailure
      <4>1. \A n \in DOMAIN caPassword' : n \in DOMAIN crl' /\ crl'[n] = RevokedBy(n)'
        BY <3>1, <3>2 DEF WriteLists, RevokedBy
      <4>2. QED
        BY <4>1 DEF ListsAreSound, RevocationPublished, RevokedBy
    <3>3. CASE Fail
      <4>1. failures' # failures
        BY <3>3 DEF SInv, IInv, TypeOK, Fail
      <4>2. RevocationPublished'
        BY <3>1, <4>1 DEF RevocationPublished
      <4>3. ListsAreSound'
        BY <3>3 DEF ListsAreSound, Fail
      <4>4. QED
        BY <4>2, <4>3
    <3>4. QED
      BY <2>1, <3>2, <3>3 DEF PublishRevocationLists
  <2>2. CASE ~PublishRevocationLists
    <3>1. phase' # "serving"
      BY <1>3, <2>2
      DEF StartupStep, Start, EditConfiguration, Configure, InitializeDatabase,
         RejectAuthority, GenerateSelfSignedAuthority, SkipAuthority,
         RequestAuthority, SignAuthority, RequestAuthorityFromMaster,
         RequestFromMaster, LoadAuthority, LoadAuthorityThrows, AuthoritiesDone,
         RejectCertificate, SkipCertificate, GenerateCertificate,
         RequestCertificateFromMaster, LoadOcsp, LoadOcspThrows,
         CertificatesDone, CheckOcsp, Throw, database, registry, history
    <3>2. QED
      BY <3>1 DEF ListsAreSound, RevocationPublished
  <2>3. QED
    BY <2>1, <2>2
<1>7. QED
  BY <1>2, <1>5, <1>6 DEF SInv

-----------------------------------------------------------------------------
(* Requests and handler steps that change neither database nor lists.       *)
LEMMA StartupUnchanged ==
  ASSUME IInv, UNCHANGED startupVars
  PROVE  IInv'
  BY NextIInv

(* Requests that are answered at once, or that end the process.             *)
LEMMA AnswerPreserves ==
  ASSUME NEW c \in Connections, SInv,
         \/ AnswerRefusal(c) \/ AnswerListing(c) \/ AnswerFromMaster(c)
         \/ AnswerNotFoundPage(c)
  PROVE  SInv'
<1>1. CASE Die("crash") \/ Die("exception")
  BY <1>1, DiePreserves
<1>2. CASE ~(Die("crash") \/ Die("exception"))
  <2>1. /\ UNCHANGED startupVars
        /\ phase = "serving" /\ task[c] = "idle"
        /\ verdict' = [verdict EXCEPT ![c] = "none"]
        /\ UNCHANGED <<task, items, target, unread, listed, known, stale>>
    BY <1>2 DEF AnswerRefusal, AnswerListing, AnswerFromMaster,
       AnswerNotFoundPage, AtOnce, Ready
  <2>2. IInv' /\ UNCHANGED <<certificates, revoked, crl, phase, caPassword, faulted>>
    BY <2>1, StartupUnchanged DEF SInv, startupVars, database, registry, history
  <2>3. OnlyHandler(c) /\ HandlerSound(c)'
    BY <2>1, <2>2 DEF SInv, OnlyHandler, HandlersShaped, HandlerSound, ItemsTyped,
       NothingOverlooked, VerdictSound
  <2>4. QED
    BY <2>1, <2>2, <2>3, QuietHandler
<1>3. QED
  BY <1>1, <1>2

LEMMA ReceivePreserves ==
  ASSUME NEW c \in Connections, SInv,
         ReceiveCertificateRequest(c) \/ ReceiveRevocation(c) \/ ReceiveVerify(c)
  PROVE  SInv'
<1>1. PICK t \in {"issuing", "revoking", "authorities"} :
        /\ Receive(c, t)
        /\ t = "issuing" => ReceiveCertificateRequest(c)
        /\ t = "revoking" => ReceiveRevocation(c)
        /\ t = "authorities" => ReceiveVerify(c)
  BY DEF ReceiveCertificateRequest, ReceiveRevocation, ReceiveVerify
<1>2. /\ UNCHANGED startupVars
      /\ phase = "serving" /\ task[c] = "idle"
      /\ task' = [task EXCEPT ![c] = t]
      /\ verdict' = [verdict EXCEPT ![c] = "none"]
      /\ UNCHANGED <<unread, listed, stale>>
  BY <1>1 DEF Receive, Ready
<1>3. PICK r, n, k :
        /\ items' = items \/ items' = [items EXCEPT ![c] = r]
        /\ target' = [target EXCEPT ![c] = n]
        /\ known' = [known EXCEPT ![c] = k]
        /\ t = "issuing" => items' = [items EXCEPT ![c] = r] /\ r \in CertificateRequests
        /\ t = "revoking" => items' = [items EXCEPT ![c] = r] /\ r \in RevocationRequests
        /\ t = "authorities" => k = Published
  <2>1. CASE t = "issuing"
    BY <1>1, <2>1 DEF ReceiveCertificateRequest
  <2>2. CASE t = "revoking"
    BY <1>1, <2>2 DEF ReceiveRevocation
  <2>3. CASE t = "authorities"
    BY <1>1, <2>3 DEF ReceiveVerify
  <2>4. QED
    BY <2>1, <2>2, <2>3
<1>4. IInv' /\ UNCHANGED <<certificates, revoked, crl, phase, caPassword, faulted>>
  BY <1>2, StartupUnchanged DEF SInv, startupVars, database, registry, history
<1>5. OnlyHandler(c)
  BY <1>2, <1>3 DEF SInv, OnlyHandler, HandlersShaped
<1>6. task'[c] = t /\ verdict'[c] = "none"
  BY <1>2 DEF SInv, HandlersShaped
<1>7. ItemsTyped(c)'
  BY <1>3, <1>6, RequestsAssumption DEF SInv, HandlersShaped, ItemsTyped
<1>8. NothingOverlooked(c)'
  <2>1. t = "authorities" => known'[c] = Published
    BY <1>3 DEF SInv, HandlersShaped
  <2>2. Published' = Published
    BY <1>4 DEF Published
  <2>3. QED
    BY <1>6, <2>1, <2>2 DEF NothingOverlooked
<1>9. HandlerSound(c)'
  BY <1>6, <1>7, <1>8 DEF HandlerSound, VerdictSound
<1>10. QED
  BY <1>2, <1>4, <1>5, <1>9, QuietHandler

(* Elements that are refused, and the answers at the end of a request.      *)
LEMMA EndOfRequestPreserves ==
  ASSUME NEW c \in Connections, SInv,
         \/ RefuseItem(c) \/ AnswerIssued(c) \/ RefuseRevocation(c)
         \/ AnswerRevoked(c)
  PROVE  SInv'
<1>1. /\ phase = "serving" /\ task[c] \in {"issuing", "revoking"}
      /\ task' = [task EXCEPT ![c] = "idle"]
      /\ items' = items \/ items' = [items EXCEPT ![c] = <<>>]
      /\ UNCHANGED <<certificates, requests, revoked, crl, config, phase, mode,
                     entry, registry, exit, initialized>>
      /\ UNCHANGED <<verdict, target, unread, listed, known, stale>>
  BY DEF RefuseItem, AnswerIssued, RefuseRevocation, AnswerRevoked, At, Refuse,
         Answer, startupVars, database, history
<1>2. \/ UNCHANGED <<failures, faulted>>
      \/ failures < MaxFailures /\ failures' = failures + 1 /\ faulted' = TRUE
  BY DEF RefuseItem, AnswerIssued, RefuseRevocation, AnswerRevoked,
         startupVars, history, Fail, NoFailure
<1>3. IInv'
  <2>1. RegistryAgrees' /\ IssuedByAuthority'
    BY <1>1, NothingRegistered DEF SInv, IInv, registry
  <2>2. SigningAgrees' /\ RegistryEmpty'
    BY <1>1 DEF SigningAgrees, RegistryEmpty
  <2>3. failures' \in 0 .. MaxFailures
    BY <1>2, MaxFailuresAssumption DEF SInv, IInv, TypeOK
  <2>4. faulted' \in BOOLEAN
    BY <1>2, Zenon DEF SInv, IInv, TypeOK
  <2>5. TypeOK'
    BY <1>1, <2>3, <2>4 DEF SInv, IInv, TypeOK, registry
  <2>6. QED
    BY <2>1, <2>2, <2>5 DEF IInv
<1>4. OnlyHandler(c) /\ task'[c] = "idle"
  BY <1>1 DEF SInv, OnlyHandler, HandlersShaped
<1>5. ~faulted' => ~faulted
  BY <1>2
<1>6. HandlerSound(c)'
  BY <1>1, <1>4, <1>5 DEF SInv, HandlerSound, ItemsTyped, NothingOverlooked, VerdictSound
<1>7. QED
  BY <1>1, <1>3, <1>4, <1>5, <1>6, QuietHandler DEF registry

(* A step of a server that serves keeps IInv when it keeps its table and    *)
(* maps in agreement and counts its failures.                               *)
LEMMA ServingStep ==
  ASSUME SInv, phase = "serving",
         certificates' \in Seq(Row), requests' \in Seq(Names \cup {NoName}),
         revoked' \subseteq DOMAIN certificates',
         RegistryAgrees', IssuedByAuthority',
         NoFailure \/ Fail,
         UNCHANGED <<config, phase, mode, entry, registry, exit, initialized>>
  PROVE  IInv'
<1>1. SigningAgrees' /\ RegistryEmpty'
  BY DEF SigningAgrees, RegistryEmpty
<1>2. failures' \in 0 .. MaxFailures
  BY MaxFailuresAssumption DEF SInv, IInv, TypeOK, Fail, NoFailure
<1>3. faulted' \in BOOLEAN
  BY Zenon DEF SInv, IInv, TypeOK, Fail, NoFailure
<1>4. TypeOK'
  BY <1>2, <1>3 DEF SInv, IInv, TypeOK, registry
<1>5. QED
  BY <1>1, <1>4 DEF IInv

-----------------------------------------------------------------------------
(* POST /verifyCertificate.                                                *)
LEMMA VerifyPreserves ==
  ASSUME NEW c \in Connections, SInv,
         ReadAuthorities(c) \/ ReadList(c) \/ ListsRead(c) \/ Decide(c)
  PROVE  SInv'
<1>1. CASE Die("crash")
  BY <1>1, DiePreserves
<1>2. CASE ~Die("crash")
  <2>1. /\ UNCHANGED <<certificates, requests, revoked, crl, config, phase, mode,
                       entry, registry, exit, initialized>>
        /\ phase = "serving" /\ task[c] \in {"authorities", "lists", "deciding"}
        /\ UNCHANGED <<items, target, known, stale>>
        /\ NoFailure \/ Fail
    BY <1>2 DEF ReadAuthorities, ReadList, ListsRead, Decide, At, Answer,
       startupVars, database, history, NoFailure
  <2>2. IInv' /\ UNCHANGED <<certificates, revoked, crl, phase, caPassword>>
    <3>1. RegistryAgrees' /\ IssuedByAuthority'
      BY <2>1, NothingRegistered DEF SInv, IInv, registry
    <3>2. /\ certificates' \in Seq(Row) /\ requests' \in Seq(Names \cup {NoName})
          /\ revoked' \subseteq DOMAIN certificates'
      BY <2>1 DEF SInv, IInv, TypeOK
    <3>3. QED
      BY <2>1, <3>1, <3>2, ServingStep DEF registry
  <2>3. /\ OnlyHandler(c)
        /\ task'[c] \in {"lists", "deciding", "idle"}
    <3>1. CASE ReadAuthorities(c)
      BY <1>2, <2>1, <3>1 DEF SInv, HandlersShaped, OnlyHandler, ReadAuthorities
    <3>2. CASE ReadList(c)
      BY <2>1, <3>2 DEF SInv, HandlersShaped, OnlyHandler, ReadList, At
    <3>3. CASE ListsRead(c)
      BY <3>3 DEF SInv, HandlersShaped, OnlyHandler, ListsRead
    <3>4. CASE Decide(c)
      BY <3>4 DEF SInv, HandlersShaped, OnlyHandler, Decide, Answer
    <3>5. QED
      BY <3>1, <3>2, <3>3, <3>4
  <2>4. ASSUME ~faulted'
        PROVE
        /\ task'[c] = "lists" =>
             /\ unread'[c] \subseteq DOMAIN caPassword
             /\ known[c] \subseteq listed'[c] \cup UNION {crl[n] : n \in unread'[c]}
        /\ task'[c] = "deciding" => known[c] \subseteq listed'[c]
        /\ verdict'[c] = "VALID" /\ target[c] # 0 =>
             \/ verdict[c] = "VALID"
             \/ /\ target[c] \in DOMAIN certificates
                /\ target[c] \notin known[c]
                /\ certificates[target[c]].signer \notin known[c]
    <3>0. ~faulted /\ ~Fail
      BY <2>1, <2>4 DEF NoFailure, Fail
    <3>1. /\ task[c] = "authorities" => known[c] \subseteq Published
          /\ task[c] = "lists" =>
               /\ unread[c] \subseteq DOMAIN caPassword
               /\ known[c] \subseteq listed[c] \cup UNION {crl[n] : n \in unread[c]}
          /\ task[c] = "deciding" => known[c] \subseteq listed[c]
          /\ \A n \in DOMAIN caPassword : n \in DOMAIN crl
      BY <2>1, <3>0 DEF SInv, HandlerSound, NothingOverlooked, ListsAreSound
    <3>2. CASE ReadAuthorities(c)
      <4>1. /\ task[c] = "authorities"
            /\ task' = [task EXCEPT ![c] = "lists"]
            /\ verdict' = verdict
            /\ unread' = [unread EXCEPT ![c] = DOMAIN caPassword]
            /\ listed' = [listed EXCEPT ![c] = {}]
        BY <1>2, <3>2 DEF SInv, HandlersShaped, ReadAuthorities, At
      <4>2. known[c] \subseteq {} \cup UNION {crl[n] : n \in DOMAIN caPassword}
        BY <3>1, <4>1 DEF Published
      <4>3. QED
        BY <2>1, <4>1, <4>2 DEF SInv, HandlersShaped, OnlyHandler
    <3>3. CASE ReadList(c)
      <4>1. PICK n \in unread[c] :
              /\ listed' = [listed EXCEPT ![c] =
                              @ \cup IF n \in DOMAIN crl THEN crl[n] ELSE {}]
              /\ unread' = [unread EXCEPT ![c] = @ \ {n}]
        BY <3>0, <3>3 DEF ReadList
      <4>2. /\ task[c] = "lists" /\ task' = task /\ verdict' = verdict
        BY <3>3 DEF ReadList, At
      <4>3. n \in DOMAIN crl /\ unread[c] \subseteq DOMAIN caPassword
        BY <3>1, <4>1, <4>2
      <4>4. /\ unread' = [unread EXCEPT ![c] = unread[c] \ {n}]
            /\ listed' = [listed EXCEPT ![c] = listed[c] \cup crl[n]]
        BY <4>1, <4>2, <4>3 DEF SInv, HandlersShaped
      <4>5. known[c] \subseteq (listed[c] \cup crl[n])
                                 \cup UNION {crl[m] : m \in unread[c] \ {n}}
        BY <3>1, <4>2
      <4>6. /\ OnlyHandler(c)
            /\ task'[c] = "lists" /\ verdict'[c] = verdict[c]
            /\ unread'[c] = unread[c] \ {n}
            /\ listed'[c] = listed[c] \cup crl[n]
        BY <2>1, <4>2, <4>4 DEF SInv, HandlersShaped, OnlyHandler
      <4>7. QED
        BY <4>3, <4>5, <4>6
    <3>4. CASE ListsRead(c)
      <4>1. /\ task[c] = "lists" /\ unread[c] = {}
            /\ task' = [task EXCEPT ![c] = "deciding"]
            /\ verdict' = verdict
            /\ unread' = unread
            /\ listed' = listed
        BY <3>4 DEF SInv, HandlersShaped, ListsRead, At
      <4>2. known[c] \subseteq listed[c]
        BY <3>1, <4>1
      <4>3. QED
        BY <2>1, <4>1, <4>2 DEF SInv, HandlersShaped, OnlyHandler
    <3>5. CASE Decide(c)
      <4>1. /\ task[c] = "deciding"
            /\ task' = [task EXCEPT ![c] = "idle"]
            /\ target[c] = 0 \/ verdict' = [verdict EXCEPT ![c] =
                 IF IsCertificateValid(target[c], chain[c], listed[c])
                 THEN "VALID" ELSE "NOT VALID"]
            /\ unread' = unread
            /\ listed' = [listed EXCEPT ![c] = {}]
        BY <3>5 DEF SInv, HandlersShaped, Decide, At, Answer
      <4>2. known[c] \subseteq listed[c]
        BY <3>1, <4>1
      <4>3. IsCertificateValid(target[c], chain[c], listed[c]) =>
              /\ target[c] \in DOMAIN certificates
              /\ target[c] \notin known[c]
              /\ certificates[target[c]].signer \notin known[c]
        BY <4>2 DEF IsCertificateValid
      <4>4. QED
        BY <2>1, <4>1, <4>3 DEF SInv, HandlersShaped, OnlyHandler
    <3>6. QED
      BY <3>2, <3>3, <3>4, <3>5
  <2>5. known'[c] = known[c] /\ target'[c] = target[c] /\ items'[c] = items[c]
    BY <2>1
  <2>6. ~faulted' => ~faulted
    BY <2>1 DEF NoFailure, Fail
  <2>7. NothingOverlooked(c)'
    BY <2>2, <2>3, <2>4, <2>5 DEF NothingOverlooked
  <2>8. ItemsTyped(c)' /\ VerdictSound(c)'
    BY <2>2, <2>3, <2>4, <2>5, <2>6 DEF SInv, HandlerSound, ItemsTyped, VerdictSound
  <2>9. task[c] # "publishing"
    BY <2>1
  <2>10. QED
    BY <2>1, <2>2, <2>3, <2>6, <2>7, <2>8, <2>9, QuietHandler DEF HandlerSound
<1>3. QED
  BY <1>1, <1>2

-----------------------------------------------------------------------------
(* POST /certificateRequest: what a request makes the database store is     *)
(* issued as the configuration's certificates are.                          *)

(* A process in which a call failed stays one.                              *)
LEMMA FaultStays ==
  ASSUME NoFailure \/ Fail
  PROVE  ~faulted' => ~faulted
  BY DEF NoFailure, Fail

LEMMA IssuePreserves ==
  ASSUME NEW c \in Connections, SInv, IssueItem(c)
  PROVE  SInv'
<1> DEFINE item == Head(items[c])
           row(i) == CertificateRow(item.subject, item.issuer, item.type, i)
<1>1. /\ phase = "serving" /\ task[c] = "issuing" /\ items[c] # <<>>
      /\ UNCHANGED <<revoked, crl, config, phase, mode, entry, registry, exit,
                     initialized, verdict, unread, listed, known, stale>>
  BY DEF IssueItem, At
<1>2. /\ items[c] \in Seq(RequestItem) /\ item \in RequestItem
      /\ verdict[c] = "none"
  BY <1>1 DEF SInv, HandlerSound, ItemsTyped, VerdictSound
<1>3. /\ certificates \in Seq(Row) /\ requests \in Seq(Names \cup {NoName})
      /\ Append(requests, item.subject) \in Seq(Names \cup {NoName})
      /\ revoked \subseteq DOMAIN certificates
  BY <1>2 DEF SInv, IInv, TypeOK, RequestItem
<1>4. CASE /\ requests' = Append(requests, item.subject)
           /\ \E i \in AuthorityIds(certificates, item.issuer) :
                certificates' = Append(certificates, row(i))
           /\ task' = [task EXCEPT ![c] = "reading"]
           /\ target' = [target EXCEPT ![c] = Len(certificates) + 1]
           /\ UNCHANGED items
           /\ NoFailure
  <2>1. PICK signer \in AuthorityIds(certificates, item.issuer) :
               certificates' = Append(certificates, row(signer))
    BY <1>4
  <2>2. row(signer) \in Row
    <3>1. signer \in Nat
      BY <1>3 DEF AuthorityIds
    <3>2. /\ item.subject \in Names \cup {NoName}
          /\ item.issuer \in Names \cup {NoName}
          /\ item.type \in CertificateType
      BY <1>2 DEF RequestItem
    <3>3. QED
      BY <3>1, <3>2, RowTyped
  <2>3. IssuedByAuthority'
    BY <1>2, <1>3, <2>1, AppendIssued DEF SInv, IInv, RequestItem
  <2> HIDE DEF row, item
  <2>4. RegistryAgrees'
    BY <1>1, <1>3, <2>1, <2>2, AppendIds DEF SInv, IInv, RegistryAgrees, registry
  <2>5. /\ certificates' \in Seq(Row)
        /\ DOMAIN certificates \subseteq DOMAIN certificates'
        /\ \A i \in DOMAIN certificates : certificates'[i] = certificates[i]
    BY <1>3, <2>1, <2>2, AppendIds
  <2>6. IInv'
    BY <1>1, <1>3, <1>4, <2>3, <2>4, <2>5, ServingStep
  <2>7. Grows
    BY <1>1, <1>4, <2>5, FaultStays DEF Grows, SInv, ListsAreSound, registry
  <2>8. OnlyHandler(c)
    BY <1>1, <1>4 DEF SInv, HandlersShaped, OnlyHandler
  <2>9. HandlerSound(c)'
    <3>1. task'[c] = "reading"
      BY <1>1, <1>4 DEF SInv, HandlersShaped
    <3>2. QED
      BY <1>1, <1>2, <1>4, <3>1 DEF HandlerSound, ItemsTyped,
         NothingOverlooked, VerdictSound
  <2>10. \A d \in Connections : HandlerSound(d)'
    BY <2>7, <2>8, <2>9, OthersSound
  <2>11. ListsAreSound'
    BY <1>1, <1>3, <1>4, <2>5, FaultStays DEF SInv, ListsAreSound, RevokedBy, registry
  <2>12. RevocationPublished'
    <3>1. InFlight \subseteq InFlight'
      BY <1>1, <1>4, <2>8 DEF InFlight, OnlyHandler
    <3>2. QED
      BY <1>1, <1>3, <2>5, <3>1 DEF SInv, RevocationPublished, registry
  <2>13. QED
    BY <1>1, <2>6, <2>8, <2>10, <2>11, <2>12
    DEF SInv, OnlyHandler, HandlersGone
<1>5. CASE /\ Fail
           /\ Refuse(c)
           /\ requests' \in {requests, Append(requests, item.subject)}
           /\ UNCHANGED <<certificates, target>>
  <2>1. RegistryAgrees' /\ IssuedByAuthority'
    BY <1>1, <1>5, NothingRegistered DEF SInv, IInv, registry
  <2>2. IInv'
    BY <1>1, <1>3, <1>5, <2>1, ServingStep
  <2>3. OnlyHandler(c) /\ task'[c] = "idle"
    BY <1>1, <1>5 DEF SInv, HandlersShaped, OnlyHandler, Refuse, Answer
  <2>4. HandlerSound(c)'
    BY <1>1, <1>5, <2>3, FaultStays DEF SInv, HandlerSound, ItemsTyped,
       NothingOverlooked, VerdictSound
  <2>5. QED
    BY <1>1, <1>5, <2>2, <2>3, <2>4, QuietHandler, FaultStays DEF registry
<1>6. QED
  BY <1>4, <1>5 DEF IssueItem, Issued

LEMMA ReadBackPreserves ==
  ASSUME NEW c \in Connections, SInv, ReadBack(c)
  PROVE  SInv'
<1>1. /\ phase = "serving" /\ task[c] = "reading"
      /\ items' = [items EXCEPT ![c] = Tail(@)]
      /\ task' = [task EXCEPT ![c] = "issuing"]
      /\ target' = [target EXCEPT ![c] = 0]
      /\ UNCHANGED <<certificates, requests, revoked, crl, config, phase, mode,
                     entry, registry, exit, initialized, verdict, unread,
                     listed, known, stale>>
      /\ NoFailure \/ Fail
  BY DEF ReadBack, At, database
<1>2. /\ items[c] \in Seq(RequestItem) /\ items[c] # <<>>
      /\ verdict[c] = "none"
  BY <1>1 DEF SInv, HandlerSound, ItemsTyped, VerdictSound
<1>3. IInv'
  <2>1. RegistryAgrees' /\ IssuedByAuthority'
    BY <1>1, NothingRegistered DEF SInv, IInv, registry
  <2>2. /\ certificates' \in Seq(Row) /\ requests' \in Seq(Names \cup {NoName})
        /\ revoked' \subseteq DOMAIN certificates'
    BY <1>1 DEF SInv, IInv, TypeOK
  <2>3. QED
    BY <1>1, <2>1, <2>2, ServingStep
<1>4. OnlyHandler(c) /\ task'[c] = "issuing" /\ items'[c] = Tail(items[c])
  BY <1>1 DEF SInv, HandlersShaped, OnlyHandler
<1>5. Tail(items[c]) \in Seq(RequestItem)
  BY <1>2
<1>6. HandlerSound(c)'
  BY <1>1, <1>2, <1>4, <1>5 DEF HandlerSound, ItemsTyped, NothingOverlooked,
     VerdictSound
<1>7. QED
  BY <1>1, <1>3, <1>4, <1>6, QuietHandler, FaultStays DEF registry

-----------------------------------------------------------------------------
(* POST /certificateRevocationList.                                        *)
LEMMA RevokePreserves ==
  ASSUME NEW c \in Connections, SInv, Revoke(c)
  PROVE  SInv'
<1> DEFINE item == Head(items[c])
<1>1. /\ phase = "serving" /\ task[c] = "revoking" /\ items[c] # <<>>
      /\ item.serial \in DOMAIN certificates
      /\ revoked' = revoked \cup {item.serial}
      /\ task' = [task EXCEPT ![c] = "publishing"]
      /\ UNCHANGED <<certificates, requests, crl, config, phase, mode, entry,
                     registry, exit, failures, faulted, initialized, items,
                     verdict, target, unread, listed, known, stale>>
  BY DEF Revoke, At, history
<1>2. IInv'
  <2>1. RegistryAgrees' /\ IssuedByAuthority'
    BY <1>1, NothingRegistered DEF SInv, IInv, registry
  <2>2. /\ certificates' \in Seq(Row) /\ requests' \in Seq(Names \cup {NoName})
        /\ revoked' \subseteq DOMAIN certificates'
    BY <1>1 DEF SInv, IInv, TypeOK
  <2>3. QED
    BY <1>1, <2>1, <2>2, ServingStep DEF NoFailure
<1>3. Grows /\ OnlyHandler(c)
  BY <1>1 DEF Grows, SInv, ListsAreSound, registry, HandlersShaped, OnlyHandler
<1>4. task'[c] = "publishing"
  BY <1>1 DEF SInv, HandlersShaped
<1>5. HandlerSound(c)'
  <2>1. ItemsTyped(c)'
    BY <1>1, <1>4 DEF SInv, HandlerSound, ItemsTyped
  <2>2. NothingOverlooked(c)' /\ VerdictSound(c)'
    BY <1>1, <1>4 DEF SInv, HandlerSound, NothingOverlooked, VerdictSound
  <2>3. QED
    BY <2>1, <2>2 DEF HandlerSound
<1>6. \A d \in Connections : HandlerSound(d)'
  BY <1>3, <1>5, OthersSound
<1>7. ListsAreSound'
  BY <1>1 DEF SInv, ListsAreSound, RevokedBy, registry
<1>8. RevocationPublished'
  <2>1. InFlight \cup {item.serial} \subseteq InFlight'
    BY <1>1, <1>3, <1>4 DEF InFlight, OnlyHandler
  <2>2. QED
    BY <1>1, <2>1 DEF SInv, RevocationPublished, registry
<1>9. QED
  BY <1>1, <1>2, <1>3, <1>6, <1>7, <1>8 DEF SInv, OnlyHandler, HandlersGone

LEMMA PublishPreserves ==
  ASSUME NEW c \in Connections, SInv, Publish(c)
  PROVE  SInv'
<1> DEFINE item == Head(items[c])
<1>1. /\ phase = "serving" /\ task[c] = "publishing"
      /\ items' = [items EXCEPT ![c] = Tail(@)]
      /\ task' = [task EXCEPT ![c] = "revoking"]
      /\ UNCHANGED <<certificates, requests, revoked, config, phase, mode, entry,
                     registry, exit, initialized, verdict, target, unread,
                     listed, known>>
      /\ NoFailure \/ Fail
  BY DEF Publish, At, database
<1>2. /\ items[c] \in Seq(RevocationItem) /\ items[c] # <<>>
      /\ item.serial \in revoked
  BY <1>1 DEF SInv, HandlerSound, ItemsTyped
<1>3. \/ /\ item.issuer \in DOMAIN caPassword
         /\ WriteLists({item.issuer})
         /\ stale' = {s \in stale \cup {item.serial} :
                        certificates[s].issuer # item.issuer}
      \/ /\ crl' = crl
         /\ stale' = stale \cup {item.serial}
  BY DEF Publish
<1> HIDE DEF item
<1>4. IInv'
  <2>1. RegistryAgrees' /\ IssuedByAuthority'
    BY <1>1, NothingRegistered DEF SInv, IInv, registry
  <2>2. /\ certificates' \in Seq(Row) /\ requests' \in Seq(Names \cup {NoName})
        /\ revoked' \subseteq DOMAIN certificates'
    BY <1>1 DEF SInv, IInv, TypeOK
  <2>3. QED
    BY <1>1, <2>1, <2>2, ServingStep
<1>5. \A n \in DOMAIN crl :
        /\ n \in DOMAIN crl'
        /\ \/ crl'[n] = crl[n]
           \/ n = item.issuer /\ crl'[n] = RevokedBy(n)
  <2>1. CASE WriteLists({item.issuer})
    BY <2>1 DEF WriteLists
  <2>2. CASE crl' = crl
    BY <2>2
  <2>3. QED
    BY <1>3, <2>1, <2>2
<1>6. Grows
  <2>1. ASSUME ~faulted'
        PROVE  /\ ~faulted
               /\ \A n \in DOMAIN caPassword :
                    n \in DOMAIN crl /\ n \in DOMAIN crl' /\ crl[n] \subseteq crl'[n]
    <3>1. ~faulted
      BY <1>1, <2>1, FaultStays
    <3>2. QED
      BY <1>1, <1>5, <3>1 DEF SInv, ListsAreSound
  <2>2. QED
    BY <1>1, <2>1 DEF Grows, registry
<1>7. OnlyHandler(c) /\ task'[c] = "revoking" /\ items'[c] = Tail(items[c])
  BY <1>1 DEF SInv, HandlersShaped, OnlyHandler
<1>8. HandlerSound(c)'
  <2>1. items'[c] \in Seq(RevocationItem)
    BY <1>2, <1>7
  <2>2. ~faulted' => ~faulted
    BY <1>1, FaultStays
  <2>3. QED
    BY <1>1, <1>7, <2>1, <2>2 DEF SInv, HandlerSound, ItemsTyped,
       NothingOverlooked, VerdictSound
<1>9. \A d \in Connections : HandlerSound(d)'
  BY <1>6, <1>7, <1>8, OthersSound
<1>10. ListsAreSound'
  <2>1. ASSUME ~faulted', NEW n \in DOMAIN caPassword
        PROVE  n \in DOMAIN crl' /\ crl'[n] \subseteq RevokedBy(n)
    <3>1. ~faulted
      BY <1>1, <2>1, FaultStays
    <3>2. n \in DOMAIN crl /\ crl[n] \subseteq RevokedBy(n)
      BY <1>1, <3>1 DEF SInv, ListsAreSound
    <3>3. QED
      BY <1>5, <3>2
  <2>2. caPassword' = caPassword
    BY <1>1 DEF registry
  <2>3. QED
    BY <1>1, <2>1, <2>2 DEF ListsAreSound, RevokedBy
<1>11. RevocationPublished'
  <2>1. SUFFICES ASSUME NEW s \in revoked,
                        certificates[s].issuer \in DOMAIN caPassword
                 PROVE  \/ /\ certificates[s].issuer \in DOMAIN crl'
                           /\ s \in crl'[certificates[s].issuer]
                        \/ s \in stale'
                        \/ s \in InFlight'
    BY <1>1 DEF RevocationPublished, registry
  <2>2. \/ /\ certificates[s].issuer \in DOMAIN crl
           /\ s \in crl[certificates[s].issuer]
        \/ s \in stale
        \/ s \in InFlight
    BY <1>1, <2>1 DEF SInv, RevocationPublished
  <2>3. CASE /\ certificates[s].issuer \in DOMAIN crl
             /\ s \in crl[certificates[s].issuer]
    BY <1>5, <2>1, <2>3 DEF RevokedBy
  <2>4. CASE s \in stale \/ s = item.serial
    <3>1. CASE /\ item.issuer \in DOMAIN caPassword
               /\ WriteLists({item.issuer})
               /\ stale' = {x \in stale \cup {item.serial} :
                              certificates[x].issuer # item.issuer}
      <4>1. CASE certificates[s].issuer = item.issuer
        <5>1. item.issuer \in DOMAIN crl' /\ crl'[item.issuer] = RevokedBy(item.issuer)
          BY <3>1 DEF WriteLists
        <5>2. QED
          BY <2>1, <4>1, <5>1 DEF RevokedBy
      <4>2. CASE certificates[s].issuer # item.issuer
        BY <2>4, <3>1, <4>2
      <4>3. QED
        BY <4>1, <4>2
    <3>2. CASE stale' = stale \cup {item.serial}
      BY <2>4, <3>2
    <3>3. QED
      BY <1>3, <3>1, <3>2
  <2>5. CASE s \in InFlight /\ s # item.serial
    <3>1. PICK d \in Connections : task[d] = "publishing" /\ s = Head(items[d]).serial
      BY <2>5 DEF InFlight
    <3>2. d # c
      BY <2>5, <3>1 DEF item
    <3>3. task'[d] = "publishing" /\ s = Head(items'[d]).serial
      BY <1>7, <3>1, <3>2 DEF OnlyHandler
    <3>4. QED
      BY <3>3 DEF InFlight
  <2>6. QED
    BY <2>2, <2>3, <2>4, <2>5
<1>12. QED
  BY <1>1, <1>4, <1>7, <1>9, <1>10, <1>11 DEF SInv, OnlyHandler, HandlersGone

-----------------------------------------------------------------------------
(* The inductive invariant of the server.                                   *)

LEMMA InitSInv == ServerInit => SInv
<1> SUFFICES ASSUME ServerInit PROVE SInv
  OBVIOUS
<1>1. IInv
  BY InitIInv DEF ServerInit
<1>2. phase = "down"
  BY DEF ServerInit, Init
<1>3. HandlersShaped /\ HandlersGone /\ \A c \in Connections : HandlerSound(c)
  BY DEF ServerInit, HandlersShaped, HandlersGone, HandlerSound, ItemsTyped,
         NothingOverlooked, VerdictSound
<1>4. ListsAreSound /\ RevocationPublished
  BY <1>2 DEF ListsAreSound, RevocationPublished
<1>5. QED
  BY <1>1, <1>3, <1>4 DEF SInv

LEMMA NextSInv == SInv /\ [ServerNext]_serverVars => SInv'
<1> SUFFICES ASSUME SInv, [ServerNext]_serverVars PROVE SInv'
  OBVIOUS
<1>1. CASE StartupStep \/ ServerCrash
  BY <1>1, StartupPreserves, CrashPreserves
<1>2. ASSUME NEW c \in Connections, ReceiveRequest(c)
      PROVE  SInv'
  BY <1>2, AnswerPreserves, ReceivePreserves DEF ReceiveRequest
<1>3. ASSUME NEW c \in Connections, Handle(c)
      PROVE  SInv'
  BY <1>3, EndOfRequestPreserves, IssuePreserves, ReadBackPreserves,
     RevokePreserves, PublishPreserves, VerifyPreserves DEF Handle
<1>4. CASE UNCHANGED serverVars
  <2>1. IInv'
    BY <1>4, StartupUnchanged DEF SInv, serverVars
  <2>2. UNCHANGED <<certificates, revoked, crl, phase, caPassword, faulted,
                    handlers, stale>>
    BY <1>4 DEF serverVars, startupVars, database, registry, history, handlerVars
  <2>3. ListsAreSound' /\ RevocationPublished'
    BY <2>2 DEF SInv, ListsAreSound, RevokedBy, RevocationPublished, InFlight,
       handlers
  <2>4. HandlersShaped' /\ HandlersGone' /\ \A c \in Connections : HandlerSound(c)'
    BY <2>2 DEF SInv, HandlersShaped, HandlersGone, HandlerSound, ItemsTyped,
       NothingOverlooked, VerdictSound, Published, handlers
  <2>5. QED
    BY <2>1, <2>3, <2>4 DEF SInv
<1>5. QED
  BY <1>1, <1>2, <1>3, <1>4 DEF ServerNext

(* What the tables, the lists and the handlers hold agree, step by step.    *)
THEOREM ServerInvariant == ServerSpec => []SInv
<1>1. ServerInit => SInv
  BY InitSInv
<1>2. SInv /\ [ServerNext]_serverVars => SInv'
  BY NextSInv
<1>3. QED
  BY <1>1, <1>2, PTL DEF ServerSpec

(* Certificates that clients request are issued by authorities of the       *)
(* database, too.                                                           *)
THEOREM ServerIssuanceCorrect == ServerSpec => []IssuedByAuthority
<1>1. SInv => IssuedByAuthority
  BY DEF SInv, IInv
<1>2. QED
  BY <1>1, ServerInvariant, PTL

(* While the server serves, its lists hold nothing but certificates that    *)
(* were revoked and that the authority issued.                              *)
THEOREM ListsCorrect == ServerSpec => []ListsAreSound
<1>1. SInv => ListsAreSound
  BY DEF SInv
<1>2. QED
  BY <1>1, ServerInvariant, PTL

(* A revocation is in its issuer's list, unless its list is about to be     *)
(* written or was not the one that was written.                             *)
THEOREM RevocationsPublished == ServerSpec => []RevocationPublished
<1>1. SInv => RevocationPublished
  BY DEF SInv
<1>2. QED
  BY <1>1, ServerInvariant, PTL

(* VALID is answered for no certificate whose revocation, or whose          *)
(* signer's, was published when the request arrived.                        *)
THEOREM VerdictsRespectRevocation == ServerSpec => []VerdictRespectsRevocation
<1>1. SInv => VerdictRespectsRevocation
  BY DEF SInv, HandlerSound, VerdictSound, VerdictRespectsRevocation
<1>2. QED
  BY <1>1, ServerInvariant, PTL

-----------------------------------------------------------------------------
(* The types of the handlers, and what they answer.                        *)

Idle(c) == /\ task[c] = "idle" /\ items[c] = <<>> /\ body[c] = <<>>
           /\ target[c] = 0 /\ chain[c] = {} /\ listed[c] = {}
           /\ asked[c] = <<>>

(* Nothing is left of the handlers of a process that ended.                 *)
HandlersCleared ==
  phase # "serving" => stale = {} /\ \A c \in Connections : Idle(c)

(* Every variable of a handler the two properties are about is shaped.      *)
AnswersShaped ==
  /\ DOMAIN body = Connections /\ DOMAIN chain = Connections
  /\ DOMAIN asked = Connections

(* A row has what an element of a request asks for.                         *)
Fits(row, item) == /\ row.subject = item.subject
                   /\ row.issuer = item.issuer
                   /\ row.type = item.type

(* The certificates of rows of a table are ones that elements among the     *)
(* first n of a request asked for, in the order of the request.             *)
Placed(table, rows, request, n) ==
  \E place \in [DOMAIN rows -> 1 .. n] :
    \A k \in DOMAIN rows :
      /\ \A j \in DOMAIN rows : j < k => place[j] < place[k]
      /\ Fits(table[rows[k]], request[place[k]])

(* Of the request of c the first n elements are done and items[c] is left.  *)
InProgress(c, n) ==
  /\ Len(asked[c]) = n + Len(items[c])
  /\ \A k \in DOMAIN items[c] : items[c][k] = asked[c][n + k]
  /\ Placed(certificates, body[c], asked[c], n)
  /\ ~faulted => Len(body[c]) = n

(* What is answered is for what was asked, and it is the whole of it while  *)
(* no call has failed.  A certificate that is to be read back is the one of *)
(* the element at hand.                                                     *)
AnswerSound(c) ==
  /\ asked[c] \in Seq(RequestItem)
  /\ body[c] \in Seq(DOMAIN certificates)
  /\ task[c] \notin {"idle", "issuing", "reading"} => body[c] = <<>> /\ asked[c] = <<>>
  /\ task[c] \in {"issuing", "reading"} => \E n \in Nat : InProgress(c, n)
  /\ task[c] = "reading" => /\ target[c] \in DOMAIN certificates
                            /\ Fits(certificates[target[c]], Head(items[c]))
  /\ task[c] = "idle" /\ status[c] = 200 =>
       /\ Placed(certificates, body[c], asked[c], Len(asked[c]))
       /\ ~faulted => Len(body[c]) = Len(asked[c])

(* The certificate to verify is a row of the table or of no row.            *)
TargetStored(c) == target[c] = 0 \/ target[c] \in DOMAIN certificates

(* While no call has failed, a verification has read a row for every        *)
(* authority, and only serial numbers of certificates that are revoked.     *)
ReadSound(c) ==
  ~faulted /\ task[c] \in {"lists", "deciding"} =>
    /\ \A n \in DOMAIN caPassword :
         \E i \in chain[c] : i \in AuthorityIds(certificates, n)
    /\ listed[c] \subseteq revoked

(* Why a verification answered NOT VALID.                                   *)
Explained(c) ==
  ~faulted /\ verdict[c] = "NOT VALID" /\ DistinctSubjects =>
    \/ target[c] = 0
    \/ revoked # {}
    \/ \E i \in DOMAIN certificates :
         certificates[i].issuer \notin DOMAIN caPassword

Answered(c) == AnswerSound(c) /\ TargetStored(c) /\ ReadSound(c) /\ Explained(c)

AInv == /\ ServerTypeOK
        /\ HandlersCleared
        /\ AnswersShaped
        /\ \A c \in Connections : Answered(c)

-----------------------------------------------------------------------------
(* Steps of one handler.                                                   *)

(* The part of the type invariant about one connection.                     *)
HandlerTyped(c) ==
  /\ task[c] \in {"issuing", "reading"} => items[c] \in Seq(RequestItem)
  /\ task[c] \in {"revoking", "publishing"} => items[c] \in Seq(RevocationItem)
  /\ task[c] \notin {"issuing", "reading", "revoking", "publishing"} => items[c] = <<>>
  /\ task[c] \in {"publishing", "reading"} => items[c] # <<>>
  /\ chain[c] \subseteq DOMAIN certificates
  /\ listed[c] \subseteq Nat

AnswersTyped ==
  /\ task \in [Connections -> Task]
  /\ status \in [Connections -> {0, 200, 400, 401, 404, 405}]
  /\ verdict \in [Connections -> {"none", "VALID", "NOT VALID"}]
  /\ target \in [Connections -> Nat]

(* The type invariant without its CASE.                                     *)
LEMMA ServerTypes ==
  ServerTypeOK <=> /\ TypeOK
                   /\ AnswersTyped
                   /\ \A c \in Connections : HandlerTyped(c)
                   /\ \A n \in DOMAIN crl : crl[n] \subseteq Nat
                   /\ stale \subseteq DOMAIN certificates
<1>1. ASSUME NEW c \in Connections
      PROVE  (items[c] \in CASE task[c] \in {"issuing", "reading"} -> Seq(RequestItem)
                             [] task[c] \in {"revoking", "publishing"}
                                  -> Seq(RevocationItem)
                             [] OTHER -> {<<>>})
             <=> /\ task[c] \in {"issuing", "reading"} => items[c] \in Seq(RequestItem)
                 /\ task[c] \in {"revoking", "publishing"}
                      => items[c] \in Seq(RevocationItem)
                 /\ task[c] \notin {"issuing", "reading", "revoking", "publishing"}
                      => items[c] = <<>>
  <2>1. CASE task[c] \in {"issuing", "reading"}
    BY <2>1
  <2>2. CASE task[c] \in {"revoking", "publishing"}
    BY <2>2
  <2>3. CASE task[c] \notin {"issuing", "reading", "revoking", "publishing"}
    BY <2>3
  <2>4. QED
    BY <2>1, <2>2, <2>3
<1>2. QED
  BY <1>1, Zenon DEF ServerTypeOK, AnswersTyped, HandlerTyped

(* The other connections' handlers do nothing in a step of c's.             *)
OnlyAnswers(c) ==
  /\ OnlyHandler(c)
  /\ AnswersShaped'
  /\ \A d \in Connections \ {c} :
       /\ status'[d] = status[d] /\ body'[d] = body[d]
       /\ chain'[d] = chain[d] /\ asked'[d] = asked[d]

(* What placed certificates is not disturbed by growth.                     *)
LEMMA GrownRows ==
  ASSUME NEW t, NEW u, NEW b \in Seq(DOMAIN t), NEW r, NEW n,
         DOMAIN t \subseteq DOMAIN u, \A i \in DOMAIN t : u[i] = t[i]
  PROVE  /\ b \in Seq(DOMAIN u)
         /\ Placed(t, b, r, n) => Placed(u, b, r, n)
<1>1. \A k \in DOMAIN b : b[k] \in DOMAIN t
  OBVIOUS
<1>2. b \in Seq(DOMAIN u)
  OBVIOUS
<1>3. \A k \in DOMAIN b : u[b[k]] = t[b[k]]
  BY <1>1
<1>4. QED
  BY <1>2, <1>3 DEF Placed

(* One more is done, one less is left.                                      *)
LEMMA OneDone ==
  ASSUME NEW all, NEW left, NEW n \in Nat, NEW length \in Nat,
         all = n + length, left = length - 1
  PROVE  all = (n + 1) + left
  OBVIOUS

(* No certificate is placed in any request.                                 *)
LEMMA PlacedNone ==
  ASSUME NEW t, NEW r, NEW n
  PROVE  Placed(t, <<>>, r, n)
<1>1. [k \in DOMAIN <<>> |-> k] \in [DOMAIN <<>> -> 1 .. n] /\ DOMAIN <<>> = {}
  OBVIOUS
<1>2. QED
  BY <1>1 DEF Placed

(* The answer to an empty request is empty.                                 *)
LEMMA NothingAnswered ==
  ASSUME NEW c, task'[c] = "idle", body'[c] = <<>>, asked'[c] = <<>>
  PROVE  AnswerSound(c)'
<1>1. /\ <<>> \in Seq(RequestItem) /\ <<>> \in Seq(DOMAIN certificates')
      /\ Placed(certificates', <<>>, <<>>, Len(<<>>))
  BY PlacedNone
<1>2. QED
  BY <1>1 DEF AnswerSound

(* The next element of a request is passed over, or it is given the next    *)
(* certificate.                                                             *)
LEMMA PlacedNext ==
  ASSUME NEW t, NEW S, NEW b \in Seq(S), NEW x \in S, NEW r, NEW n \in Nat,
         Placed(t, b, r, n)
  PROVE  /\ Placed(t, b, r, n + 1)
         /\ Fits(t[x], r[n + 1]) => Placed(t, Append(b, x), r, n + 1)
<1>1. PICK place \in [DOMAIN b -> 1 .. n] :
        \A k \in DOMAIN b :
          /\ \A j \in DOMAIN b : j < k => place[j] < place[k]
          /\ Fits(t[b[k]], r[place[k]])
  BY DEF Placed
<1>2. Placed(t, b, r, n + 1)
  <2>1. place \in [DOMAIN b -> 1 .. n + 1]
    BY <1>1
  <2>2. QED
    BY <1>1, <2>1 DEF Placed
<1>3. ASSUME Fits(t[x], r[n + 1])
      PROVE  Placed(t, Append(b, x), r, n + 1)
  <2> DEFINE e == Append(b, x)
             p == [k \in DOMAIN e |-> IF k = Len(b) + 1 THEN n + 1 ELSE place[k]]
  <2>1. /\ Len(b) \in Nat /\ DOMAIN b = 1 .. Len(b)
        /\ DOMAIN e = 1 .. Len(b) + 1
        /\ \A k \in 1 .. Len(b) : e[k] = b[k]
        /\ e[Len(b) + 1] = x
    OBVIOUS
  <2> HIDE DEF e
  <2>2. p \in [DOMAIN e -> 1 .. n + 1]
    BY <1>1, <2>1
  <2>3. ASSUME NEW k \in DOMAIN e
        PROVE  /\ \A j \in DOMAIN e : j < k => p[j] < p[k]
               /\ Fits(t[e[k]], r[p[k]])
    <3>1. CASE k = Len(b) + 1
      <4>1. p[k] = n + 1 /\ e[k] = x
        BY <2>1, <3>1
      <4>2. ASSUME NEW j \in DOMAIN e, j < k
            PROVE  p[j] < p[k]
        <5>1. j \in 1 .. Len(b) /\ j # Len(b) + 1
          BY <2>1, <3>1, <4>2
        <5>2. p[j] = place[j] /\ place[j] \in 1 .. n
          BY <1>1, <2>1, <5>1
        <5>3. QED
          BY <4>1, <5>2
      <4>3. QED
        BY <1>3, <4>1, <4>2
    <3>2. CASE k # Len(b) + 1
      <4>1. k \in 1 .. Len(b)
        BY <2>1, <3>2
      <4>2. p[k] = place[k] /\ e[k] = b[k]
        BY <2>1, <3>2, <4>1
      <4>3. \A j \in DOMAIN e : j < k => j \in 1 .. Len(b) /\ p[j] = place[j]
        BY <2>1, <4>1
      <4>4. QED
        BY <1>1, <2>1, <4>1, <4>2, <4>3
    <3>3. QED
      BY <3>1, <3>2
  <2> HIDE DEF p
  <2>4. Placed(t, e, r, n + 1)
    BY <2>2, <2>3 DEF Placed
  <2>5. QED
    BY <2>4 DEF e
<1>4. QED
  BY <1>2, <1>3

(* Growth disturbs nothing that a handler has said.                         *)
LEMMA OthersAnswered ==
  ASSUME NEW c \in Connections, NEW d \in Connections, d # c,
         SInv, SInv', AInv, Grows, OnlyAnswers(c)
  PROVE  Answered(d)' /\ HandlerTyped(d)'
<1>1. Answered(d)
  BY DEF AInv
<1>2. /\ task'[d] = task[d] /\ items'[d] = items[d] /\ verdict'[d] = verdict[d]
      /\ target'[d] = target[d] /\ listed'[d] = listed[d]
      /\ status'[d] = status[d] /\ body'[d] = body[d]
      /\ chain'[d] = chain[d] /\ asked'[d] = asked[d]
  BY DEF OnlyAnswers, OnlyHandler
<1>3. /\ DOMAIN certificates \subseteq DOMAIN certificates'
      /\ \A i \in DOMAIN certificates : certificates'[i] = certificates[i]
      /\ revoked \subseteq revoked' /\ caPassword' = caPassword
      /\ ~faulted' => ~faulted
  BY DEF Grows
<1>4. HandlerTyped(d)'
  <2>1. HandlerTyped(d)
    BY ServerTypes DEF AInv
  <2>2. QED
    BY <1>2, <1>3, <2>1 DEF HandlerTyped
<1>5. AnswerSound(d)'
  <2>1. AnswerSound(d)
    BY <1>1 DEF Answered
  <2>2. /\ body[d] \in Seq(DOMAIN certificates')
        /\ \A n : Placed(certificates, body[d], asked[d], n)
                  => Placed(certificates', body[d], asked[d], n)
    BY <1>3, <2>1, GrownRows DEF AnswerSound
  <2>3. \A n : InProgress(d, n) => InProgress(d, n)'
    BY <1>2, <1>3, <2>2 DEF InProgress
  <2>4. QED
    BY <1>2, <1>3, <2>1, <2>2, <2>3 DEF AnswerSound
<1>6. TargetStored(d)'
  BY <1>1, <1>2, <1>3 DEF Answered, TargetStored
<1>7. ReadSound(d)'
  <2>1. SUFFICES ASSUME ~faulted', task[d] \in {"lists", "deciding"}
                 PROVE  /\ \A n \in DOMAIN caPassword' :
                             \E i \in chain'[d] : i \in AuthorityIds(certificates', n)
                        /\ listed'[d] \subseteq revoked'
    BY <1>2 DEF ReadSound
  <2>2. /\ \A n \in DOMAIN caPassword :
             \E i \in chain[d] : i \in AuthorityIds(certificates, n)
        /\ listed[d] \subseteq revoked
    BY <1>1, <1>3, <2>1 DEF Answered, ReadSound
  <2>3. \A n : AuthorityIds(certificates, n) \subseteq AuthorityIds(certificates', n)
    BY <1>3 DEF AuthorityIds
  <2>4. QED
    BY <1>2, <1>3, <2>2, <2>3
<1>8. Explained(d)'
  <2>1. DistinctSubjects' => DistinctSubjects
    BY <1>3 DEF DistinctSubjects
  <2>2. QED
    BY <1>1, <1>2, <1>3, <2>1 DEF Answered, Explained
<1>9. QED
  BY <1>4, <1>5, <1>6, <1>7, <1>8 DEF Answered

(* What the handlers' part of the type invariant is after a step.           *)
LEMMA TypesAgain ==
  ASSUME TypeOK', AnswersTyped',
         \A c \in Connections : HandlerTyped(c)',
         \A n \in DOMAIN crl' : crl'[n] \subseteq Nat,
         stale' \subseteq DOMAIN certificates'
  PROVE  ServerTypeOK'
<1>1. ASSUME NEW d \in Connections
      PROVE  items'[d] \in CASE task'[d] \in {"issuing", "reading"} -> Seq(RequestItem)
                             [] task'[d] \in {"revoking", "publishing"}
                                  -> Seq(RevocationItem)
                             [] OTHER -> {<<>>}
  <2>1. HandlerTyped(d)'
    OBVIOUS
  <2>2. CASE task'[d] \in {"issuing", "reading"}
    BY <2>1, <2>2 DEF HandlerTyped
  <2>3. CASE task'[d] \in {"revoking", "publishing"}
    BY <2>1, <2>3 DEF HandlerTyped
  <2>4. CASE task'[d] \notin {"issuing", "reading", "revoking", "publishing"}
    BY <2>1, <2>4 DEF HandlerTyped
  <2>5. QED
    BY <2>2, <2>3, <2>4
<1>2. QED
  BY <1>1, Zenon DEF ServerTypeOK, AnswersTyped, HandlerTyped

LEMMA StepAnswers ==
  ASSUME NEW c \in Connections, SInv, SInv', AInv, Grows, OnlyAnswers(c),
         AnswersTyped', HandlerTyped(c)', Answered(c)',
         \A n \in DOMAIN crl' : crl'[n] \subseteq Nat,
         stale' \subseteq DOMAIN certificates'
  PROVE  AInv'
<1>1. \A d \in Connections : Answered(d)' /\ HandlerTyped(d)'
  BY OthersAnswered
<1>2. ServerTypeOK'
  BY <1>1, TypesAgain DEF SInv, IInv
<1>3. HandlersCleared'
  BY DEF Grows, HandlersCleared
<1>4. QED
  BY <1>1, <1>2, <1>3 DEF AInv, OnlyAnswers

(* A step that changes neither tables nor files.                            *)
LEMMA QuietAnswers ==
  ASSUME NEW c \in Connections, SInv, SInv', AInv, phase = "serving",
         UNCHANGED <<certificates, revoked, crl, phase, caPassword, stale>>,
         ~faulted' => ~faulted,
         OnlyAnswers(c), AnswersTyped', HandlerTyped(c)', Answered(c)'
  PROVE  AInv'
<1>1. Grows
  BY DEF Grows, SInv, ListsAreSound
<1>2. /\ \A n \in DOMAIN crl' : crl'[n] \subseteq Nat
      /\ stale' \subseteq DOMAIN certificates'
  BY ServerTypes DEF AInv
<1>3. QED
  BY <1>1, <1>2, StepAnswers

-----------------------------------------------------------------------------
(* The process ends.                                                        *)
LEMMA EndAnswers ==
  ASSUME SInv', AInv, crl' = crl, phase' = "down", DropHandlers
  PROVE  AInv'
<1>1. AnswersTyped' /\ AnswersShaped' /\ HandlersCleared'
  BY DEF DropHandlers, AnswersTyped, AnswersShaped, HandlersCleared, Idle, Task
<1>2. /\ \A n \in DOMAIN crl' : crl'[n] \subseteq Nat
      /\ stale' \subseteq DOMAIN certificates'
  BY ServerTypes DEF AInv, DropHandlers
<1>3. ASSUME NEW c \in Connections
      PROVE  Answered(c)' /\ HandlerTyped(c)'
  <2>1. /\ task'[c] = "idle" /\ items'[c] = <<>> /\ status'[c] = 0
        /\ body'[c] = <<>> /\ verdict'[c] = "none" /\ target'[c] = 0
        /\ chain'[c] = {} /\ listed'[c] = {} /\ asked'[c] = <<>>
    BY DEF DropHandlers
  <2>2. AnswerSound(c)' /\ TargetStored(c)' /\ ReadSound(c)' /\ Explained(c)'
    BY <2>1 DEF AnswerSound, TargetStored, ReadSound, Explained
  <2>3. HandlerTyped(c)'
    BY <2>1 DEF HandlerTyped
  <2>4. QED
    BY <2>2, <2>3 DEF Answered
<1>4. ServerTypeOK'
  BY <1>1, <1>2, <1>3, TypesAgain DEF SInv, IInv
<1>5. QED
  BY <1>1, <1>3, <1>4 DEF AInv

(* Requests that are answered at once, or that end the process.             *)
LEMMA AtOnceAnswers ==
  ASSUME NEW c \in Connections, SInv, SInv', AInv,
         \/ AnswerRefusal(c) \/ AnswerListing(c) \/ AnswerFromMaster(c)
         \/ AnswerNotFoundPage(c)
  PROVE  AInv'
<1>1. CASE Die("crash") \/ Die("exception")
  BY <1>1, EndAnswers DEF Die
<1>2. CASE ~(Die("crash") \/ Die("exception"))
  <2>1. /\ UNCHANGED startupVars
        /\ phase = "serving" /\ task[c] = "idle"
        /\ body' = [body EXCEPT ![c] = <<>>]
        /\ verdict' = [verdict EXCEPT ![c] = "none"]
        /\ asked' = [asked EXCEPT ![c] = <<>>]
        /\ UNCHANGED <<task, items, target, chain, listed, unread, known, stale>>
    BY <1>2 DEF AnswerRefusal, AnswerListing, AnswerFromMaster,
       AnswerNotFoundPage, AtOnce, Ready
  <2>2. /\ status' \in [Connections -> {0, 200, 400, 401, 404, 405}]
        /\ \A d \in Connections \ {c} : status'[d] = status[d]
    <3>1. status \in [Connections -> {0, 200, 400, 401, 404, 405}]
      BY ServerTypes DEF AInv, AnswersTyped
    <3>2. CASE AnswerRefusal(c)
      <4>1. PICK code \in {400, 401, 405} : status' = [status EXCEPT ![c] = code]
        BY <3>2 DEF AnswerRefusal
      <4>2. QED
        BY <3>1, <4>1
    <3>3. CASE AnswerListing(c)
      <4>1. PICK found : status' = [status EXCEPT ![c] = IF found THEN 200 ELSE 404]
        BY <3>3 DEF AnswerListing
      <4>2. QED
        BY <3>1, <4>1
    <3>4. CASE AnswerFromMaster(c)
      BY <1>2, <3>1, <3>4 DEF AnswerFromMaster
    <3>5. CASE AnswerNotFoundPage(c)
      BY <1>2, <3>5 DEF AnswerNotFoundPage
    <3>6. QED
      BY <1>2, <3>2, <3>3, <3>4, <3>5
  <2>3. /\ UNCHANGED <<certificates, revoked, crl, phase, caPassword, stale>>
        /\ faulted' = faulted
    BY <2>1 DEF startupVars, database, registry, history
  <2>4. AnswersTyped /\ HandlerTyped(c) /\ Answered(c)
    BY ServerTypes DEF AInv
  <2>5. /\ AnswersTyped' /\ OnlyAnswers(c)
        /\ body'[c] = <<>> /\ asked'[c] = <<>> /\ verdict'[c] = "none"
    <3>1. AnswersTyped'
      BY <2>1, <2>2, <2>4 DEF AnswersTyped
    <3>2. OnlyAnswers(c)
      BY <2>1, <2>2, <2>4 DEF SInv, AInv, HandlersShaped, AnswersShaped,
         AnswersTyped, OnlyAnswers, OnlyHandler
    <3>3. body'[c] = <<>> /\ asked'[c] = <<>> /\ verdict'[c] = "none"
      BY <2>1, <2>4 DEF AInv, AnswersShaped, AnswersTyped
    <3>4. QED
      BY <3>1, <3>2, <3>3
  <2>6. HandlerTyped(c)'
    BY <2>1, <2>3, <2>4 DEF HandlerTyped
  <2>7. Answered(c)'
    <3>1. AnswerSound(c)'
      BY <2>1, <2>5, NothingAnswered
    <3>2. QED
      BY <2>1, <2>3, <2>4, <2>5, <3>1
      DEF Answered, TargetStored, ReadSound, Explained
  <2>8. QED
    BY <2>1, <2>3, <2>5, <2>6, <2>7, QuietAnswers
<1>3. QED
  BY <1>1, <1>2

(* A request arrives: whatever the one before left is gone.                 *)
LEMMA ReceiveAnswers ==
  ASSUME NEW c \in Connections, SInv, SInv', AInv,
         ReceiveCertificateRequest(c) \/ ReceiveRevocation(c) \/ ReceiveVerify(c)
  PROVE  AInv'
<1>1. PICK t \in {"issuing", "revoking", "authorities"} :
        /\ Receive(c, t)
        /\ t = "issuing" => ReceiveCertificateRequest(c)
        /\ t = "revoking" => ReceiveRevocation(c)
        /\ t = "authorities" => ReceiveVerify(c)
  BY DEF ReceiveCertificateRequest, ReceiveRevocation, ReceiveVerify
<1>2. /\ UNCHANGED startupVars
      /\ phase = "serving" /\ task[c] = "idle"
      /\ task' = [task EXCEPT ![c] = t]
      /\ status' = [status EXCEPT ![c] = 0]
      /\ body' = [body EXCEPT ![c] = <<>>]
      /\ verdict' = [verdict EXCEPT ![c] = "none"]
      /\ UNCHANGED <<chain, unread, listed, stale>>
  BY <1>1 DEF Receive, Ready
<1>3. PICK r, n, k, a :
        /\ items' = items \/ items' = [items EXCEPT ![c] = r]
        /\ target' = [target EXCEPT ![c] = n]
        /\ known' = [known EXCEPT ![c] = k]
        /\ asked' = [asked EXCEPT ![c] = a]
        /\ n = 0 \/ n \in DOMAIN certificates
        /\ t = "issuing" => /\ items' = [items EXCEPT ![c] = r]
                            /\ r \in CertificateRequests /\ a = r
        /\ t # "issuing" => a = <<>>
        /\ t = "revoking" => /\ items' = [items EXCEPT ![c] = r]
                             /\ r \in RevocationRequests
        /\ t = "authorities" => items' = items
  <2>1. CASE t = "issuing"
    BY <1>1, <2>1 DEF ReceiveCertificateRequest
  <2>2. CASE t = "revoking"
    BY <1>1, <2>2 DEF ReceiveRevocation
  <2>3. CASE t = "authorities"
    <3>1. PICK r \in VerifyRequests : target' = [target EXCEPT ![c] =
            IF r # <<>> /\ Last(r) \in DOMAIN certificates THEN Last(r) ELSE 0]
      BY <1>1, <2>3 DEF ReceiveVerify
    <3>2. PICK n : /\ target' = [target EXCEPT ![c] = n]
                   /\ n = 0 \/ n \in DOMAIN certificates
      BY <3>1
    <3>3. /\ items' = items
          /\ known' = [known EXCEPT ![c] = Published]
          /\ asked' = [asked EXCEPT ![c] = <<>>]
      BY <1>1, <2>3 DEF ReceiveVerify
    <3>4. QED
      BY <2>3, <3>2, <3>3
  <2>4. QED
    BY <2>1, <2>2, <2>3
<1>4. UNCHANGED <<certificates, revoked, crl, phase, caPassword, faulted>>
  BY <1>2 DEF startupVars, database, registry, history
<1>5. AnswersTyped /\ HandlerTyped(c) /\ Answered(c)
  BY ServerTypes DEF AInv
<1>6. OnlyAnswers(c)
  BY <1>2, <1>3 DEF SInv, AInv, HandlersShaped, AnswersShaped, OnlyAnswers, OnlyHandler
<1>7. /\ task'[c] = t /\ status'[c] = 0 /\ body'[c] = <<>> /\ verdict'[c] = "none"
      /\ target'[c] = n /\ asked'[c] = a
      /\ items'[c] = IF t = "authorities" THEN items[c] ELSE r
  <2>1. /\ task'[c] = t /\ status'[c] = 0 /\ body'[c] = <<>> /\ verdict'[c] = "none"
        /\ target'[c] = n /\ asked'[c] = a
    BY <1>2, <1>3, <1>5 DEF SInv, AInv, HandlersShaped, AnswersShaped, AnswersTyped
  <2>2. items'[c] = IF t = "authorities" THEN items[c] ELSE r
    BY <1>3 DEF SInv, HandlersShaped
  <2>3. QED
    BY <2>1, <2>2
<1>8. AnswersTyped'
  <2>1. n \in Nat
    BY <1>3 DEF SInv, IInv, TypeOK
  <2>2. QED
    BY <1>2, <1>3, <1>5, <2>1 DEF AnswersTyped, Task
<1>9. HandlerTyped(c)'
  BY <1>2, <1>3, <1>4, <1>5, <1>7, RequestsAssumption DEF HandlerTyped
<1>10. Answered(c)'
  <2>1. AnswerSound(c)'
    <3>1. CASE t = "issuing"
      <4>1. /\ asked'[c] = r /\ items'[c] = r /\ r \in Seq(RequestItem)
            /\ task'[c] = "issuing"
        BY <1>3, <1>7, <3>1, RequestsAssumption
      <4>2. <<>> \in Seq(DOMAIN certificates') /\ Len(<<>>) = 0
        OBVIOUS
      <4>3. Len(r) \in Nat /\ DOMAIN r = 1 .. Len(r)
        BY <4>1
      <4>4. InProgress(c, 0)'
        BY <1>7, <4>1, <4>2, <4>3, PlacedNone DEF InProgress
      <4>5. QED
        BY <1>7, <4>1, <4>2, <4>4 DEF AnswerSound
    <3>2. CASE t # "issuing"
      <4>1. a = <<>>
        BY <1>3, <3>2
      <4>2. <<>> \in Seq(RequestItem) /\ <<>> \in Seq(DOMAIN certificates')
        OBVIOUS
      <4>3. task'[c] \in {"revoking", "authorities"} /\ body'[c] = <<>> /\ asked'[c] = <<>>
        BY <1>7, <3>2, <4>1
      <4>4. QED
        BY <4>2, <4>3 DEF AnswerSound
    <3>3. QED
      BY <3>1, <3>2
  <2>2. TargetStored(c)' /\ ReadSound(c)' /\ Explained(c)'
    BY <1>3, <1>4, <1>7 DEF TargetStored, ReadSound, Explained
  <2>3. QED
    BY <2>1, <2>2 DEF Answered
<1>11. QED
  BY <1>2, <1>4, <1>6, <1>8, <1>9, <1>10, QuietAnswers

-----------------------------------------------------------------------------
(* POST /certificateRequest.                                               *)

LEMMA IssueAnswers ==
  ASSUME NEW c \in Connections, SInv, SInv', AInv, IssueItem(c)
  PROVE  AInv'
<1> DEFINE item == Head(items[c])
           row(i) == CertificateRow(item.subject, item.issuer, item.type, i)
<1>1. /\ phase = "serving" /\ task[c] = "issuing" /\ items[c] # <<>>
      /\ UNCHANGED <<revoked, crl, phase, registry, body, verdict, chain,
                     unread, listed, asked, known, stale>>
  BY DEF IssueItem, At
<1>2. AnswersTyped /\ HandlerTyped(c) /\ Answered(c)
  BY ServerTypes DEF AInv
<1>3. /\ \A n \in DOMAIN crl' : crl'[n] \subseteq Nat
      /\ stale' \subseteq DOMAIN certificates
      /\ verdict[c] = "none"
  BY <1>1, ServerTypes DEF SInv, HandlerSound, VerdictSound, AInv
<1>4. items[c] \in Seq(RequestItem) /\ item \in RequestItem
  BY <1>1, <1>2 DEF HandlerTyped
<1>5. certificates \in Seq(Row)
  BY DEF SInv, IInv, TypeOK
<1>6. CASE /\ \E i \in AuthorityIds(certificates, item.issuer) :
                certificates' = Append(certificates, row(i))
           /\ task' = [task EXCEPT ![c] = "reading"]
           /\ target' = [target EXCEPT ![c] = Len(certificates) + 1]
           /\ NoFailure
           /\ UNCHANGED <<items, status>>
  <2>1. PICK signer \in AuthorityIds(certificates, item.issuer) :
               certificates' = Append(certificates, row(signer))
    BY <1>6
  <2>2. row(signer) \in Row
    <3>1. signer \in Nat
      BY <1>5 DEF AuthorityIds
    <3>2. /\ item.subject \in Names \cup {NoName}
          /\ item.issuer \in Names \cup {NoName}
          /\ item.type \in CertificateType
      BY <1>4 DEF RequestItem
    <3>3. QED
      BY <3>1, <3>2, RowTyped
  <2>3. Fits(row(signer), item)
    BY DEF CertificateRow, Fits
  <2>4. /\ DOMAIN certificates \subseteq DOMAIN certificates'
        /\ \A i \in DOMAIN certificates : certificates'[i] = certificates[i]
        /\ Len(certificates) + 1 \in DOMAIN certificates'
        /\ certificates'[Len(certificates) + 1] = row(signer)
    <3> HIDE DEF row, item
    <3>1. QED
      BY <1>5, <2>1, <2>2, AppendIds
  <2> HIDE DEF row
  <2>5. Grows
    BY <1>1, <1>6, <2>4, FaultStays DEF Grows, SInv, ListsAreSound, registry
  <2>6. OnlyAnswers(c)
    BY <1>1, <1>6 DEF SInv, AInv, HandlersShaped, AnswersShaped, OnlyAnswers, OnlyHandler
  <2>7. /\ task'[c] = "reading" /\ target'[c] = Len(certificates) + 1
        /\ AnswersTyped'
    <3>1. Len(certificates) + 1 \in Nat
      BY <1>5
    <3>2. /\ task \in [Connections -> Task] /\ target \in [Connections -> Nat]
          /\ status' = status /\ verdict' = verdict
          /\ task' = [task EXCEPT ![c] = "reading"]
          /\ target' = [target EXCEPT ![c] = Len(certificates) + 1]
      BY <1>1, <1>2, <1>6 DEF AnswersTyped
    <3>3. /\ task'[c] = "reading" /\ task' \in [Connections -> Task]
      BY <3>2 DEF Task
    <3>4. /\ target'[c] = Len(certificates) + 1 /\ target' \in [Connections -> Nat]
      BY <3>1, <3>2
    <3>5. QED
      BY <1>2, <3>2, <3>3, <3>4 DEF AnswersTyped
  <2>8. HandlerTyped(c)'
    BY <1>1, <1>2, <1>4, <1>6, <2>4, <2>7 DEF HandlerTyped
  <2>9. AnswerSound(c)'
    <3>1. AnswerSound(c)
      BY <1>2 DEF Answered
    <3>2. PICK n \in Nat : InProgress(c, n)
      BY <1>1, <3>1 DEF AnswerSound
    <3>3. /\ body[c] \in Seq(DOMAIN certificates')
          /\ Placed(certificates', body[c], asked[c], n)
      BY <2>4, <3>1, <3>2, GrownRows DEF AnswerSound, InProgress
    <3>4. InProgress(c, n)'
      BY <1>1, <1>6, <3>2, <3>3, FaultStays DEF InProgress
    <3>5. Fits(certificates'[target'[c]], Head(items'[c]))
      BY <1>6, <2>3, <2>4, <2>7
    <3>6. QED
      BY <1>1, <2>4, <2>7, <3>1, <3>3, <3>4, <3>5 DEF AnswerSound
  <2>10. Answered(c)'
    BY <1>1, <1>3, <2>4, <2>7, <2>9 DEF Answered, TargetStored, ReadSound, Explained
  <2>11. QED
    BY <1>3, <2>4, <2>5, <2>6, <2>7, <2>8, <2>10, StepAnswers
<1>7. CASE /\ Fail
           /\ Refuse(c)
           /\ UNCHANGED <<certificates, target>>
  <2>1. /\ task'[c] = "idle" /\ items'[c] = <<>> /\ status'[c] = 400
        /\ OnlyAnswers(c) /\ AnswersTyped'
    <3>1. /\ task' = [task EXCEPT ![c] = "idle"]
          /\ status' = [status EXCEPT ![c] = 400]
          /\ items' = [items EXCEPT ![c] = <<>>]
          /\ target' = target
      BY <1>7 DEF Refuse, Answer
    <3>2. /\ HandlersShaped /\ AnswersShaped
          /\ DOMAIN status = Connections
      BY <1>2 DEF SInv, AInv, AnswersTyped
    <3>3. OnlyAnswers(c)
      BY <1>1, <3>1, <3>2 DEF HandlersShaped, AnswersShaped, OnlyAnswers, OnlyHandler
    <3>4. AnswersTyped'
      BY <1>1, <1>2, <3>1 DEF AnswersTyped, Task
    <3>5. QED
      BY <3>1, <3>2, <3>3, <3>4 DEF HandlersShaped
  <2>2. HandlerTyped(c)'
    BY <1>1, <1>2, <1>7, <2>1 DEF HandlerTyped
  <2>3. AnswerSound(c)'
    BY <1>1, <1>2, <1>7, <2>1 DEF Answered, AnswerSound
  <2>4. Answered(c)'
    BY <1>1, <1>2, <1>3, <1>7, <2>1, <2>3 DEF Answered, TargetStored, ReadSound,
       Explained
  <2>5. QED
    BY <1>1, <1>7, <2>1, <2>2, <2>4, QuietAnswers, FaultStays DEF registry
<1>8. QED
  BY <1>6, <1>7 DEF IssueItem, Issued

(* The row that is read back is the one generated for the element.          *)
LEMMA ReadBackAnswers ==
  ASSUME NEW c \in Connections, SInv, SInv', AInv, ReadBack(c)
  PROVE  AInv'
<1>1. /\ phase = "serving" /\ task[c] = "reading"
      /\ items' = [items EXCEPT ![c] = Tail(@)]
      /\ task' = [task EXCEPT ![c] = "issuing"]
      /\ target' = [target EXCEPT ![c] = 0]
      /\ \/ /\ body' = [body EXCEPT ![c] = Append(@, target[c])]
            /\ NoFailure
         \/ /\ UNCHANGED body
            /\ Fail
      /\ UNCHANGED <<certificates, revoked, crl, phase, registry, status,
                     verdict, chain, unread, listed, asked, known, stale>>
  BY DEF ReadBack, At, database
<1>2. AnswersTyped /\ HandlerTyped(c) /\ Answered(c)
  BY ServerTypes DEF AInv
<1>3. /\ items[c] \in Seq(RequestItem) /\ items[c] # <<>>
      /\ verdict[c] = "none"
      /\ ~faulted' => ~faulted
  BY <1>1, <1>2, FaultStays DEF HandlerTyped, SInv, HandlerSound, VerdictSound
<1>4. AnswerSound(c)
  BY <1>2 DEF Answered
<1>5. PICK n \in Nat : InProgress(c, n)
  BY <1>1, <1>4 DEF AnswerSound
<1>6. /\ task'[c] = "issuing" /\ items'[c] = Tail(items[c]) /\ target'[c] = 0
      /\ \/ body'[c] = Append(body[c], target[c])
         \/ body'[c] = body[c] /\ faulted'
      /\ DOMAIN body' = Connections
      /\ \A d \in Connections \ {c} : body'[d] = body[d]
  BY <1>1 DEF SInv, AInv, HandlersShaped, AnswersShaped, Fail
<1>7. OnlyAnswers(c)
  BY <1>1, <1>6 DEF SInv, AInv, HandlersShaped, AnswersShaped, OnlyAnswers, OnlyHandler
<1>8. AnswersTyped'
  BY <1>1, <1>2 DEF AnswersTyped, Task
<1>9. /\ Len(items[c]) \in Nat /\ Len(items[c]) # 0
      /\ DOMAIN items[c] = 1 .. Len(items[c])
      /\ Head(items[c]) = items[c][1]
      /\ Tail(items[c]) \in Seq(RequestItem)
      /\ Len(Tail(items[c])) = Len(items[c]) - 1
      /\ DOMAIN Tail(items[c]) = 1 .. Len(items[c]) - 1
      /\ \A k \in 1 .. Len(items[c]) - 1 : Tail(items[c])[k] = items[c][k + 1]
  BY <1>3
<1>10. HandlerTyped(c)'
  BY <1>1, <1>2, <1>6, <1>9 DEF HandlerTyped
<1>11. /\ Placed(certificates, body[c], asked[c], n + 1)
       /\ Placed(certificates, Append(body[c], target[c]), asked[c], n + 1)
  <2>1. asked[c][n + 1] = Head(items[c])
    BY <1>5, <1>9 DEF InProgress
  <2>2. /\ Fits(certificates[target[c]], asked[c][n + 1])
        /\ target[c] \in DOMAIN certificates
        /\ body[c] \in Seq(DOMAIN certificates)
        /\ Placed(certificates, body[c], asked[c], n)
    BY <1>1, <1>4, <1>5, <2>1 DEF AnswerSound, InProgress
  <2>3. QED
    BY <2>2, PlacedNext
<1>12. /\ body'[c] \in Seq(DOMAIN certificates)
       /\ ~faulted' => Len(body'[c]) = n + 1
  <2>1. /\ target[c] \in DOMAIN certificates
        /\ body[c] \in Seq(DOMAIN certificates)
    BY <1>1, <1>4 DEF AnswerSound
  <2>2. /\ Append(body[c], target[c]) \in Seq(DOMAIN certificates)
        /\ Len(Append(body[c], target[c])) = Len(body[c]) + 1
    BY <2>1
  <2>3. QED
    BY <1>3, <1>5, <1>6, <2>1, <2>2 DEF InProgress
<1>13. InProgress(c, n + 1)'
  <2>1. Len(asked[c]) = (n + 1) + Len(Tail(items[c]))
    <3>1. Len(asked[c]) = n + Len(items[c])
      BY <1>5 DEF InProgress
    <3>2. Len(items[c]) \in Nat /\ Len(Tail(items[c])) = Len(items[c]) - 1
      BY <1>9
    <3>3. n \in Nat
      BY <1>5
    <3>4. QED
      BY <3>1, <3>2, <3>3, OneDone
  <2>2. ASSUME NEW k \in DOMAIN Tail(items[c])
        PROVE  Tail(items[c])[k] = asked[c][(n + 1) + k]
    <3>1. k \in Nat /\ k + 1 \in DOMAIN items[c] /\ Tail(items[c])[k] = items[c][k + 1]
      BY <1>9
    <3>2. items[c][k + 1] = asked[c][n + (k + 1)]
      BY <1>5, <3>1 DEF InProgress
    <3>3. n + (k + 1) = (n + 1) + k
      BY <3>1
    <3>4. QED
      BY <3>1, <3>2, <3>3
  <2>3. QED
    BY <1>1, <1>6, <1>11, <1>12, <2>1, <2>2 DEF InProgress
<1>14. AnswerSound(c)'
  BY <1>1, <1>4, <1>6, <1>12, <1>13 DEF AnswerSound
<1>15. Answered(c)'
  BY <1>1, <1>3, <1>6, <1>14 DEF Answered, TargetStored, ReadSound, Explained
<1>16. QED
  BY <1>1, <1>3, <1>7, <1>8, <1>10, <1>15, QuietAnswers DEF registry

(* Elements that are refused, and the answers at the end of a request.      *)
LEMMA EndOfRequestAnswers ==
  ASSUME NEW c \in Connections, SInv, SInv', AInv,
         \/ RefuseItem(c) \/ AnswerIssued(c) \/ RefuseRevocation(c)
         \/ AnswerRevoked(c)
  PROVE  AInv'
<1>1. /\ phase = "serving" /\ task[c] \in {"issuing", "revoking"}
      /\ task' = [task EXCEPT ![c] = "idle"]
      /\ UNCHANGED <<certificates, revoked, crl, phase, registry, body, verdict,
                     target, chain, unread, listed, asked, known, stale>>
      /\ ~faulted' => ~faulted
  BY DEF RefuseItem, AnswerIssued, RefuseRevocation, AnswerRevoked, At, Refuse,
         Answer, startupVars, database, history, Fail, NoFailure
<1>2. \/ /\ items' = [items EXCEPT ![c] = <<>>]
         /\ status' = [status EXCEPT ![c] = 400]
      \/ /\ items' = items /\ items[c] = <<>>
         /\ status' = [status EXCEPT ![c] = 200]
  BY DEF RefuseItem, AnswerIssued, RefuseRevocation, AnswerRevoked, Refuse, Answer
<1>3. AnswersTyped /\ HandlerTyped(c) /\ Answered(c)
  BY ServerTypes DEF AInv
<1>4. /\ task'[c] = "idle" /\ items'[c] = <<>>
      /\ status'[c] = 400 \/ (status'[c] = 200 /\ items[c] = <<>>)
      /\ DOMAIN items' = Connections
      /\ status' \in [Connections -> {0, 200, 400, 401, 404, 405}]
      /\ \A d \in Connections \ {c} : status'[d] = status[d] /\ items'[d] = items[d]
  <2>1. DOMAIN items = Connections /\ task'[c] = "idle"
    BY <1>1, <1>3 DEF SInv, HandlersShaped, AnswersTyped
  <2>2. CASE /\ items' = [items EXCEPT ![c] = <<>>]
             /\ status' = [status EXCEPT ![c] = 400]
    <3>1. /\ status'[c] = 400
          /\ status' \in [Connections -> {0, 200, 400, 401, 404, 405}]
          /\ \A d \in Connections \ {c} : status'[d] = status[d]
      <4>1. status \in [Connections -> {0, 200, 400, 401, 404, 405}]
        BY <1>3 DEF AnswersTyped
      <4>2. status' = [status EXCEPT ![c] = 400]
        BY <2>2
      <4>3. QED
        BY <4>1, <4>2
    <3>2. /\ items'[c] = <<>> /\ DOMAIN items' = Connections
          /\ \A d \in Connections \ {c} : items'[d] = items[d]
      BY <2>1, <2>2
    <3>3. QED
      BY <2>1, <2>2, <3>1, <3>2
  <2>3. CASE /\ items' = items /\ items[c] = <<>>
             /\ status' = [status EXCEPT ![c] = 200]
    <3>1. /\ status'[c] = 200
          /\ status' \in [Connections -> {0, 200, 400, 401, 404, 405}]
          /\ \A d \in Connections \ {c} : status'[d] = status[d]
      <4>1. status \in [Connections -> {0, 200, 400, 401, 404, 405}]
        BY <1>3 DEF AnswersTyped
      <4>2. status' = [status EXCEPT ![c] = 200]
        BY <2>3
      <4>3. QED
        BY <4>1, <4>2
    <3>2. /\ items'[c] = <<>> /\ DOMAIN items' = Connections
          /\ \A d \in Connections \ {c} : items'[d] = items[d]
      BY <2>1, <2>3
    <3>3. QED
      BY <2>1, <2>3, <3>1, <3>2
  <2>4. QED
    BY <1>2, <2>2, <2>3
<1>5. OnlyAnswers(c)
  BY <1>1, <1>3, <1>4 DEF SInv, AInv, HandlersShaped, AnswersShaped,
     AnswersTyped, OnlyAnswers, OnlyHandler
<1>6. AnswersTyped'
  BY <1>1, <1>3, <1>4 DEF AnswersTyped, Task
<1>7. HandlerTyped(c)'
  BY <1>1, <1>3, <1>4 DEF HandlerTyped
<1>8. Answered(c)'
  <2>1. AnswerSound(c)'
    <3>1. AnswerSound(c)
      BY <1>3 DEF Answered
    <3>2. ASSUME items[c] = <<>>
          PROVE  /\ Placed(certificates, body[c], asked[c], Len(asked[c]))
                 /\ ~faulted => Len(body[c]) = Len(asked[c])
      <4>1. CASE task[c] = "issuing"
        <5>1. PICK n \in Nat : InProgress(c, n)
          BY <3>1, <4>1 DEF AnswerSound
        <5>2. Len(asked[c]) = n
          BY <3>2, <5>1 DEF InProgress
        <5>3. QED
          BY <5>1, <5>2 DEF InProgress
      <4>2. CASE task[c] # "issuing"
        <5>1. body[c] = <<>> /\ asked[c] = <<>>
          BY <1>1, <3>1, <4>2 DEF AnswerSound
        <5>2. QED
          BY <5>1, PlacedNone
      <4>3. QED
        BY <4>1, <4>2
    <3>3. QED
      BY <1>1, <1>4, <3>1, <3>2 DEF AnswerSound
  <2>2. TargetStored(c)' /\ ReadSound(c)'
    BY <1>1, <1>3, <1>4 DEF Answered, TargetStored, ReadSound
  <2>3. Explained(c)'
    BY <1>1, <1>3 DEF Answered, Explained, DistinctSubjects, registry
  <2>4. QED
    BY <2>1, <2>2, <2>3 DEF Answered
<1>9. QED
  BY <1>1, <1>5, <1>6, <1>7, <1>8, QuietAnswers DEF registry

-----------------------------------------------------------------------------
(* POST /certificateRevocationList.                                        *)
LEMMA RevokeAnswers ==
  ASSUME NEW c \in Connections, SInv, SInv', AInv, Revoke(c)
  PROVE  AInv'
<1>1. /\ phase = "serving" /\ task[c] = "revoking" /\ items[c] # <<>>
      /\ revoked \subseteq revoked'
      /\ task' = [task EXCEPT ![c] = "publishing"]
      /\ UNCHANGED <<certificates, crl, phase, registry, faulted, items, status,
                     body, verdict, target, chain, unread, listed, asked,
                     known, stale>>
  BY DEF Revoke, At, history
<1>2. AnswersTyped /\ HandlerTyped(c) /\ Answered(c)
  BY ServerTypes DEF AInv
<1>3. Grows
  BY <1>1 DEF Grows, SInv, ListsAreSound, registry
<1>4. OnlyAnswers(c) /\ task'[c] = "publishing"
  BY <1>1 DEF SInv, AInv, HandlersShaped, AnswersShaped, OnlyAnswers, OnlyHandler
<1>5. AnswersTyped' /\ HandlerTyped(c)'
  BY <1>1, <1>2, <1>4 DEF AnswersTyped, HandlerTyped, Task
<1>6. Answered(c)'
  BY <1>1, <1>2, <1>4 DEF Answered, AnswerSound, TargetStored, ReadSound,
     Explained, DistinctSubjects, registry
<1>7. /\ \A n \in DOMAIN crl' : crl'[n] \subseteq Nat
      /\ stale' \subseteq DOMAIN certificates'
  BY <1>1, ServerTypes DEF AInv
<1>8. QED
  BY <1>3, <1>4, <1>5, <1>6, <1>7, StepAnswers

LEMMA PublishAnswers ==
  ASSUME NEW c \in Connections, SInv, SInv', AInv, Publish(c)
  PROVE  AInv'
<1> DEFINE item == Head(items[c])
<1>1. /\ phase = "serving" /\ task[c] = "publishing"
      /\ items' = [items EXCEPT ![c] = Tail(@)]
      /\ task' = [task EXCEPT ![c] = "revoking"]
      /\ UNCHANGED <<certificates, revoked, phase, registry, status, body,
                     verdict, target, chain, unread, listed, asked, known>>
      /\ NoFailure \/ Fail
  BY DEF Publish, At, database
<1>2. AnswersTyped /\ HandlerTyped(c) /\ Answered(c)
  BY ServerTypes DEF AInv
<1>3. /\ items[c] \in Seq(RevocationItem) /\ items[c] # <<>>
      /\ item.serial \in DOMAIN certificates
  BY <1>1 DEF SInv, IInv, TypeOK, HandlerSound, ItemsTyped
<1>4. /\ WriteLists({item.issuer}) \/ crl' = crl
      /\ stale' \subseteq stale \cup {item.serial}
  BY DEF Publish
<1> HIDE DEF item
<1>5. ASSUME NEW n \in DOMAIN crl'
      PROVE  \/ n \in DOMAIN crl /\ crl'[n] = crl[n]
             \/ crl'[n] = RevokedBy(n)
  BY <1>4 DEF WriteLists
<1>6. \A n \in DOMAIN crl :
        n \in DOMAIN crl' /\ (crl'[n] = crl[n] \/ crl'[n] = RevokedBy(n))
  BY <1>4 DEF WriteLists
<1>7. /\ \A n \in DOMAIN crl' : crl'[n] \subseteq Nat
      /\ stale' \subseteq DOMAIN certificates'
  <2>1. /\ \A n \in DOMAIN crl : crl[n] \subseteq Nat
        /\ stale \subseteq DOMAIN certificates
    BY ServerTypes DEF AInv
  <2>2. revoked \subseteq Nat
    BY DEF SInv, IInv, TypeOK
  <2>3. \A n : RevokedBy(n) \subseteq Nat
    BY <2>2 DEF RevokedBy
  <2>4. QED
    BY <1>1, <1>3, <1>4, <1>5, <2>1, <2>3
<1>8. ~faulted' => ~faulted
  BY <1>1, FaultStays
<1>9. Grows
  <2>1. ASSUME ~faulted'
        PROVE  \A n \in DOMAIN caPassword :
                 n \in DOMAIN crl /\ n \in DOMAIN crl' /\ crl[n] \subseteq crl'[n]
    BY <1>1, <1>6, <1>8, <2>1 DEF SInv, ListsAreSound
  <2>2. QED
    BY <1>1, <1>8, <2>1 DEF Grows, registry
<1>10. OnlyAnswers(c) /\ task'[c] = "revoking" /\ items'[c] = Tail(items[c])
  BY <1>1 DEF SInv, AInv, HandlersShaped, AnswersShaped, OnlyAnswers, OnlyHandler
<1>11. AnswersTyped' /\ HandlerTyped(c)'
  <2>1. Tail(items[c]) \in Seq(RevocationItem)
    BY <1>3
  <2>2. QED
    BY <1>1, <1>2, <1>10, <2>1 DEF AnswersTyped, HandlerTyped, Task
<1>12. Answered(c)'
  BY <1>1, <1>2, <1>8, <1>10 DEF Answered, AnswerSound, TargetStored, ReadSound,
     Explained, DistinctSubjects, registry
<1>13. QED
  BY <1>7, <1>9, <1>10, <1>11, <1>12, StepAnswers

-----------------------------------------------------------------------------
(* POST /verifyCertificate.                                                *)

(* While no call has failed, a verification that lists no revocation finds  *)
(* the signers of a stored certificate among the authorities it has read.   *)
LEMMA PathFound ==
  ASSUME NEW c \in Connections, SInv, Answered(c), ~faulted, task[c] = "deciding",
         target[c] # 0, revoked = {}, DistinctSubjects,
         \A i \in DOMAIN certificates : certificates[i].issuer \in DOMAIN caPassword,
         chain[c] \subseteq DOMAIN certificates
  PROVE  IsCertificateValid(target[c], chain[c], listed[c])
<1>1. /\ \A n \in DOMAIN caPassword :
           \E i \in chain[c] : i \in AuthorityIds(certificates, n)
      /\ listed[c] = {}
  BY DEF Answered, ReadSound
<1>2. target[c] \in DOMAIN certificates
  BY DEF Answered, TargetStored
<1>3. ASSUME NEW i \in DOMAIN certificates
      PROVE  certificates[i].signer \in chain[c]
  <2>1. certificates[i].signer \in AuthorityIds(certificates, certificates[i].issuer)
    BY DEF SInv, IInv, IssuedByAuthority
  <2>2. PICK j \in chain[c] : j \in AuthorityIds(certificates, certificates[i].issuer)
    BY <1>1
  <2>3. certificates[i].signer = j
    BY <2>1, <2>2 DEF AuthorityIds, DistinctSubjects
  <2>4. QED
    BY <2>2, <2>3
<1>4. \A i \in chain[c] \cup {target[c]} : certificates[i].signer \in chain[c]
  BY <1>2, <1>3
<1>5. (chain[c] \cup {target[c]}) \cap listed[c] = {}
  BY <1>1
<1>6. QED
  BY <1>2, <1>4, <1>5 DEF IsCertificateValid

LEMMA ReadAuthoritiesAnswers ==
  ASSUME NEW c \in Connections, SInv, SInv', AInv, ReadAuthorities(c), ~Die("crash")
  PROVE  AInv'
<1>1. /\ phase = "serving" /\ task[c] = "authorities"
      /\ task' = [task EXCEPT ![c] = "lists"]
      /\ listed' = [listed EXCEPT ![c] = {}]
      /\ unread' = [unread EXCEPT ![c] = DOMAIN caPassword]
      /\ UNCHANGED <<certificates, revoked, crl, phase, registry, items, status,
                     body, verdict, target, asked, known, stale>>
  BY DEF ReadAuthorities, At, database
<1>2. PICK row \in [DOMAIN caPassword -> DOMAIN certificates] :
        /\ \A n \in DOMAIN row : row[n] \in AuthorityIds(certificates, n)
        /\ \/ /\ chain' = [chain EXCEPT ![c] = {row[n] : n \in DOMAIN row}]
              /\ NoFailure
           \/ /\ \E missed \in DOMAIN row : chain' = [chain EXCEPT ![c] =
                               {row[n] : n \in DOMAIN row \ {missed}}]
              /\ Fail
  BY DEF ReadAuthorities
<1>3. PICK read : /\ chain' = [chain EXCEPT ![c] = read]
                  /\ read \subseteq DOMAIN certificates
                  /\ ~Fail => read = {row[n] : n \in DOMAIN row}
  <2>1. CASE ~Fail
    BY <1>2, <2>1
  <2>2. CASE Fail
    <3>1. PICK names \in SUBSET DOMAIN row :
            chain' = [chain EXCEPT ![c] = {row[n] : n \in names}]
      <4>1. CASE chain' = [chain EXCEPT ![c] = {row[n] : n \in DOMAIN row}]
        BY <4>1
      <4>2. CASE \E missed \in DOMAIN row : chain' = [chain EXCEPT ![c] =
                               {row[n] : n \in DOMAIN row \ {missed}}]
        <5>1. PICK missed : chain' = [chain EXCEPT ![c] =
                               {row[n] : n \in DOMAIN row \ {missed}}]
          BY <4>2
        <5>2. DOMAIN row \ {missed} \in SUBSET DOMAIN row
          OBVIOUS
        <5>3. QED
          BY <5>1, <5>2
      <4>3. QED
        BY <1>2, <4>1, <4>2
    <3>2. {row[n] : n \in names} \subseteq DOMAIN certificates
      OBVIOUS
    <3>3. QED
      BY <2>2, <3>1, <3>2
  <2>3. QED
    BY <2>1, <2>2
<1>4. AnswersTyped /\ HandlerTyped(c) /\ Answered(c)
  BY ServerTypes DEF AInv
<1>5. /\ task'[c] = "lists" /\ listed'[c] = {} /\ chain'[c] = read
  BY <1>1, <1>3 DEF SInv, AInv, HandlersShaped, AnswersShaped
<1>6. OnlyAnswers(c)
  BY <1>1, <1>3 DEF SInv, AInv, HandlersShaped, AnswersShaped, OnlyAnswers, OnlyHandler
<1>7. AnswersTyped' /\ HandlerTyped(c)'
  BY <1>1, <1>3, <1>4, <1>5 DEF AnswersTyped, HandlerTyped, Task
<1>8. ~faulted' => ~faulted
  BY <1>2, FaultStays
<1>9. ReadSound(c)'
  <2>1. SUFFICES ASSUME ~faulted', NEW n \in DOMAIN caPassword
                 PROVE  \E i \in read : i \in AuthorityIds(certificates, n)
    BY <1>1, <1>5 DEF ReadSound, registry
  <2>2. row[n] \in read
    BY <1>3, <2>1 DEF Fail
  <2>3. QED
    BY <1>2, <2>1, <2>2
<1>10. Answered(c)'
  BY <1>1, <1>4, <1>5, <1>8, <1>9 DEF Answered, AnswerSound, TargetStored,
     Explained, DistinctSubjects, registry
<1>11. QED
  BY <1>1, <1>6, <1>7, <1>8, <1>10, QuietAnswers DEF registry

LEMMA ReadListAnswers ==
  ASSUME NEW c \in Connections, SInv, SInv', AInv, ReadList(c)
  PROVE  AInv'
<1>1. /\ phase = "serving" /\ task[c] = "lists"
      /\ UNCHANGED <<certificates, revoked, crl, phase, registry, task, items,
                     status, body, verdict, target, chain, asked, known, stale>>
  BY DEF ReadList, At, database
<1>2. PICK n \in unread[c] :
        /\ \/ /\ listed' = [listed EXCEPT ![c] =
                              @ \cup IF n \in DOMAIN crl THEN crl[n] ELSE {}]
              /\ NoFailure
           \/ UNCHANGED listed /\ Fail
        /\ unread' = [unread EXCEPT ![c] = @ \ {n}]
  BY DEF ReadList
<1>3. AnswersTyped /\ HandlerTyped(c) /\ Answered(c)
  BY ServerTypes DEF AInv
<1>4. ~faulted' => ~faulted
  BY <1>2, FaultStays
<1>5. /\ DOMAIN listed' = Connections
      /\ \A d \in Connections \ {c} : listed'[d] = listed[d]
      /\ \/ listed'[c] = listed[c] \cup IF n \in DOMAIN crl THEN crl[n] ELSE {}
         \/ listed'[c] = listed[c]
  <2>1. DOMAIN listed = Connections
    BY DEF SInv, HandlersShaped
  <2>2. CASE listed' = [listed EXCEPT ![c] =
                          @ \cup IF n \in DOMAIN crl THEN crl[n] ELSE {}]
    BY <2>1, <2>2
  <2>3. CASE listed' = listed
    BY <2>1, <2>3
  <2>4. QED
    BY <1>2, <2>2, <2>3
<1>6. OnlyAnswers(c)
  BY <1>1, <1>2, <1>5 DEF SInv, AInv, HandlersShaped, AnswersShaped, OnlyAnswers,
     OnlyHandler
<1>7. AnswersTyped'
  BY <1>1, <1>3 DEF AnswersTyped
<1>8. HandlerTyped(c)'
  <2>1. \A m \in DOMAIN crl : crl[m] \subseteq Nat
    BY ServerTypes DEF AInv
  <2>2. QED
    BY <1>1, <1>3, <1>5, <2>1 DEF HandlerTyped
<1>9. ReadSound(c)'
  <2>1. SUFFICES ASSUME ~faulted' PROVE listed'[c] \subseteq revoked
    BY <1>1, <1>3, <1>4 DEF Answered, ReadSound, registry
  <2>2. n \in DOMAIN caPassword
    BY <1>1, <1>2, <1>4, <2>1 DEF SInv, HandlerSound, NothingOverlooked
  <2>3. n \in DOMAIN crl /\ crl[n] \subseteq revoked
    BY <1>1, <1>4, <2>1, <2>2 DEF SInv, ListsAreSound, RevokedBy
  <2>4. listed[c] \subseteq revoked
    BY <1>1, <1>3, <1>4, <2>1 DEF Answered, ReadSound
  <2>5. QED
    BY <1>5, <2>3, <2>4
<1>10. Answered(c)'
  BY <1>1, <1>3, <1>4, <1>9 DEF Answered, AnswerSound, TargetStored,
     Explained, DistinctSubjects, registry
<1>11. QED
  BY <1>1, <1>4, <1>6, <1>7, <1>8, <1>10, QuietAnswers DEF registry

LEMMA ListsReadAnswers ==
  ASSUME NEW c \in Connections, SInv, SInv', AInv, ListsRead(c)
  PROVE  AInv'
<1>1. /\ phase = "serving" /\ task[c] = "lists"
      /\ task' = [task EXCEPT ![c] = "deciding"]
      /\ UNCHANGED <<certificates, revoked, crl, phase, caPassword, faulted, items,
                     status, body, verdict, target, chain, unread, listed,
                     asked, known, stale>>
  BY DEF ListsRead, At, startupVars, database, registry, history
<1>2. AnswersTyped /\ HandlerTyped(c) /\ Answered(c)
  BY ServerTypes DEF AInv
<1>3. OnlyAnswers(c) /\ task'[c] = "deciding"
  BY <1>1 DEF SInv, AInv, HandlersShaped, AnswersShaped, OnlyAnswers, OnlyHandler
<1>4. AnswersTyped' /\ HandlerTyped(c)'
  BY <1>1, <1>2, <1>3 DEF AnswersTyped, HandlerTyped, Task
<1>5. Answered(c)'
  BY <1>1, <1>2, <1>3 DEF Answered, AnswerSound, TargetStored, ReadSound,
     Explained, DistinctSubjects
<1>6. QED
  BY <1>1, <1>3, <1>4, <1>5, QuietAnswers

LEMMA DecideAnswers ==
  ASSUME NEW c \in Connections, SInv, SInv', AInv, Decide(c)
  PROVE  AInv'
<1>1. /\ phase = "serving" /\ task[c] = "deciding"
      /\ task' = [task EXCEPT ![c] = "idle"]
      /\ status' = [status EXCEPT ![c] = 200]
      /\ chain' = [chain EXCEPT ![c] = {}]
      /\ listed' = [listed EXCEPT ![c] = {}]
      /\ UNCHANGED <<certificates, revoked, crl, phase, caPassword, faulted, items,
                     body, target, unread, asked, known, stale>>
  BY DEF Decide, At, Answer, startupVars, database, registry, history
<1>2. PICK valid \in BOOLEAN :
        /\ target[c] = 0 \/ valid = IsCertificateValid(target[c], chain[c], listed[c])
        /\ verdict' = [verdict EXCEPT ![c] = IF valid THEN "VALID" ELSE "NOT VALID"]
  BY DEF Decide, IsCertificateValid
<1>3. AnswersTyped /\ HandlerTyped(c) /\ Answered(c)
  BY ServerTypes DEF AInv
<1>4. /\ task'[c] = "idle" /\ status'[c] = 200 /\ chain'[c] = {} /\ listed'[c] = {}
      /\ verdict'[c] = IF valid THEN "VALID" ELSE "NOT VALID"
  BY <1>1, <1>2, <1>3 DEF SInv, AInv, HandlersShaped, AnswersShaped, AnswersTyped
<1>5. OnlyAnswers(c)
  <2>1. /\ DOMAIN verdict' = Connections
        /\ \A d \in Connections \ {c} : verdict'[d] = verdict[d]
    BY <1>2 DEF SInv, HandlersShaped
  <2>2. QED
    BY <1>1, <2>1 DEF SInv, AInv, HandlersShaped, AnswersShaped, OnlyAnswers, OnlyHandler
<1>6. AnswersTyped' /\ HandlerTyped(c)'
  BY <1>1, <1>2, <1>3, <1>4 DEF AnswersTyped, HandlerTyped, Task
<1>7. Explained(c)'
  <2>1. SUFFICES ASSUME ~faulted, ~valid, DistinctSubjects, target[c] # 0, revoked = {},
                        \A i \in DOMAIN certificates :
                          certificates[i].issuer \in DOMAIN caPassword
                 PROVE  FALSE
    BY <1>1, <1>4 DEF Explained, DistinctSubjects
  <2>2. IsCertificateValid(target[c], chain[c], listed[c])
    BY <1>1, <1>3, <2>1, PathFound DEF HandlerTyped
  <2>3. QED
    BY <1>2, <2>1, <2>2
<1>8. AnswerSound(c)'
  <2>1. body[c] = <<>> /\ asked[c] = <<>>
    BY <1>1, <1>3 DEF Answered, AnswerSound
  <2>2. body'[c] = <<>> /\ asked'[c] = <<>> /\ task'[c] = "idle"
    BY <1>1, <1>4, <2>1
  <2>3. QED
    BY <2>2, NothingAnswered
<1>9. Answered(c)'
  BY <1>1, <1>3, <1>4, <1>7, <1>8 DEF Answered, TargetStored, ReadSound
<1>10. QED
  BY <1>1, <1>5, <1>6, <1>9, QuietAnswers

-----------------------------------------------------------------------------
(* The start of a process: no handler runs.                                 *)
LEMMA StartupAnswers ==
  ASSUME SInv, SInv', AInv, StartupStep
  PROVE  AInv'
<1>1. UNCHANGED handlers /\ phase # "serving"
  BY DEF StartupStep, Start, EditConfiguration, Configure, InitializeDatabase,
         RejectAuthority, GenerateSelfSignedAuthority, SkipAuthority,
         RequestAuthority, SignAuthority, RequestAuthorityFromMaster,
         LoadAuthority, LoadAuthorityThrows, AuthoritiesDone,
         RejectCertificate, SkipCertificate, GenerateCertificate,
         RequestCertificateFromMaster, LoadOcsp, LoadOcspThrows,
         CertificatesDone, CheckOcsp, PublishRevocationLists, AtAuthority,
         AtCertificate
<1>2. /\ stale = {}
      /\ \A c \in Connections : Idle(c) /\ verdict[c] = "none"
  BY <1>1 DEF SInv, AInv, HandlersGone, HandlersCleared
<1>3. stale' = {} \/ (phase' = "serving" /\ stale' = revoked)
  BY <1>2 DEF StartupStep
<1>4. stale' \subseteq DOMAIN certificates' /\ HandlersCleared'
  <2>1. PublishRevocationLists => revoked' = revoked
    BY DEF PublishRevocationLists, database
  <2>2. phase' = "serving" => PublishRevocationLists
    BY <1>1
    DEF StartupStep, Start, EditConfiguration, Configure, InitializeDatabase,
       RejectAuthority, GenerateSelfSignedAuthority, SkipAuthority,
       RequestAuthority, SignAuthority, RequestAuthorityFromMaster,
       RequestFromMaster, LoadAuthority, LoadAuthorityThrows, AuthoritiesDone,
       RejectCertificate, SkipCertificate, GenerateCertificate,
       RequestCertificateFromMaster, LoadOcsp, LoadOcspThrows,
       CertificatesDone, CheckOcsp, Throw, database, registry, history
  <2>3. revoked' \subseteq DOMAIN certificates'
    BY DEF SInv, IInv, TypeOK
  <2>4. stale' \subseteq DOMAIN certificates'
    BY <1>3, <2>1, <2>2, <2>3
  <2>5. HandlersCleared'
    BY <1>1, <1>2, <1>3 DEF HandlersCleared, Idle, handlers
  <2>6. QED
    BY <2>4, <2>5
<1>5. \A n \in DOMAIN crl' : crl'[n] \subseteq Nat
  <2>1. \A n \in DOMAIN crl : crl[n] \subseteq Nat
    BY ServerTypes DEF AInv
  <2>2. CASE crl' = crl
    BY <2>1, <2>2
  <2>3. CASE \E written : WriteLists(written)
    <3>1. revoked \subseteq Nat
      BY DEF SInv, IInv, TypeOK
    <3>2. ASSUME NEW n \in DOMAIN crl'
          PROVE  \/ n \in DOMAIN crl /\ crl'[n] = crl[n]
                 \/ crl'[n] = RevokedBy(n)
      BY <2>3 DEF WriteLists
    <3>3. QED
      BY <2>1, <3>1, <3>2 DEF RevokedBy
  <2>4. crl' = crl \/ \E written : WriteLists(written)
    BY DEF StartupStep, Start, EditConfiguration, Configure, InitializeDatabase,
       RejectAuthority, GenerateSelfSignedAuthority, SkipAuthority,
       RequestAuthority, SignAuthority, RequestAuthorityFromMaster,
       RequestCertificateFromMaster, RequestFromMaster, LoadAuthority,
       LoadAuthorityThrows, AuthoritiesDone, RejectCertificate, SkipCertificate,
       GenerateCertificate, LoadOcsp, LoadOcspThrows, CertificatesDone,
       CheckOcsp, PublishRevocationLists
  <2>5. QED
    BY <2>2, <2>3, <2>4
<1>6. UNCHANGED <<task, items, status, body, verdict, target, chain, listed, asked>>
  BY <1>1 DEF handlers
<1>7. AnswersTyped' /\ AnswersShaped'
  BY <1>6, ServerTypes DEF AInv, AnswersTyped, AnswersShaped
<1>8. ASSUME NEW c \in Connections
      PROVE  Answered(c)' /\ HandlerTyped(c)'
  <2>1. /\ task'[c] = "idle" /\ items'[c] = <<>> /\ body'[c] = <<>>
        /\ target'[c] = 0 /\ chain'[c] = {} /\ listed'[c] = {}
        /\ asked'[c] = <<>> /\ verdict'[c] = "none"
    BY <1>2, <1>6 DEF Idle
  <2>2. AnswerSound(c)' /\ TargetStored(c)' /\ ReadSound(c)' /\ Explained(c)'
    BY <2>1, PlacedNone DEF AnswerSound, TargetStored, ReadSound, Explained
  <2>3. HandlerTyped(c)'
    BY <2>1 DEF HandlerTyped
  <2>4. QED
    BY <2>2, <2>3 DEF Answered
<1>9. ServerTypeOK'
  BY <1>4, <1>5, <1>7, <1>8, TypesAgain DEF SInv, IInv
<1>10. QED
  BY <1>4, <1>7, <1>8, <1>9 DEF AInv

-----------------------------------------------------------------------------
(* The inductive invariant, on top of the server's.                         *)

LEMMA InitAInv == ServerInit => AInv
<1> SUFFICES ASSUME ServerInit PROVE AInv
  OBVIOUS
<1>1. TypeOK /\ stale = {} /\ DOMAIN crl = {}
  BY InitIInv DEF ServerInit, IInv, Init, EmptyMap
<1>2. AnswersTyped /\ AnswersShaped /\ HandlersCleared
  BY DEF ServerInit, AnswersTyped, AnswersShaped, HandlersCleared, Idle, Task
<1>3. ASSUME NEW c \in Connections
      PROVE  Answered(c) /\ HandlerTyped(c)
  <2>1. /\ task[c] = "idle" /\ items[c] = <<>> /\ body[c] = <<>>
        /\ target[c] = 0 /\ chain[c] = {} /\ listed[c] = {}
        /\ asked[c] = <<>> /\ verdict[c] = "none" /\ status[c] = 0
    BY DEF ServerInit
  <2>2. AnswerSound(c) /\ TargetStored(c) /\ ReadSound(c) /\ Explained(c)
    BY <2>1 DEF AnswerSound, TargetStored, ReadSound, Explained
  <2>3. HandlerTyped(c)
    BY <2>1 DEF HandlerTyped
  <2>4. QED
    BY <2>2, <2>3 DEF Answered
<1>4. ServerTypeOK
  BY <1>1, <1>2, <1>3, ServerTypes
<1>5. QED
  BY <1>2, <1>3, <1>4 DEF AInv

LEMMA NextAInv == SInv /\ SInv' /\ AInv /\ [ServerNext]_serverVars => AInv'
<1> SUFFICES ASSUME SInv, SInv', AInv, [ServerNext]_serverVars PROVE AInv'
  OBVIOUS
<1>1. CASE StartupStep
  BY <1>1, StartupAnswers
<1>2. CASE ServerCrash
  BY <1>2, EndAnswers DEF ServerCrash, Crash
<1>3. ASSUME NEW c \in Connections, ReceiveRequest(c)
      PROVE  AInv'
  BY <1>3, AtOnceAnswers, ReceiveAnswers DEF ReceiveRequest
<1>4. ASSUME NEW c \in Connections, Handle(c)
      PROVE  AInv'
  <2>1. CASE ReadAuthorities(c)
    BY <2>1, ReadAuthoritiesAnswers, EndAnswers DEF Die
  <2>2. CASE ~ReadAuthorities(c)
    BY <1>4, <2>2, EndOfRequestAnswers, IssueAnswers, ReadBackAnswers, RevokeAnswers,
       PublishAnswers, ReadListAnswers, ListsReadAnswers, DecideAnswers DEF Handle
  <2>3. QED
    BY <2>1, <2>2
<1>5. CASE UNCHANGED serverVars
  <2>1. UNCHANGED <<certificates, revoked, crl, phase, caPassword, faulted,
                    handlers, stale>>
    BY <1>5 DEF serverVars, startupVars, database, registry, history, handlerVars
  <2>2. AnswersTyped' /\ AnswersShaped' /\ HandlersCleared'
    BY <2>1, ServerTypes DEF AInv, AnswersTyped, AnswersShaped, HandlersCleared,
       Idle, handlers
  <2>3. ASSUME NEW c \in Connections
        PROVE  Answered(c)' /\ HandlerTyped(c)'
    BY <2>1, ServerTypes DEF AInv, Answered, AnswerSound, InProgress, TargetStored,
       ReadSound, Explained, HandlerTyped, DistinctSubjects, handlers
  <2>4. /\ \A n \in DOMAIN crl' : crl'[n] \subseteq Nat
        /\ stale' \subseteq DOMAIN certificates'
    BY <2>1, ServerTypes DEF AInv
  <2>5. ServerTypeOK'
    BY <2>2, <2>3, <2>4, TypesAgain DEF SInv, IInv
  <2>6. QED
    BY <2>2, <2>3, <2>5 DEF AInv
<1>6. QED
  BY <1>1, <1>2, <1>3, <1>4, <1>5 DEF ServerNext

(* What a handler holds and what was answered agree with the tables and the *)
(* lists, for any number of handlers and any requests.                      *)
THEOREM AnswerInvariant == ServerSpec => [](SInv /\ AInv)
<1>1. ServerInit => SInv /\ AInv
  BY InitSInv, InitAInv
<1>2. SInv /\ AInv /\ [ServerNext]_serverVars => SInv' /\ AInv'
  BY NextSInv, NextAInv
<1>3. QED
  BY <1>1, <1>2, PTL DEF ServerSpec

(* Every variable of the server has its type: what a handler works on is a  *)
(* sequence of the elements of its request, and an index it holds is one of *)
(* a row of the table.                                                      *)
THEOREM ServerTypeCorrect == ServerSpec => []ServerTypeOK
<1>1. AInv => ServerTypeOK
  BY DEF AInv
<1>2. QED
  BY <1>1, AnswerInvariant, PTL

(* However handlers interleave between the certificate of an element and    *)
(* its reading, an answer 200 to POST /certificateRequest lists, in the     *)
(* order of the request, certificates with the subject, the issuer and the  *)
(* type that were asked for, and one for each element while no call failed. *)
THEOREM AnswersMatch == ServerSpec => []AnswerMatchesRequest
<1>1. AInv => AnswerMatchesRequest
  <2>1. SUFFICES ASSUME AInv, NEW c \in Connections, task[c] = "idle", status[c] = 200
                 PROVE  /\ Lists(body[c], asked[c])
                        /\ ~faulted => Len(body[c]) = Len(asked[c])
    BY DEF AnswerMatchesRequest
  <2>2. /\ asked[c] \in Seq(RequestItem)
        /\ Placed(certificates, body[c], asked[c], Len(asked[c]))
        /\ ~faulted => Len(body[c]) = Len(asked[c])
    BY <2>1 DEF AInv, Answered, AnswerSound
  <2>3. DOMAIN asked[c] = 1 .. Len(asked[c])
    BY <2>2
  <2>4. QED
    BY <2>2, <2>3 DEF Placed, Fits, Lists
<1>2. QED
  BY <1>1, AnswerInvariant, PTL

(* NOT VALID is not answered without a reason: a revocation, an ambiguous   *)
(* or unknown name of an authority, or a call that failed.                  *)
THEOREM VerdictsExplained == ServerSpec => []VerdictExplained
<1>1. SInv /\ AInv => VerdictExplained
  <2>1. SInv => 0 \notin DOMAIN certificates
    BY DEF SInv, IInv, TypeOK
  <2>2. QED
    BY <2>1 DEF AInv, Answered, Explained, VerdictExplained
<1>2. QED
  BY <1>1, AnswerInvariant, PTL
=============================================================================
