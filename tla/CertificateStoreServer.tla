----------------------- MODULE CertificateStoreServer -----------------------
(***************************************************************************)
(* The whole life of a certificate store server: CertificateStoreStartup,  *)
(* and the end points it registers.  Each connection runs one handler at a *)
(* time; the handlers share the registry (which they only read), the       *)
(* database and the revocation list files, and interleave at every call to *)
(* the database or to a file.                                              *)
(***************************************************************************)
EXTENDS CertificateStoreStartup

CONSTANTS
  Connections,          (* connections the https server serves at once      *)
  CertificateRequests,  (* bodies of POST /certificateRequest               *)
  RevocationRequests,   (* bodies of POST /certificateRevocationList        *)
  VerifyRequests,       (* bodies of POST /verifyCertificate                *)
  MaxRows               (* bound: no request is accepted over these rows    *)

(* An element of a request: complete is FALSE when one of the children that *)
(* the schema makes optional and the handler mandatory is missing.          *)
RequestItem == [subject : Names \cup {NoName}, issuer : Names \cup {NoName},
                type : CertificateType, complete : BOOLEAN]
RevocationItem == [issuer : Names \cup {NoName}, serial : Nat,
                   complete : BOOLEAN]

ASSUME RequestsAssumption ==
  /\ CertificateRequests \subseteq Seq(RequestItem)
  /\ RevocationRequests \subseteq Seq(RevocationItem)
  /\ VerifyRequests \subseteq Seq(Nat)
ASSUME MaxRowsAssumption == MaxRows \in Nat

VARIABLES
  task,     (* task[c]: what the handler of connection c does next          *)
  items,    (* items[c]: elements of the request it has not processed       *)
  status,   (* status[c]: the status code of the last answer on c, or 0     *)
  body,     (* body[c]: the certificates an issuing answer lists            *)
  verdict,  (* verdict[c]: what /verifyCertificate answered                 *)
  target,   (* target[c]: row to verify, or generated and not read back; or 0 *)
  chain,    (* chain[c]: the authorities the verification has read          *)
  unread,   (* unread[c]: authorities whose list it has not read yet        *)
  listed,   (* listed[c]: serial numbers in the lists it has read           *)
  asked,    (* history: the request that c is processing                    *)
  known,    (* history: what the lists held when c's request arrived        *)
  stale     (* history: revoked, but its list was not written since         *)

handlers == <<task, items, status, body, verdict, target, chain, unread,
              listed, asked, known>>
handlerVars == <<handlers, stale>>
serverVars == <<startupVars, handlerVars>>

Task == {"idle", "issuing", "reading", "revoking", "publishing",
         "authorities", "lists", "deciding"}

(* The revocation list files of the authorities the server knows.           *)
Published == UNION {crl[n] : n \in DOMAIN caPassword \cap DOMAIN crl}

-----------------------------------------------------------------------------
(* How handlers begin and end.                                             *)

Ready(c) == phase = "serving" /\ task[c] = "idle"

At(c, t) == phase = "serving" /\ task[c] = t

(* A request reaches its handler: nothing is left of the one before.        *)
Receive(c, t) ==
  /\ Ready(c)
  /\ task' = [task EXCEPT ![c] = t]
  /\ status' = [status EXCEPT ![c] = 0]
  /\ body' = [body EXCEPT ![c] = <<>>]
  /\ verdict' = [verdict EXCEPT ![c] = "none"]
  /\ UNCHANGED <<startupVars, chain, unread, listed, stale>>

(* Mutant: the handler never calls the answer back.                         *)
AnswerForgotten(c, code) ==
  /\ status' = [status EXCEPT ![c] = code]
  /\ UNCHANGED task

Answer(c, code) ==
  /\ task' = [task EXCEPT ![c] = "idle"]
  /\ status' = [status EXCEPT ![c] = code]

(* An exception inside a handler's try block is answered 400.               *)
Refuse(c) ==
  /\ Answer(c, 400)
  /\ items' = [items EXCEPT ![c] = <<>>]

(* The process is gone and every handler with it.                           *)
DropHandlers ==
  /\ task' = [c \in Connections |-> "idle"]
  /\ items' = [c \in Connections |-> <<>>]
  /\ status' = [c \in Connections |-> 0]
  /\ body' = [c \in Connections |-> <<>>]
  /\ verdict' = [c \in Connections |-> "none"]
  /\ target' = [c \in Connections |-> 0]
  /\ chain' = [c \in Connections |-> {}]
  /\ unread' = [c \in Connections |-> {}]
  /\ listed' = [c \in Connections |-> {}]
  /\ asked' = [c \in Connections |-> <<>>]
  /\ known' = [c \in Connections |-> {}]
  /\ stale' = {}

(* std::terminate, or a signal, while serving.                              *)
Die(reason) ==
  /\ phase' = "down"
  /\ exit' = reason
  /\ DropHandlers
  /\ UNCHANGED <<database, crl, config, mode, entry, registry, failures,
                 history>>

-----------------------------------------------------------------------------
(* Requests that change nothing.                                           *)

(* Nothing is left of the answer to the request before.                     *)
AtOnce(c) ==
  /\ body' = [body EXCEPT ![c] = <<>>]
  /\ verdict' = [verdict EXCEPT ![c] = "none"]
  /\ asked' = [asked EXCEPT ![c] = <<>>]
  /\ UNCHANGED <<startupVars, task, items, target, chain, unread, listed,
                 known, stale>>

(* 401 for the peers isClientAuthorized names, 405 for a method the end     *)
(* point does not take, 400 for a body that is empty, is not valid XML or   *)
(* has no node the handler looks for.                                       *)
AnswerRefusal(c) ==
  /\ Ready(c)
  /\ \E code \in {400, 401, 405} : status' = [status EXCEPT ![c] = code]
  /\ AtOnce(c)

(* GET /certificateRequest has something to list.                           *)
answerCertificateRequestGet == requests # <<>>

(* GET /certificateAuthority, /certificate and /certificateRequest: 404     *)
(* when there is nothing to list.                                           *)
AnswerListing(c) ==
  /\ Ready(c)
  /\ \E found \in {\E i \in DOMAIN certificates :
                     certificates[i].type \in AuthorityType,
                   \E i \in DOMAIN certificates :
                     certificates[i].type \notin AuthorityType,
                   answerCertificateRequestGet} :
       status' = [status EXCEPT ![c] = IF found THEN 200 ELSE 404]
  /\ AtOnce(c)

(* What a call to the master may return: a master may fail to answer.       *)
getXFromMasterCertificateStore ==
  IF config.master THEN {"answer", "nullptr"} ELSE {"no master"}

(* GET /certificateChain and /certificateRevocationList: what the master    *)
(* answers, and nothing of the server's own.  A master that does not answer *)
(* leaves a null pointer that is dereferenced.                              *)
AnswerFromMaster(c) ==
  /\ Ready(c)
  /\ \/ /\ status' = [status EXCEPT ![c] = 200]
        /\ AtOnce(c)
     \/ /\ "nullptr" \in getXFromMasterCertificateStore
        /\ Die("crash")

(* Paths of no end point.  An extended handler looks for a name after its   *)
(* own path, but its expression has to be the whole of the path: the name   *)
(* it finds is empty and no row's, and any other path is an exception.      *)
UnknownPath == {"/certificateAuthority/", "/certificateRequest/", "/certificate/", "/other"}

Extended(path, own) == IF path = own THEN "not found" ELSE "exception"

answerExtendedCertificateAuthority(path) == Extended(path, "/certificateAuthority/")
answerExtendedCertificateRequest(path)   == Extended(path, "/certificateRequest/")
answerExtendedCertificate(path)          == Extended(path, "/certificate/")

(* The default callback: whatever the path, one of the handlers it calls    *)
(* one after the other throws, and the exception leaves a noexcept function.*)
(* What the handlers before it answered is dropped.                         *)
AnswerNotFoundPage(c) ==
  /\ Ready(c)
  /\ \E path \in UnknownPath :
       "exception" \in {answerExtendedCertificateAuthority(path),
                        answerExtendedCertificateRequest(path),
                        answerExtendedCertificate(path)}
  /\ Die("exception")

-----------------------------------------------------------------------------
(* POST /certificateRequest.                                               *)

ReceiveCertificateRequest(c) ==
  /\ Len(certificates) < MaxRows
  /\ \E r \in CertificateRequests :
       /\ Receive(c, "issuing")
       /\ items' = [items EXCEPT ![c] = r]
       /\ asked' = [asked EXCEPT ![c] = r]
  /\ target' = [target EXCEPT ![c] = 0]
  /\ known' = [known EXCEPT ![c] = {}]

(* An element is refused before the database is called.                     *)
RefuseItem(c) ==
  /\ At(c, "issuing")
  /\ items[c] # <<>>
  /\ \/ ~Head(items[c]).complete
     \/ Head(items[c]).issuer \notin DOMAIN caPassword
  /\ Refuse(c)
  /\ UNCHANGED <<startupVars, body, verdict, target, chain, unread, listed,
                 asked, known, stale>>

Issued(item, signer) ==
  CertificateRow(item.subject, item.issuer, item.type, signer)

(* addCertificateRequestAndGenerateACertificate stores the request and the  *)
(* certificate it generates and returns the numbers of their rows; one that *)
(* could not be stored ends the request.                                    *)
IssueItem(c) ==
  LET item == Head(items[c]) IN
  /\ At(c, "issuing")
  /\ items[c] # <<>>
  /\ item.complete
  /\ item.issuer \in DOMAIN caPassword
  /\ \/ /\ requests' = Append(requests, item.subject)
        /\ \E signer \in AuthorityIds(certificates, item.issuer) :
             certificates' = Append(certificates, Issued(item, signer))
        /\ task' = [task EXCEPT ![c] = "reading"]
        /\ target' = [target EXCEPT ![c] = Len(certificates) + 1]
        /\ NoFailure
        /\ UNCHANGED <<items, status>>
     \/ /\ Fail
        /\ Refuse(c)
        /\ requests' \in {requests, Append(requests, item.subject)}
        /\ UNCHANGED <<certificates, target>>
  /\ UNCHANGED <<revoked, crl, config, phase, mode, entry, registry, exit,
                 initialized, built, body, verdict, chain, unread, listed,
                 asked, known, stale>>

(* Mutant: the last row of the table is read, not the one generated.        *)
ReadBackLast(c) ==
  /\ At(c, "reading")
  /\ items' = [items EXCEPT ![c] = Tail(@)]
  /\ task' = [task EXCEPT ![c] = "issuing"]
  /\ target' = [target EXCEPT ![c] = 0]
  /\ body' = [body EXCEPT ![c] = Append(@, Len(certificates))]
  /\ UNCHANGED <<startupVars, status, verdict, chain, unread, listed, asked,
                 known, stale>>

(* Other handlers may have stored certificates before this one reads its    *)
(* own back, by the number of its row, for the answer.  The answer omits a  *)
(* certificate that cannot be read.                                         *)
ReadBack(c) ==
  /\ At(c, "reading")
  /\ items' = [items EXCEPT ![c] = Tail(@)]
  /\ task' = [task EXCEPT ![c] = "issuing"]
  /\ target' = [target EXCEPT ![c] = 0]
  /\ \/ /\ body' = [body EXCEPT ![c] = Append(@, target[c])]
        /\ NoFailure
     \/ /\ UNCHANGED body
        /\ Fail
  /\ UNCHANGED <<database, crl, config, phase, mode, entry, registry, exit,
                 initialized, built, status, verdict, chain, unread, listed,
                 asked, known, stale>>

AnswerIssued(c) ==
  /\ At(c, "issuing")
  /\ items[c] = <<>>
  /\ Answer(c, 200)
  /\ UNCHANGED <<startupVars, items, body, verdict, target, chain, unread,
                 listed, asked, known, stale>>

-----------------------------------------------------------------------------
(* POST /certificateRevocationList.                                        *)

ReceiveRevocation(c) ==
  /\ \E r \in RevocationRequests :
       /\ Receive(c, "revoking")
       /\ items' = [items EXCEPT ![c] = r]
  /\ asked' = [asked EXCEPT ![c] = <<>>]
  /\ target' = [target EXCEPT ![c] = 0]
  /\ known' = [known EXCEPT ![c] = {}]

(* revokeCertificate returned false, or an element is missing: earlier      *)
(* elements stay revoked.  What the library answers for a certificate that  *)
(* is already revoked is left open.                                         *)
RefuseRevocation(c) ==
  LET item == Head(items[c]) IN
  /\ At(c, "revoking")
  /\ items[c] # <<>>
  /\ \/ /\ \/ ~item.complete
           \/ item.serial \notin DOMAIN certificates
           \/ item.serial \in revoked
        /\ NoFailure
     \/ Fail
  /\ Refuse(c)
  /\ UNCHANGED <<database, crl, config, phase, mode, entry, registry, exit,
                 initialized, built, body, verdict, target, chain, unread,
                 listed, asked, known, stale>>

(* Mutant: a serial number that is no certificate's is revoked.             *)
RevokeUnchecked(c) ==
  LET item == Head(items[c]) IN
  /\ At(c, "revoking")
  /\ items[c] # <<>>
  /\ item.complete
  /\ revoked' = revoked \cup {item.serial}
  /\ task' = [task EXCEPT ![c] = "publishing"]
  /\ UNCHANGED <<certificates, requests, crl, config, phase, mode, entry,
                 registry, exit, failures, history, items, status, body,
                 verdict, target, chain, unread, listed, asked, known, stale>>

Revoke(c) ==
  LET item == Head(items[c]) IN
  /\ At(c, "revoking")
  /\ items[c] # <<>>
  /\ item.complete
  /\ item.serial \in DOMAIN certificates
  /\ revoked' = revoked \cup {item.serial}
  /\ task' = [task EXCEPT ![c] = "publishing"]
  /\ UNCHANGED <<certificates, requests, crl, config, phase, mode, entry,
                 registry, exit, failures, history, items, status, body,
                 verdict, target, chain, unread, listed, asked, known, stale>>

(* Mutant: the list is not rewritten.                                       *)
PublishNothing(c) ==
  /\ At(c, "publishing")
  /\ items' = [items EXCEPT ![c] = Tail(@)]
  /\ task' = [task EXCEPT ![c] = "revoking"]
  /\ UNCHANGED <<startupVars, status, body, verdict, target, chain, unread,
                 listed, asked, known, stale>>

(* updateCertificateRevocationList rewrites the list of the issuer that the *)
(* request names; what it returns is ignored.  That it reads the            *)
(* revocations, signs and writes without another update of the list in      *)
(* between is assumed of the library.                                       *)
Publish(c) ==
  LET item == Head(items[c]) IN
  /\ At(c, "publishing")
  /\ \/ /\ item.issuer \in DOMAIN caPassword
        /\ WriteLists({item.issuer})
        /\ NoFailure
        /\ stale' = {s \in stale \cup {item.serial} :
                       certificates[s].issuer # item.issuer}
     \/ /\ \/ item.issuer \notin DOMAIN caPassword /\ NoFailure
           \/ Fail
        /\ stale' = stale \cup {item.serial}
        /\ UNCHANGED crl
  /\ items' = [items EXCEPT ![c] = Tail(@)]
  /\ task' = [task EXCEPT ![c] = "revoking"]
  /\ UNCHANGED <<database, config, phase, mode, entry, registry, exit,
                 initialized, built, status, body, verdict, target, chain,
                 unread, listed, asked, known>>

AnswerRevoked(c) ==
  /\ At(c, "revoking")
  /\ items[c] = <<>>
  /\ Answer(c, 200)
  /\ UNCHANGED <<startupVars, items, body, verdict, target, chain, unread,
                 listed, asked, known, stale>>

-----------------------------------------------------------------------------
(* POST /verifyCertificate.                                                *)

Last(r) == r[Len(r)]

(* Of several certificates in a request the last one is verified.           *)
ReceiveVerify(c) ==
  /\ \E r \in VerifyRequests :
       /\ Receive(c, "authorities")
       /\ target' = [target EXCEPT ![c] =
            IF r # <<>> /\ Last(r) \in DOMAIN certificates THEN Last(r) ELSE 0]
  /\ known' = [known EXCEPT ![c] = Published]
  /\ asked' = [asked EXCEPT ![c] = <<>>]
  /\ UNCHANGED items

(* The master's chain, one row for each authority the server knows, and the *)
(* master's lists; the master's certificates are not modelled.  A row that  *)
(* cannot be read is passed over.                                           *)
ReadAuthorities(c) ==
  /\ At(c, "authorities")
  /\ \/ /\ \E row \in [DOMAIN caPassword -> DOMAIN certificates] :
             /\ \A n \in DOMAIN row : row[n] \in AuthorityIds(certificates, n)
             /\ \/ /\ chain' = [chain EXCEPT ![c] = {row[n] : n \in DOMAIN row}]
                   /\ NoFailure
                \/ /\ \E missed \in DOMAIN row : chain' = [chain EXCEPT ![c] =
                                    {row[n] : n \in DOMAIN row \ {missed}}]
                   /\ Fail
        /\ listed' = [listed EXCEPT ![c] = {}]
        /\ unread' = [unread EXCEPT ![c] = DOMAIN caPassword]
        /\ task' = [task EXCEPT ![c] = "lists"]
        /\ UNCHANGED <<database, crl, config, phase, mode, entry, registry,
                       exit, initialized, built, items, status, body, verdict,
                       target, asked, known, stale>>
     \/ /\ "nullptr" \in getXFromMasterCertificateStore
        /\ Die("crash")

(* Mutant: a list replaces those read before it.                            *)
ReadListAlone(c) ==
  /\ At(c, "lists")
  /\ \E n \in unread[c] \cap DOMAIN crl :
       /\ listed' = [listed EXCEPT ![c] = crl[n]]
       /\ unread' = [unread EXCEPT ![c] = @ \ {n}]
  /\ UNCHANGED <<startupVars, task, items, status, body, verdict, target,
                 chain, asked, known, stale>>

(* The files are read one by one; one that cannot be read is passed over.   *)
ReadList(c) ==
  /\ At(c, "lists")
  /\ \E n \in unread[c] :
       /\ \/ /\ listed' = [listed EXCEPT ![c] =
                             @ \cup IF n \in DOMAIN crl THEN crl[n] ELSE {}]
             /\ NoFailure
          \/ UNCHANGED listed /\ Fail
       /\ unread' = [unread EXCEPT ![c] = @ \ {n}]
  /\ UNCHANGED <<database, crl, config, phase, mode, entry, registry, exit,
                 initialized, built, task, items, status, body, verdict,
                 target, chain, asked, known, stale>>

ListsRead(c) ==
  /\ At(c, "lists")
  /\ unread[c] = {}
  /\ task' = [task EXCEPT ![c] = "deciding"]
  /\ UNCHANGED <<startupVars, items, status, body, verdict, target, chain,
                 unread, listed, asked, known, stale>>

(* x509CertificateTools::isCertificateValid: the signers lead to a          *)
(* self-signed authority among those read, and no list read names one of    *)
(* them.                                                                    *)
IsCertificateValid(t, authorities, serials) ==
  /\ t \in DOMAIN certificates
  /\ \E path \in SUBSET authorities :
       /\ \A i \in path \cup {t} : certificates[i].signer \in path
       /\ (path \cup {t}) \cap serials = {}

(* The master's certificates decide on one that is not the server's.        *)
Decide(c) ==
  /\ At(c, "deciding")
  /\ Answer(c, 200)
  /\ \E valid \in IF target[c] = 0 /\ config.master THEN BOOLEAN
                  ELSE {IsCertificateValid(target[c], chain[c], listed[c])} :
       verdict' = [verdict EXCEPT ![c] = IF valid THEN "VALID" ELSE "NOT VALID"]
  /\ chain' = [chain EXCEPT ![c] = {}]
  /\ listed' = [listed EXCEPT ![c] = {}]
  /\ UNCHANGED <<startupVars, items, body, target, unread, asked, known, stale>>

-----------------------------------------------------------------------------
ServerInit ==
  /\ Init
  /\ task = [c \in Connections |-> "idle"]
  /\ items = [c \in Connections |-> <<>>]
  /\ status = [c \in Connections |-> 0]
  /\ body = [c \in Connections |-> <<>>]
  /\ verdict = [c \in Connections |-> "none"]
  /\ target = [c \in Connections |-> 0]
  /\ chain = [c \in Connections |-> {}]
  /\ unread = [c \in Connections |-> {}]
  /\ listed = [c \in Connections |-> {}]
  /\ asked = [c \in Connections |-> <<>>]
  /\ known = [c \in Connections |-> {}]
  /\ stale = {}

(* Of a start whose lists were not all written none counts as written.      *)
StartupStep ==
  /\ \/ \E m \in {"initialize", "load"} : Start(m)
     \/ EditConfiguration
     \/ Configure
  /\ stale' = IF phase' = "serving" /\ failures' # failures THEN revoked ELSE stale
  /\ UNCHANGED handlers

(* The next start writes every list again.                                  *)
ServerCrash == Crash /\ DropHandlers

(* The steps a handler takes once its request is there.                     *)
Handle(c) ==
  \/ RefuseItem(c)
  \/ IssueItem(c)
  \/ ReadBack(c)
  \/ AnswerIssued(c)
  \/ RefuseRevocation(c)
  \/ Revoke(c)
  \/ Publish(c)
  \/ AnswerRevoked(c)
  \/ ReadAuthorities(c)
  \/ ReadList(c)
  \/ ListsRead(c)
  \/ Decide(c)

ReceiveRequest(c) ==
  \/ AnswerRefusal(c)
  \/ AnswerListing(c)
  \/ AnswerFromMaster(c)
  \/ AnswerNotFoundPage(c)
  \/ ReceiveCertificateRequest(c)
  \/ ReceiveRevocation(c)
  \/ ReceiveVerify(c)

ServerNext ==
  \/ StartupStep
  \/ ServerCrash
  \/ \E c \in Connections : ReceiveRequest(c) \/ Handle(c)

ServerSpec == ServerInit /\ [][ServerNext]_serverVars

(* Every handler runs to its end; clients, operators and crashes are free.  *)
FairServerSpec == ServerSpec /\ \A c \in Connections : WF_serverVars(Handle(c))

-----------------------------------------------------------------------------
(* Properties.                                                             *)

(* A list that could not be written may still be the one of a database that *)
(* was initialised anew: only its serial numbers are numbers of rows that   *)
(* may not be there.                                                        *)
ServerTypeOK ==
  /\ TypeOK
  /\ task \in [Connections -> Task]
  /\ status \in [Connections -> {0, 200, 400, 401, 404, 405}]
  /\ verdict \in [Connections -> {"none", "VALID", "NOT VALID"}]
  /\ target \in [Connections -> Nat]
  /\ \A c \in Connections :
       /\ items[c] \in CASE task[c] \in {"issuing", "reading"} -> Seq(RequestItem)
                         [] task[c] \in {"revoking", "publishing"}
                              -> Seq(RevocationItem)
                         [] OTHER -> {<<>>}
       /\ task[c] \in {"publishing", "reading"} => items[c] # <<>>
       /\ chain[c] \subseteq DOMAIN certificates
       /\ listed[c] \subseteq Nat
  /\ \A n \in DOMAIN crl : crl[n] \subseteq Nat
  /\ stale \subseteq DOMAIN certificates

InFlight ==
  {Head(items[c]).serial : c \in {d \in Connections : task[d] = "publishing"}}

(* A revoked certificate is in the list of the authority that issued it,    *)
(* but for the instant between revokeCertificate and                        *)
(* updateCertificateRevocationList in some handler and for the revocations  *)
(* whose list was not written: the request named another issuer, or writing *)
(* failed.  A restart, or a later revocation under the right name, mends    *)
(* those.                                                                   *)
RevocationPublished ==
  phase = "serving" =>
    \A s \in revoked :
      certificates[s].issuer \in DOMAIN caPassword =>
        \/ /\ certificates[s].issuer \in DOMAIN crl
           /\ s \in crl[certificates[s].issuer]
        \/ s \in stale
        \/ s \in InFlight

(* The lists hold nothing but certificates that were revoked and that the   *)
(* authority issued: no stale file survives into the service of a database  *)
(* that was initialised anew, unless writing it failed.                     *)
ListsAreSound ==
  phase = "serving" /\ ~faulted =>
    \A n \in DOMAIN caPassword : n \in DOMAIN crl /\ crl[n] \subseteq RevokedBy(n)

(* Of a stored certificate VALID is never answered when it, or the          *)
(* certificate of its signer, was in a list when the request arrived,       *)
(* although the lists are read one by one while others rewrite them.  A     *)
(* list that cannot be read is passed over, so this holds of processes in   *)
(* which no call failed.                                                    *)
VerdictRespectsRevocation ==
  \A c \in Connections :
    phase = "serving" /\ ~faulted /\ verdict[c] = "VALID" /\ target[c] # 0 =>
      /\ target[c] \in DOMAIN certificates
      /\ target[c] \notin known[c]
      /\ certificates[target[c]].signer \notin known[c]

(* NOT VALID is answered for a stored certificate only when some            *)
(* certificate was revoked, the authorities' names are ambiguous or not all *)
(* known to the server, or a call failed.                                   *)
VerdictExplained ==
  \A c \in Connections :
    phase = "serving" /\ verdict[c] = "NOT VALID" /\ DistinctSubjects
      /\ ~faulted =>
      \/ target[c] \notin DOMAIN certificates
      \/ revoked # {}
      \/ \E i \in DOMAIN certificates :
           certificates[i].issuer \notin DOMAIN caPassword

(* The certificates of rows are ones that elements of a request asked for,  *)
(* in the order of the request.                                             *)
Lists(rows, request) ==
  \E place \in [DOMAIN rows -> DOMAIN request] :
    \A k \in DOMAIN rows :
      /\ \A j \in DOMAIN rows : j < k => place[j] < place[k]
      /\ LET row == certificates[rows[k]]
             item == request[place[k]]
         IN  /\ row.subject = item.subject
             /\ row.issuer = item.issuer
             /\ row.type = item.type

(* Whatever other handlers store between the certificate of an element and  *)
(* its reading, an answer 200 to POST /certificateRequest lists in the      *)
(* order of the request certificates with the subject, the issuer and the   *)
(* type that were asked for, and one for each element unless a call to the  *)
(* database failed.                                                         *)
AnswerMatchesRequest ==
  \A c \in Connections :
    task[c] = "idle" /\ status[c] = 200 =>
      /\ Lists(body[c], asked[c])
      /\ ~faulted => Len(body[c]) = Len(asked[c])

(* Every request that reached its handler is answered, or the process ends. *)
RequestsEnd == \A c \in Connections : task[c] # "idle" ~> task[c] = "idle"

(* A revocation reaches the list of the certificate's issuer.               *)
RevocationReachesList ==
  \A s \in 1 .. MaxRows :
    (phase = "serving" /\ s \in revoked
       /\ certificates[s].issuer \in DOMAIN caPassword)
      ~> \/ phase # "serving"
         \/ s \in stale
         \/ s \in revoked /\ \E n \in DOMAIN crl :
              n = certificates[s].issuer /\ s \in crl[n]

(* answerNotFoundPage ends with an answer 404: no request makes a serving   *)
(* process end in an exception.                                             *)
UnknownPathAnswered == [][phase = "serving" => exit' # "exception"]_serverVars
=============================================================================
