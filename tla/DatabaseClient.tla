--------------------------- MODULE DatabaseClient ---------------------------
(***************************************************************************)
(* The PostgreSQL client of database/postgreSqlClient.odb.cpp: settings, a *)
(* string of connection options that every opening appends to, and a       *)
(* database object that a copy of the client shares.                       *)
(*                                                                         *)
(* The options are a sequence of <<keyword, value>>. What libpq makes of   *)
(* them is modelled from its documentation: the last value of a keyword    *)
(* counts, and a keyword without a value takes the next word, blanks       *)
(* before it skipped, for its value; one that is not given has a default.  *)
(***************************************************************************)
EXTENDS Naturals, Sequences, FiniteSets, SequencesExt

CONSTANTS
  Clients,        \* the clients of a program
  Copies,         \* those of them that are made as copies
  Hosts,          \* the names a server may have in its certificate
  Passwords,      \* "" among them
  DatabaseNames,
  MaxOpenings     \* bound: how often the clients are opened, together; they are
                  \* set while one of these openings is to come

Nothing == ""
Address == "192.0.2.1"

(* A program names its databases and the servers it authorises. *)
ASSUME SettingsAssumption == Nothing \notin DatabaseNames \union Hosts

VARIABLES
  clients,        \* each client; its database is the options it was made with
  names,          \* the authorised names, by the client they were made for (shared lists)
  schemas,        \* the names of the databases that have a schema
  openings,
  ended           \* front() of an empty list: undefined

databaseVars == <<clients, names, schemas, openings, ended>>

NoClient == [made |-> FALSE]

-----------------------------------------------------------------------------
(* libpq. Word i is read as an option unless the word before it, read as   *)
(* an option, had no value.                                                *)
Read(options) ==
  LET read[i \in 0 .. Len(options)] ==
        i > 0 /\ (i = 1 \/ ~(read[i - 1] /\ options[i - 1][2] = Nothing))
  IN {i \in 1 .. Len(options) : read[i]}

Given(options, keyword) == {i \in Read(options) : options[i][1] = keyword}

Effective(options, keyword) ==
  LET i == CHOOSE i \in Given(options, keyword) : \A j \in Given(options, keyword) : j <= i
      word == options[i][2]
  IN IF Given(options, keyword) = {} THEN "default of libpq"
     ELSE IF word # Nothing \/ i = Len(options) THEN word ELSE options[i + 1]

-----------------------------------------------------------------------------
(* A name that does not resolve leaves the address as it is: empty, as the *)
(* constructors alone call this function.                                  *)
setServerIpAddressOrDomainName == {Address, Nothing}

isSubjectCommonNameAuthorized(list, name) == name \in ToSet(names[list])

addASubjectCommonName(list, name) == [names EXCEPT ![list] = Append(@, name)]

Basic(c, name, address) ==
  [made |-> TRUE, certificate |-> FALSE, mode |-> "allow", address |-> address, name |-> name,
   password |-> Nothing, list |-> c, options |-> <<>>, database |-> <<>>]

(* The three constructors. *)
ConstructWithPassword(c) ==
  /\ c \notin Copies /\ ~clients[c].made
  /\ \E name \in DatabaseNames, address \in setServerIpAddressOrDomainName, password \in Passwords :
         clients' = [clients EXCEPT ![c] = [Basic(c, name, address) EXCEPT !.password = password]]
  /\ UNCHANGED <<names, schemas, openings, ended>>

ConstructWithCertificate(c) ==
  /\ c \notin Copies /\ ~clients[c].made
  /\ \E name \in DatabaseNames, address \in setServerIpAddressOrDomainName :
         clients' = [clients EXCEPT ![c] =
            [Basic(c, name, address) EXCEPT !.certificate = TRUE, !.mode = "verify-ca"]]
  /\ UNCHANGED <<names, schemas, openings, ended>>

ConstructWithServerName(c) ==
  /\ c \notin Copies /\ ~clients[c].made
  /\ \E name \in DatabaseNames, host \in Hosts :
       \E address \in setServerIpAddressOrDomainName :
         /\ clients' = [clients EXCEPT ![c] =
              [Basic(c, name, address) EXCEPT !.certificate = TRUE, !.mode = "verify-full"]]
         /\ names' = addASubjectCommonName(c, host)
  /\ UNCHANGED <<schemas, openings, ended>>

(* The copy has its own options and the same database and list of names.   *)
Copy(c, d) ==
  /\ clients[c].made /\ d \in Copies /\ ~clients[d].made
  /\ clients' = [clients EXCEPT ![d] = clients[c]]
  /\ UNCHANGED <<names, schemas, openings, ended>>

(* setName and setPassword *)
Set(c) ==
  /\ clients[c].made /\ openings < MaxOpenings
  /\ \/ \E name \in DatabaseNames : clients' = [clients EXCEPT ![c].name = name]
     \/ ~clients[c].certificate /\ \E password \in Passwords : clients' = [clients EXCEPT ![c].password = password]
  /\ UNCHANGED <<names, schemas, openings, ended>>

AuthorizeName(c) ==
  /\ clients[c].made /\ openings < MaxOpenings
  /\ \E host \in Hosts :
       /\ ~isSubjectCommonNameAuthorized(clients[c].list, host)
       /\ names' = addASubjectCommonName(clients[c].list, host)
  /\ UNCHANGED <<clients, schemas, openings, ended>>

(* The settings that an opening must use: those of the way to authenticate. *)
Settings(c) ==
  LET client == clients[c]
  IN << <<"hostaddr", client.address>>, <<"port", "5432">>, <<"dbname", client.name>> >> \o
     IF client.certificate
     THEN << <<"host", Head(names[client.list])>>, <<"sslmode", client.mode>> >>
     ELSE << <<"user", "user">>, <<"password", client.password>> >>

(* Mutant: the options of the openings before are put after the new ones. *)
generateConnectionOptionsStringInFront(c) == Settings(c) \o clients[c].options

generateConnectionOptionsString(c) == clients[c].options \o Settings(c)

openConnection(c) ==
  /\ clients[c].made /\ openings < MaxOpenings
  /\ clients[c].certificate => names[clients[c].list] # <<>>
  /\ LET options == generateConnectionOptionsString(c)
         opened == [clients EXCEPT ![c].options = options]
     IN clients' \in {opened, [opened EXCEPT ![c].database = options]}
  /\ openings' = openings + 1
  /\ UNCHANGED <<names, schemas, ended>>

(* The first of no names. *)
openWithoutName(c) ==
  /\ clients[c].made /\ openings < MaxOpenings
  /\ clients[c].certificate /\ names[clients[c].list] = <<>>
  /\ ended' = TRUE
  /\ UNCHANGED <<clients, names, schemas, openings>>

(* createSchema and dropSchema, where the database is not nullptr; either  *)
(* may fail, and closeConnection returns true and does nothing.            *)
schemaOperation(c) ==
  /\ clients[c].made /\ clients[c].database # <<>>
  /\ LET name == Effective(clients[c].database, "dbname")
     IN schemas' \in {schemas \union {name}, schemas \ {name}}
  /\ UNCHANGED <<clients, names, openings, ended>>

DatabaseInit ==
  /\ clients = [c \in Clients |-> NoClient]
  /\ names = [c \in Clients |-> <<>>]
  /\ schemas = {} /\ openings = 0 /\ ended = FALSE

DatabaseNext ==
  /\ ~ended
  /\ \E c \in Clients :
       \/ ConstructWithPassword(c) \/ ConstructWithCertificate(c) \/ ConstructWithServerName(c)
       \/ Set(c) \/ AuthorizeName(c)
       \/ openConnection(c) \/ openWithoutName(c) \/ schemaOperation(c)
       \/ \E d \in Clients : Copy(c, d)

DatabaseSpec == DatabaseInit /\ [][DatabaseNext]_databaseVars

-----------------------------------------------------------------------------
(* Properties *)

HasEmpty(options) == \E i \in 1 .. Len(options) : options[i][2] = Nothing

(***************************************************************************)
(* postgreSqlClient.odb.cpp:83-127: an opening, the first or a later one,  *)
(* connects with the settings the client has then, although those of every *)
(* opening before are still in the string: as long as no setting was ever  *)
(* empty at an opening.                                                    *)
(***************************************************************************)
OpensWithSettings(c) ==
  clients'[c].options # clients[c].options /\ ~HasEmpty(clients'[c].options) =>
    \A i \in 1 .. Len(Settings(c)) :
      Effective(clients'[c].options, Settings(c)[i][1]) = Settings(c)[i][2]

(***************************************************************************)
(* An address that did not resolve or a password that is empty takes the   *)
(* next word for its value, at this opening or at the next one. The name   *)
(* of the database and the user are never what is lost.                    *)
(***************************************************************************)
NameAndUserKept(c) ==
  LET options == clients'[c].options
  IN options # clients[c].options =>
       /\ Effective(options, "dbname") = clients[c].name
       /\ ~clients[c].certificate => Effective(options, "user") = "user"

(***************************************************************************)
(* postgreSqlClient.odb.cpp:94: the name that a verified server must have  *)
(* is the same at every opening of a client, whatever names are authorised *)
(* later, by it or by a client it shares its list with.                    *)
(***************************************************************************)
HostPinned(c) ==
  Given(clients[c].options, "host") # {} =>
    Effective(clients'[c].options, "host") = Effective(clients[c].options, "host")

(***************************************************************************)
(* No step of any client makes one of them connect as another, elsewhere,  *)
(* or with what it was set to before.                                      *)
(***************************************************************************)
ConnectsAsSet ==
  [][ \A c \in Clients : clients[c].made =>
        OpensWithSettings(c) /\ NameAndUserKept(c) /\ HostPinned(c) ]_databaseVars
=============================================================================
