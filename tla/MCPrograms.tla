---------------------------- MODULE MCPrograms -----------------------------
(***************************************************************************)
(* The parsers, the database clients, the extensions of certificates and   *)
(* the programs of the private credential scheme share nothing: a          *)
(* behaviour is one of theirs.                                             *)
(***************************************************************************)
EXTENDS CppTokenizer, BsonParser, DatabaseClient, CertificateExtensions,
        PrivateCredential, CredentialPrograms

-----------------------------------------------------------------------------
(* The tokeniser: any three characters, and longer sources of the          *)
(* characters of comments, of operators and of quoted literals.            *)

SourcesOf(S, n) == UNION {[1 .. k -> S] : k \in 0 .. n}

Alphabet == {"a", "0", "x", " ", Newline, "/", "*", "-", ">", "=", "<", ".", "#", "^",
             Quote, Apostrophe, Backslash, "other"}

MCSources ==
  SourcesOf(Alphabet, 3)
    \union SourcesOf({"/", "*", Newline, "a"}, 5)
    \union {<<"/", "*">> \o text \o <<"*", "/">> : text \in SourcesOf({"*", Newline, "a"}, 3)}
    \union SourcesOf({Quote, Backslash, "a", Newline}, 4)
    \union SourcesOf({Apostrophe, Backslash, "a"}, 4)
    \union SourcesOf({"-", ">", "*", "<", "="}, 4)
    \union SourcesOf({"%", ":", "<", ">", "."}, 3)
    \union SourcesOf({"other", "a", Quote, "/"}, 4)

-----------------------------------------------------------------------------
(* BSON: a document of any two elements, files of documents of one.        *)

Named(type, body) == [type |-> type, name |-> <<97>>, body |-> body]

EmptyDocument == <<5, 0, 0, 0, 0>>
Text   == <<3, 0, 0, 0, 98, 99, 0>>
Eight  == <<1, 2, 3, 4, 5, 6, 7, 8>>
Twelve == Eight \o <<9, 0, 0, 0>>

Elements ==
  { Named(1, Eight), Named(2, Text), Named(3, EmptyDocument), Named(4, EmptyDocument),
    Named(5, <<1, 0, 0, 0, 0, 98>>), Named(5, <<2, 0, 0, 0, 0, 98, 99>>),
    Named(5, <<2, 0, 0, 0, 128, 98, 99>>),
    Named(6, <<>>), Named(7, Twelve), Named(8, <<0>>), Named(8, <<1>>), Named(9, Eight),
    Named(10, <<>>), Named(11, <<98, 0, 99, 0>>), Named(12, Text \o Twelve),
    Named(13, Text), Named(14, Text), Named(15, <<16, 0, 0, 0>> \o Text \o EmptyDocument),
    Named(16, <<5, 0, 0, 0>>), Named(17, Eight),
    Named(18, <<5, 0, 0, 0, 0, 0, 0, 0>>), Named(18, <<5, 0, 0, 0, 0, 0, 1, 0>>),
    Named(18, <<5, 0, 0, 0, 0, 0, 10, 98>>),
    [type |-> 18, name |-> <<97, 98>>, body |-> <<0, 0, 0, 0, 0, 2, 0, 0>>],
    Named(18, <<255, 255, 255, 255, 255, 255, 255, 255>>),
    Named(127, <<>>), Named(255, <<>>),
    [type |-> 10, name |-> <<>>, body |-> <<>>] }

Documents(n) == [elements : UNION {[1 .. k -> Elements] : k \in 0 .. n}, last : {0}]

Small == Documents(1) \union {[elements |-> <<>>, last |-> 1],
                              [elements |-> <<Named(2, Text)>>, last |-> 1]}

MCBsonFiles ==
  {<<d>> : d \in Documents(2)} \union [1 .. 2 -> Small] \union {<<x, y, x>> : x, y \in Small}

-----------------------------------------------------------------------------
(* Configurations of a certificate's extensions. *)

MCConfigurations ==
  { NoExtensions, [crlDistributionPoints |-> "mine"], [basicConstraints |-> "configured"],
    [infoAccess |-> "mine", basicConstraints |-> "configured"], [keyUsage |-> "configured"] }

-----------------------------------------------------------------------------
(* The scalars of the scheme: the integers modulo 7. *)

Modulus == 7

MCScalar    == 0 .. Modulus - 1
MCAdd(x, y) == (x + y) % Modulus
MCMul(x, y) == (x * y) % Modulus
MCNeg(x)    == (Modulus - x) % Modulus
MCInv(x)    == IF x = 0 THEN 0 ELSE CHOOSE y \in MCScalar : MCMul(x, y) = 1

MCDraws      == {0, 3}
MCGammas     == {<<1, 2, 4>>, <<3, 0, 3>>, <<5, 1, 0>>}
MCAttributes == {<<2, 3, 6>>, <<4>>}
MCHashes     == {2, 4}

-----------------------------------------------------------------------------
vars == <<tokenizerVars, bsonVars, databaseVars, extensionVars, credentialVars, programVars>>

(* None of the others has begun. *)
Alone(one) ==
  /\ one # "tokenizer"  => outcome = "idle"
  /\ one # "parser"     => parsing = "idle"
  /\ one # "database"   => \A c \in Clients : ~clients[c].made
  /\ one # "extensions" => m_extensions = NoExtensions /\ given = <<>> /\ generatedBy = Nobody
  /\ one # "scheme"     => stage = "setup"
  /\ one # "programs"   => program = "none"

Init ==
  /\ TokenizerInit /\ BsonInit /\ DatabaseInit /\ ExtensionsInit
  /\ CredentialInit /\ ProgramsInit

Tokenize ==
  /\ Alone("tokenizer") /\ TokenizerNext
  /\ UNCHANGED <<bsonVars, databaseVars, extensionVars, credentialVars, programVars>>

Parse ==
  /\ Alone("parser") /\ BsonNext
  /\ UNCHANGED <<tokenizerVars, databaseVars, extensionVars, credentialVars, programVars>>

Next ==
  \/ Tokenize
  \/ Parse
  \/ /\ Alone("database") /\ DatabaseNext
     /\ UNCHANGED <<tokenizerVars, bsonVars, extensionVars, credentialVars, programVars>>
  \/ /\ Alone("extensions") /\ ExtensionsNext
     /\ UNCHANGED <<tokenizerVars, bsonVars, databaseVars, credentialVars, programVars>>
  \/ /\ Alone("scheme") /\ CredentialNext
     /\ UNCHANGED <<tokenizerVars, bsonVars, databaseVars, extensionVars, programVars>>
  \/ /\ Alone("programs") /\ ProgramsNext
     /\ UNCHANGED <<tokenizerVars, bsonVars, databaseVars, extensionVars, credentialVars>>

(* A parser that has begun goes on. *)
FairSpec == Init /\ [][Next]_vars /\ WF_vars(Tokenize) /\ WF_vars(Parse)

(* The tokeniser and the parser end: of their loops only that of a constant *)
(* that is not closed (parser.cpp:132) runs on.                             *)
ProgramsEnd == TokenizerEnds /\ ParserEnds
=============================================================================
