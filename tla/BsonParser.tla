----------------------------- MODULE BsonParser -----------------------------
(***************************************************************************)
(* The BSON parser of pki-openssl-version/parser/bson: a file is cut into  *)
(* documents by their sizes, and a document into tokens by the type byte   *)
(* of each element (configured as in config.h: one thread, several         *)
(* documents in a file).                                                   *)
(*                                                                         *)
(* A byte is in 0 .. 255. A double, a date or an identifier is its bytes.  *)
(* Reading or writing beyond the bytes of a file is undefined; where the   *)
(* program surely survives it, what was read is any value.                 *)
(***************************************************************************)
EXTENDS Integers, Sequences, SequencesExt

CONSTANTS
  BsonFiles   \* the files tried: sequences of [elements, last], last the final byte

Byte == 0 .. 255

VARIABLES
  bsonFile,       \* the documents of the file
  m_fileData,     \* its bytes (static)
  position,       \* fileDataIterator
  m_documentsSizes,   \* <<first byte, byte after the last>> of each document
  m_tokens,       \* the tokens of each document parsed
  parsing         \* "idle", "cutting", "parsing", "parsed", "printed" or "undefined"

bsonVars == <<bsonFile, m_fileData, position, m_documentsSizes, m_tokens, parsing>>

(***************************************************************************)
(* BSON as its specification lays it out: an element is [type, name, body] *)
(* and a document its length, its elements and a final byte.               *)
(***************************************************************************)
EncodedInt32(n) ==
  <<n % 256, (n \div 256) % 256, (n \div 65536) % 256, (n \div 16777216) % 256>>

EncodedElement(e) == <<e.type>> \o e.name \o <<0>> \o e.body

EncodedDocument(d) ==
  LET body == FlattenSeq([i \in 1 .. Len(d.elements) |-> EncodedElement(d.elements[i])])
  IN EncodedInt32(Len(body) + 5) \o body \o <<d.last>>

EncodedFile(ds) == FlattenSeq([i \in 1 .. Len(ds) |-> EncodedDocument(ds[i])])

(* Little endian, and signed. *)
Int32(b) == b[1] + 256 * b[2] + 65536 * b[3] + 16777216 * (IF b[4] > 127 THEN b[4] - 256 ELSE b[4])

(* A body that begins with the size of all but its first n bytes. *)
Sized(body, n) == Len(body) >= n /\ n >= 4 /\ Int32(body) = Len(body) - n

(***************************************************************************)
(* The body that BSON gives an element of each type. A nested document is  *)
(* not looked into, and other types are not of BSON.                       *)
(***************************************************************************)
Shaped(e) ==
  /\ e.type \in {1, 9, 17, 18}  => Len(e.body) = 8
  /\ e.type \in {2, 13, 14}     => Sized(e.body, 4)
  /\ e.type = 5                 => Sized(e.body, 5)
  /\ e.type \in {6, 10, 127}    => e.body = <<>>
  /\ e.type = 7                 => Len(e.body) = 12
  /\ e.type = 8                 => e.body \in {<<0>>, <<1>>}
  /\ e.type = 11 =>
       \E i \in 1 .. Len(e.body) - 1 :
          {k \in DOMAIN e.body : e.body[k] = 0} = {i, Len(e.body)}
  /\ e.type = 12                => Sized(e.body, 16)
  /\ e.type = 16                => Len(e.body) = 4

(* The elements a file may have: its type byte is not 0, nor is a byte of a name. *)
Element == [type : Byte \ {0}, name : Seq(Byte \ {0}), body : Seq(Byte)]

(* The size of a document is a number of 32 bits, with its sign. *)
MaxSize == 2147483647

ASSUME BsonFilesAssumption ==
  \A ds \in BsonFiles :
     /\ ds \in Seq([elements : Seq(Element), last : Byte])
     /\ \A i \in DOMAIN ds :
          /\ \A k \in DOMAIN ds[i].elements : Shaped(ds[i].elements[k])
          /\ Len(EncodedDocument(ds[i])) <= MaxSize

-----------------------------------------------------------------------------
(* The utilities of baseToken. A read is [data, next]; next is the position *)
(* after it, and Beyond that of a read that leaves the file.                *)

Beyond == 0
Lost == [data |-> <<>>, next |-> Beyond]

At(p, n) ==
  IF p = Beyond \/ n < 0 \/ p + n > Len(m_fileData) + 1 THEN Lost
  ELSE [data |-> SubSeq(m_fileData, p, p + n - 1), next |-> p + n]

getName(p) ==
  LET ends == {q \in p .. Len(m_fileData) : m_fileData[q] = 0}
  IN IF p = Beyond \/ ends = {} THEN Lost
     ELSE LET q == CHOOSE q \in ends : \A r \in ends : q <= r
          IN [data |-> SubSeq(m_fileData, p, q - 1), next |-> q + 1]

getCstring(p) == getName(p)

getString(p) ==
  LET size == At(p, 4) IN IF size = Lost THEN Lost ELSE At(size.next, Int32(size.data))

(* size bytes are copied from after the size, which size counts too. *)
getDocument(p) ==
  LET size == At(p, 4) IN IF size = Lost THEN Lost ELSE At(size.next, Int32(size.data))

(***************************************************************************)
(* The parser of a nested document takes it as its m_fileData, which is    *)
(* static: the bytes of the file are replaced, and the position in them is *)
(* one of no bytes (or the nested parser leaves its own before).           *)
(***************************************************************************)
parseNested(document) == Lost

-----------------------------------------------------------------------------
(* parse of each token: its name, what it keeps, and the element after it. *)

Kept(name, read) == [name |-> name.data, data |-> read.data, next |-> read.next]

x01Token(p) == LET name == getName(p + 1) IN Kept(name, At(name.next, 8))
x02Token(p) == LET name == getName(p + 1) IN Kept(name, getString(name.next))

(* The document is looked for at the element itself. *)
x03Token(p) == LET name == getName(p + 1) IN Kept(name, parseNested(getDocument(p)))
x04Token(p) == LET name == getName(p + 1) IN Kept(name, parseNested(getDocument(p)))

(***************************************************************************)
(* The bytes are copied to strings that begin with m_data, one a string:   *)
(* there is one such string. A subtype that is not listed copies nothing.  *)
(***************************************************************************)
x05Token(p) ==
  LET name == getName(p + 1)
      size == At(name.next, 4)
      subtype == At(size.next, 1)
      bytes == At(subtype.next, Int32(size.data))
  IN CASE Lost \in {name, size, subtype}        -> Kept(name, Lost)
       [] Lost \notin {name, size, subtype} ->
            IF subtype.data[1] \notin 0 .. 5 \union {80} THEN Kept(name, [bytes EXCEPT !.data = <<>>])
            ELSE IF Int32(size.data) > 1 THEN Kept(name, Lost) ELSE Kept(name, bytes)

x06Token(p) == LET name == getName(p + 1) IN Kept(name, At(name.next, 0))
x07Token(p) == LET name == getName(p + 1) IN Kept(name, At(name.next, 12))

(***************************************************************************)
(* Four bytes are read for the one the element has: a true one is read so  *)
(* when the three that follow are zero, or may be at the end of the file.  *)
(***************************************************************************)
x08Values(p) ==
  LET one == At(getName(p + 1).next, 1)
      four == At(getName(p + 1).next, 4)
  IN IF one.data # <<1>> THEN {FALSE}
     ELSE IF four = Lost THEN BOOLEAN ELSE {Int32(four.data) = 1}

(* Mutant: the four bytes that were read are passed over. *)
x08TokenOfFour(p, value) ==
  LET name == getName(p + 1)
  IN Kept(name, [At(name.next, 4) EXCEPT !.data = <<IF value THEN 1 ELSE 0>>])

x08Token(p, value) ==
  LET name == getName(p + 1)
  IN Kept(name, [At(name.next, 1) EXCEPT !.data = <<IF value THEN 1 ELSE 0>>])

x09Token(p) == LET name == getName(p + 1) IN Kept(name, At(name.next, 8))
x0AToken(p) == LET name == getName(p + 1) IN Kept(name, At(name.next, 0))

(* Mutant: the options of the regular expression are not read. *)
x0BTokenWithoutOptions(p) ==
  LET name == getName(p + 1)
      pattern == getCstring(name.next)
  IN Kept(name, [pattern EXCEPT !.data = @ \o <<0, 0>>])

x0BToken(p) ==
  LET name == getName(p + 1)
      pattern == getCstring(name.next)
      options == getCstring(pattern.next)
  IN Kept(name, [options EXCEPT !.data = pattern.data \o <<0>> \o @ \o <<0>>])

(* The name of the collection is read and replaced by the identifier. *)
x0CToken(p) == LET name == getName(p + 1) IN Kept(name, At(getString(name.next).next, 12))

x0DToken(p) == LET name == getName(p + 1) IN Kept(name, getString(name.next))
x0EToken(p) == LET name == getName(p + 1) IN Kept(name, getString(name.next))

x0FToken(p) ==
  LET name == getName(p + 1)
      code == getString(At(name.next, 4).next)
  IN Kept(name, parseNested(getDocument(code.next)))

x10Token(p) == LET name == getName(p + 1) IN Kept(name, At(name.next, 4))
x11Token(p) == LET name == getName(p + 1) IN Kept(name, At(name.next, 8))

(* No name is read: its bytes are taken for those of the number. *)
x12Token(p) == Kept([data |-> <<>>], At(p + 1, 8))

x7FToken(p) == LET name == getName(p + 1) IN Kept(name, At(name.next, 0))

(***************************************************************************)
(* The type bytes that make a token. A char is signed, so that 255 never   *)
(* equals the token type xFF, and xFFToken is never made.                  *)
(***************************************************************************)
tokenType == 1 .. 18 \union {127}

parse(type, p) ==
  CASE type = 1  -> {x01Token(p)}  [] type = 2  -> {x02Token(p)}
    [] type = 3  -> {x03Token(p)}  [] type = 4  -> {x04Token(p)}
    [] type = 5  -> {x05Token(p)}  [] type = 6  -> {x06Token(p)}
    [] type = 7  -> {x07Token(p)}
    [] type = 8  -> {x08Token(p, value) : value \in x08Values(p)}
    [] type = 9  -> {x09Token(p)}  [] type = 10 -> {x0AToken(p)}
    [] type = 11 -> {x0BToken(p)}  [] type = 12 -> {x0CToken(p)}
    [] type = 13 -> {x0DToken(p)}  [] type = 14 -> {x0EToken(p)}
    [] type = 15 -> {x0FToken(p)}  [] type = 16 -> {x10Token(p)}
    [] type = 17 -> {x11Token(p)}  [] type = 18 -> {x12Token(p)}
    [] type = 127 -> {x7FToken(p)}

-----------------------------------------------------------------------------
Undefined == parsing' = "undefined" /\ UNCHANGED <<bsonFile, m_fileData, position, m_documentsSizes, m_tokens>>

(* main: a file that is not empty is read and given to a parser. *)
ReadBsonFile ==
  /\ parsing = "idle"
  /\ bsonFile' \in {ds \in BsonFiles : ds # <<>>}
  /\ m_fileData' = EncodedFile(bsonFile')
  /\ position' = 1
  /\ parsing' = "cutting"
  /\ UNCHANGED <<m_documentsSizes, m_tokens>>

(***************************************************************************)
(* parseData, first loop: a document is as long as it says; one that does  *)
(* not end by 00 is passed over.                                           *)
(***************************************************************************)
CutDocument ==
  /\ parsing = "cutting"
  /\ LET size == At(position, 4)
         document == At(position, Int32(size.data))
     IN IF size = Lost \/ document = Lost THEN Undefined
        ELSE /\ m_documentsSizes' = IF Last(document.data) # 0 THEN m_documentsSizes
                                    ELSE Append(m_documentsSizes, <<position, document.next>>)
             /\ position' = document.next
             /\ parsing' = IF position' > Len(m_fileData) THEN "parsing" ELSE "cutting"
             /\ UNCHANGED <<bsonFile, m_fileData, m_tokens>>

(* parseData, second loop: the next document, or the end of parseData. *)
Complete == \A i \in DOMAIN m_tokens : m_tokens[i].state # "open"

NextDocument ==
  /\ parsing = "parsing" /\ Complete
  /\ LET i == Len(m_tokens) + 1
     IN IF i > Len(m_documentsSizes)
        THEN parsing' = "parsed" /\ UNCHANGED <<position, m_tokens>>
        ELSE /\ position' = m_documentsSizes[i][1] + 4
             /\ m_tokens' = Append(m_tokens, [state |-> "open", tokens |-> <<>>])
             /\ UNCHANGED parsing
  /\ UNCHANGED <<bsonFile, m_fileData, m_documentsSizes>>

(* parseOneDocument, one turn of its loop. *)
OpenDocument == parsing = "parsing" /\ ~Complete
Boundary == m_documentsSizes[Len(m_tokens)][2]

ParseElement ==
  /\ OpenDocument /\ position # Boundary
  /\ At(position, 1) # Lost
  /\ m_fileData[position] \in tokenType
  /\ \E token \in parse(m_fileData[position], position) :
       IF token.next = Beyond THEN Undefined
       ELSE /\ m_tokens' = [m_tokens EXCEPT ![Len(m_tokens)].tokens =
                 Append(@, [type |-> m_fileData[position], name |-> token.name, data |-> token.data])]
            /\ position' = token.next
            /\ UNCHANGED <<bsonFile, m_fileData, m_documentsSizes, parsing>>

(* Mutant: the end of the document is met without leaving the loop. *)
EndDocumentIgnored ==
  /\ OpenDocument /\ position # Boundary
  /\ UNCHANGED bsonVars

(* The byte 00, or one of no type: the tokens read so far are returned. *)
EndDocument ==
  /\ OpenDocument /\ position # Boundary
  /\ IF At(position, 1) = Lost THEN Undefined
     ELSE /\ m_fileData[position] \notin tokenType
          /\ m_tokens' = [m_tokens EXCEPT ![Len(m_tokens)].state = "returned"]
          /\ UNCHANGED <<bsonFile, m_fileData, position, m_documentsSizes, parsing>>

(* The boundary is met without a 00: no tokens are returned (nullptr). *)
MeetBoundary ==
  /\ OpenDocument /\ position = Boundary
  /\ m_tokens' = [m_tokens EXCEPT ![Len(m_tokens)] = [state |-> "null", tokens |-> <<>>]]
  /\ UNCHANGED <<bsonFile, m_fileData, position, m_documentsSizes, parsing>>

PrintTokens ==
  /\ parsing = "parsed"
  /\ IF \E i \in 1 .. Len(m_tokens) : m_tokens[i].state = "null" THEN Undefined
     ELSE parsing' = "printed" /\ UNCHANGED <<bsonFile, m_fileData, position, m_documentsSizes, m_tokens>>

BsonInit ==
  /\ bsonFile = <<>> /\ m_fileData = <<>> /\ position = 1
  /\ m_documentsSizes = <<>> /\ m_tokens = <<>> /\ parsing = "idle"

BsonNext ==
  \/ ReadBsonFile \/ CutDocument \/ NextDocument \/ ParseElement
  \/ EndDocument \/ MeetBoundary \/ PrintTokens

BsonSpec == BsonInit /\ [][BsonNext]_bsonVars

-----------------------------------------------------------------------------
(* Properties *)

WellFormed ==
  FlattenSeq([i \in 1 .. Len(bsonFile) |-> IF bsonFile[i].last = 0 THEN <<bsonFile[i]>> ELSE <<>>])

Faithful == tokenType \ {3, 4, 5, 15, 18}

(* The identifier is what a DBPointer keeps. *)
BodyKept(e) ==
  IF e.type = 12 THEN SubSeq(e.body, Len(e.body) - 11, Len(e.body))
  ELSE IF e.type \in {2, 13, 14} THEN SubSeq(e.body, 5, Len(e.body)) ELSE e.body

Represents(t, e) ==
  /\ t.type = e.type /\ t.name = e.name
  /\ IF e.type = 8 THEN t.data = <<1>> => e.body = <<1>> ELSE t.data = BodyKept(e)

(***************************************************************************)
(* Every document of a file that ends by 00 gives its tokens at its place: *)
(* up to the first element of a type that is misread (a nested document, a *)
(* binary, a 64-bit integer) or not known, the tokens are its elements in  *)
(* their order, with their names and values, whatever document came before *)
(* it. Only a true boolean may be read as false.                           *)
(***************************************************************************)
ElementsRead ==
  \A i \in {j \in 1 .. Len(m_tokens) : m_tokens[j].state # "null"} :
    LET es == WellFormed[i].elements
        t == m_tokens[i]
        n == IF t.state = "open" /\ Len(t.tokens) < Len(es) THEN Len(t.tokens) ELSE Len(es)
    IN \A k \in 1 .. n :
         (\A j \in 1 .. k : es[j].type \in Faithful) =>
            Len(t.tokens) >= k /\ Represents(t.tokens[k], es[k])

Misread(e) ==
  \/ e.type \in {3, 4, 15}
  \/ e.type = 5 /\ Len(e.body) > 6 /\ e.body[5] \in 0 .. 5 \union {80}
  \/ e.type = 18 /\ EncodedElement(e)[10] \in tokenType

(***************************************************************************)
(* The documents of the file that end by 00 are all parsed, and no other,  *)
(* and each gives its tokens unless one of its elements is misread: the    *)
(* nullptr that parseOneDocument may return is met on no other document.   *)
(***************************************************************************)
DocumentsRead ==
  parsing \in {"parsed", "printed"} =>
     /\ Len(m_tokens) = Len(WellFormed)
     /\ \A i \in 1 .. Len(m_tokens) :
          m_tokens[i].state # "returned" => \E e \in ToSet(WellFormed[i].elements) : Misread(e)

(***************************************************************************)
(* What the program has of a file is what the file says, place by place.   *)
(***************************************************************************)
FileRead == ElementsRead /\ DocumentsRead

(***************************************************************************)
(* The parser leaves the bytes of a well-formed file only for a nested     *)
(* document, a binary of two bytes or more, or a 64-bit integer of which   *)
(* the tenth byte reads as a type; and for a nested document it always     *)
(* does, so that none is ever among the tokens.                            *)
(***************************************************************************)
BytesLeft ==
  LET es == UNION {ToSet(bsonFile[i].elements) : i \in DOMAIN bsonFile}
  IN /\ parsing = "undefined" => \E e \in es : Misread(e)
     /\ \A i \in 1 .. Len(m_tokens), type \in {3, 4, 15} :
          \A k \in 1 .. Len(m_tokens[i].tokens) : m_tokens[i].tokens[k].type # type

(* The parser ends, on any file: each loop of it goes forward. *)
ParserEnds == (parsing = "cutting") ~> (parsing \in {"printed", "undefined"})
=============================================================================
