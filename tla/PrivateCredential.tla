------------------------- MODULE PrivateCredential -------------------------
(***************************************************************************)
(* The private credential scheme of mclUtilities.cpp: an issuer signs a    *)
(* user's attributes, the user checks what it obtains (equation (1)),      *)
(* shows it with fresh randomness as often as it likes, and a verifier     *)
(* checks what is shown (equation (2)).  One operation is one function of  *)
(* mclUtilities.cpp; mainMcl calls each once, in the order of the stages.  *)
(***************************************************************************)
EXTENDS Scalars, Sequences, Naturals

CONSTANTS
  Gammas,      (* the triples of attribute generators mainMcl may draw      *)
  Attributes,  (* the lists of hashes of the attributes, none of them Zero  *)
  MaxShows     (* bound: shows of one credential                            *)

ASSUME GammasAssumption == Gammas \subseteq [1 .. 3 -> Scalar]
ASSUME AttributesAssumption == Attributes \subseteq Seq(Scalar \ {Zero})
ASSUME MaxShowsAssumption == MaxShows \in Nat

VARIABLES
  stage,         (* the functions called so far                             *)
  alpha,         (* setup: h1 = g1^alpha and h2 = g2^alpha                  *)
  issuer,        (* issuer's key pair: privateKey, publicKey, xO, yO        *)
  user,          (* user's key pair: privateKey, publicKey                  *)
  gamma,         (* the attributes' generators                              *)
  attributes,    (* the hashes of the attributes                            *)
  credential,    (* what issue returned: c1, c2, c3                         *)
  rRPrime,       (* global: the exponent show1 compares with                *)
  pkuSisHsIG2,   (* global: the pairing verify compares with                *)
  obtained,      (* what obtain was called with, and what it answered       *)
  shows,         (* shows so far                                            *)
  spent,         (* history: the sum of the r' of the earlier shows         *)
  presentation,  (* what show returned, and the comparison show1 printed    *)
  verified       (* what verify answered of it, and its own comparison      *)

keys == <<alpha, issuer, user, gamma, attributes>>
globals == <<rRPrime, pkuSisHsIG2>>
credentialVars == <<stage, keys, credential, globals, obtained, shows, spent,
                    presentation, verified>>

Stage == {"setup", "issuerKey", "userKey", "issue", "issued", "shown"}

-----------------------------------------------------------------------------
(* computeInverseHashProduct: of a list that is not empty.                  *)
Product(hashes) ==
  LET f[k \in 1 .. Len(hashes)] ==
        IF k = 1 THEN hashes[1] ELSE Mul(f[k - 1], hashes[k])
  IN f[Len(hashes)]

(* The scalars are a field, in which no product of hashes is Zero.          *)
ASSUME ProductAssumption ==
  \A hashes \in Attributes : Product(hashes) \in Scalar \ {Zero}

InverseHashProduct(hashes) == Inv(Product(hashes))

Setup ==
  /\ stage = "setup"
  /\ alpha' \in Draws
  /\ stage' = "issuerKey"
  /\ UNCHANGED <<issuer, user, gamma, attributes, credential, globals, obtained,
                 shows, spent, presentation, verified>>

IssuerKeys(s) ==
  [privateKey |-> s, publicKey |-> s, xO |-> s, yO |-> Mul(alpha, s)]

GenerateIssuerKeyPair ==
  /\ stage = "issuerKey"
  /\ \E s \in Draws : issuer' = IssuerKeys(s)
  /\ stage' = "userKey"
  /\ UNCHANGED <<alpha, user, gamma, attributes, credential, globals, obtained,
                 shows, spent, presentation, verified>>

(* generateAUserKeyPair, and mainMcl's choice of attributes and generators. *)
GenerateAUserKeyPair ==
  /\ stage = "userKey"
  /\ \E sku \in Draws :
       user' = [privateKey |-> sku, publicKey |-> Mul(alpha, sku)]
  /\ gamma' \in Gammas
  /\ attributes' \in Attributes
  /\ stage' = "issue"
  /\ UNCHANGED <<alpha, issuer, credential, globals, obtained, shows, spent,
                 presentation, verified>>

-----------------------------------------------------------------------------
(* pkuSisHsI: the user's public key to the power of the issuer's private    *)
(* key and of the attributes' inverse.                                      *)
Signed(hsInverse) == Mul(user.publicKey, Mul(issuer.privateKey, hsInverse))

(* Mutant: the user's part is left out.                                     *)
IssuedWithoutUser(r) ==
  [c1 |-> Add(issuer.publicKey, Mul(alpha, r)),
   c2 |-> r,
   c3 |-> [k \in 1 .. 3 |-> Mul(gamma[k], r)]]

Issued(r) ==
  [c1 |-> Add(issuer.publicKey,
              Add(Signed(InverseHashProduct(attributes)), Mul(alpha, r))),
   c2 |-> r,
   c3 |-> [k \in 1 .. 3 |-> Mul(gamma[k], r)]]

Issue ==
  /\ stage = "issue"
  /\ \E r \in Draws :
       /\ credential' = Issued(r)
       /\ rRPrime' = r
  /\ pkuSisHsIG2' = Signed(InverseHashProduct(attributes))
  /\ stage' = "issued"
  /\ UNCHANGED <<keys, obtained, shows, spent, presentation, verified>>

(* Equation (1), with the private key and the hashes of whoever obtains.    *)
EquationOne(sku, hsInverse) ==
  credential.c1 =
    Add(issuer.xO, Add(Pairing(Mul(sku, hsInverse), issuer.yO),
                       Pairing(alpha, credential.c2)))

Obtain ==
  /\ stage = "issued"
  /\ obtained = {}
  /\ \E sku \in Draws, hashes \in Attributes :
       obtained' = {[sku |-> sku, hsInverse |-> InverseHashProduct(hashes),
                     answer |-> EquationOne(sku, InverseHashProduct(hashes))]}
  /\ UNCHANGED <<stage, keys, credential, globals, shows, spent, presentation,
                 verified>>

-----------------------------------------------------------------------------
(* show1: fresh randomness.  c3' is c3 to the power 1 + r'.                 *)

(* Mutant: c2 keeps its randomness.                                         *)
RandomizedButC2(rPrime) ==
  [c1 |-> Add(credential.c1, Mul(alpha, rPrime)),
   c2 |-> credential.c2,
   c3 |-> [k \in 1 .. 3 |-> Add(credential.c3[k], Mul(credential.c3[k], rPrime))]]

Randomized(rPrime) ==
  [c1 |-> Add(credential.c1, Mul(alpha, rPrime)),
   c2 |-> Add(credential.c2, rPrime),
   c3 |-> [k \in 1 .. 3 |-> Add(credential.c3[k], Mul(credential.c3[k], rPrime))]]

(* show2 *)
V == <<One, Neg(One), One>>

(* show3: an element of v that is zero gives the point (0, 0), which the    *)
(* verifier's pairing takes for the neutral element.                        *)
W(c2Prime) == [k \in 1 .. 3 |-> Mul(c2Prime, V[k])]
B(c3Prime) == Add(Mul(c3Prime[1], V[1]), Mul(c3Prime[3], V[2]))

(* show4 *)
Sigma1(prime, m, rm) == Add(prime.c1, Add(B(prime.c3), Mul(m, rm)))

(* show5                                                                    *)
A(rm) ==
  Mul(issuer.yO, Mul(Mul(user.privateKey, InverseHashProduct(attributes)), Inv(rm)))

(* The comparison that show1 prints.                                        *)
Show1Test(exponent, c2Prime) ==
  Pairing(Mul(alpha, exponent), One) = Pairing(alpha, c2Prime)

(* Mutant: the exponent is that of this show alone.                         *)
AccumulatedFresh(rPrime) == Add(credential.c2, rPrime)

Accumulated(rPrime) == Add(rRPrime, rPrime)

(* show, with the random message m of the issuer.  A random message rM of   *)
(* zero has no inverse and is left out.  show1 and show3 append to the      *)
(* vectors c3' and w of their caller (lines 199, 251, 257): each show is    *)
(* given fresh ones here, as mainMcl gives the one it makes; a caller that  *)
(* passed those of an earlier show would find its entries first.            *)
Show ==
  /\ stage \in {"issued", "shown"}
  /\ obtained # {}
  /\ shows < MaxShows
  /\ \E rPrime \in Draws, rm \in Draws \ {Zero}, m \in Draws :
       LET prime == Randomized(rPrime) IN
       /\ presentation' =
            [c1 |-> prime.c1, c2 |-> prime.c2, c3 |-> prime.c3,
             sigma1 |-> Sigma1(prime, m, rm), sigma2 |-> rm, a |-> A(rm),
             w |-> W(prime.c2), m |-> m,
             test |-> Show1Test(Accumulated(rPrime), prime.c2)]
       /\ rRPrime' = Accumulated(rPrime)
       /\ spent' = IF shows = 0 THEN Zero
                     ELSE Add(spent, Sub(presentation.c2, credential.c2))
  /\ shows' = shows + 1
  /\ verified' = {}
  /\ stage' = "shown"
  /\ UNCHANGED <<keys, credential, pkuSisHsIG2, obtained>>

-----------------------------------------------------------------------------
(* Mutant: the third generator is taken for the first.                      *)
EquationTwoFirst(p) ==
  p.sigma1 =
    Add(issuer.xO,
        Add(Pairing(p.sigma2, p.a),
            Add(Pairing(alpha, p.c2),
                Add(Add(Pairing(gamma[1], p.w[1]), Pairing(gamma[1], p.w[2])),
                    Pairing(p.sigma2, p.m)))))

(* Equation (2).                                                           *)
EquationTwo(p) ==
  p.sigma1 =
    Add(issuer.xO,
        Add(Pairing(p.sigma2, p.a),
            Add(Pairing(alpha, p.c2),
                Add(Add(Pairing(gamma[1], p.w[1]), Pairing(gamma[3], p.w[2])),
                    Pairing(p.sigma2, p.m)))))

Verify ==
  /\ stage = "shown"
  /\ verified = {}
  /\ verified' =
       {[test |-> pkuSisHsIG2 = Pairing(presentation.sigma2, presentation.a),
         answer |-> EquationTwo(presentation)]}
  /\ UNCHANGED <<stage, keys, credential, globals, obtained, shows, spent,
                 presentation>>

-----------------------------------------------------------------------------
NoPresentation ==
  [c1 |-> Zero, c2 |-> Zero, c3 |-> <<Zero, Zero, Zero>>, sigma1 |-> Zero,
   sigma2 |-> Zero, a |-> Zero, w |-> <<Zero, Zero, Zero>>, m |-> Zero,
   test |-> TRUE]

CredentialInit ==
  /\ stage = "setup"
  /\ alpha = Zero
  /\ issuer = [privateKey |-> Zero, publicKey |-> Zero, xO |-> Zero, yO |-> Zero]
  /\ user = [privateKey |-> Zero, publicKey |-> Zero]
  /\ gamma = <<Zero, Zero, Zero>>
  /\ attributes = <<>>
  /\ credential = [c1 |-> Zero, c2 |-> Zero, c3 |-> <<Zero, Zero, Zero>>]
  /\ rRPrime = Zero
  /\ pkuSisHsIG2 = Zero
  /\ obtained = {}
  /\ shows = 0
  /\ spent = Zero
  /\ presentation = NoPresentation
  /\ verified = {}

CredentialNext ==
  \/ Setup
  \/ GenerateIssuerKeyPair
  \/ GenerateAUserKeyPair
  \/ Issue
  \/ Obtain
  \/ Show
  \/ Verify

CredentialSpec == CredentialInit /\ [][CredentialNext]_credentialVars
-----------------------------------------------------------------------------
(* Properties.                                                             *)

CredentialTypeOK ==
  /\ stage \in Stage
  /\ alpha \in Scalar
  /\ issuer \in [privateKey : Scalar, publicKey : Scalar, xO : Scalar, yO : Scalar]
  /\ user \in [privateKey : Scalar, publicKey : Scalar]
  /\ gamma \in [1 .. 3 -> Scalar]
  /\ attributes \in Seq(Scalar)
  /\ credential \in [c1 : Scalar, c2 : Scalar, c3 : [1 .. 3 -> Scalar]]
  /\ rRPrime \in Scalar
  /\ pkuSisHsIG2 \in Scalar
  /\ shows \in 0 .. MaxShows
  /\ spent \in Scalar
  /\ presentation \in
       [c1 : Scalar, c2 : Scalar, c3 : [1 .. 3 -> Scalar], sigma1 : Scalar,
        sigma2 : Scalar, a : Scalar, w : [1 .. 3 -> Scalar], m : Scalar,
        test : BOOLEAN]

(* Equation (1) holds of a credential for the user and the attributes it    *)
(* was issued to, whatever was drawn, and for no others: another private    *)
(* key, or other attributes, pass only when key and attributes make the     *)
(* same product or a draw was zero.                                         *)
ObtainExact ==
  \A o \in obtained : o.answer <=>
    \/ alpha = Zero
    \/ issuer.privateKey = Zero
    \/ Mul(o.sku, o.hsInverse)
         = Mul(user.privateKey, InverseHashProduct(attributes))

(* However often a credential is shown, what is shown opens to the issuer's *)
(* key and to the user's signed attributes: the randomness of c1' is the    *)
(* one c2' carries.                                                         *)
PresentationOpens ==
  shows > 0 =>
    presentation.c1 =
      Add(issuer.xO, Add(Signed(InverseHashProduct(attributes)),
                         Pairing(alpha, presentation.c2)))

(* The first show of a credential prints "==".  rRPrime is a global that    *)
(* every show adds its r' to, so a later one does when the earlier shows'   *)
(* randomness adds up to nothing.                                           *)
Show1Accumulates ==
  shows > 0 => (presentation.test <=> Mul(alpha, spent) = Zero)

(* The product verify compares with the globals' is that of the credential  *)
(* that was shown.                                                          *)
VerifyTestHolds == \A v \in verified : v.test

(* show1 raises c3 to the power 1 + r' where c1 and c2 are moved by r', so  *)
(* the verifier accepts an honest show only by coincidence: two equal       *)
(* generators, r' = 0 or r = 1.                                             *)
AcceptedByCoincidence ==
  \A v \in verified :
    v.answer <=>
      Mul(Mul(Sub(gamma[1], gamma[3]), Sub(presentation.c2, credential.c2)),
          Sub(credential.c2, One)) = Zero
=============================================================================
