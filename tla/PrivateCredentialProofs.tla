---------------------- MODULE PrivateCredentialProofs ----------------------
(***************************************************************************)
(* The private credential scheme for every field of exponents, every choice*)
(* of draws, generators and attributes, and any number of shows: equation  *)
(* (1) holds of the credential of an honest issuer and of no other, every  *)
(* show opens to the issuer's key and the user's signature, equation (2)   *)
(* accepts a show exactly when the draws coincide, verify's product is the *)
(* one issue computed, and show1's comparison counts every show before.    *)
(***************************************************************************)
EXTENDS PrivateCredential, TLAPS

(* Powers of powers may be regrouped: the product equation (1) pairs.       *)
LEMMA Regroup ==
  ASSUME NEW w \in Scalar, NEW x \in Scalar, NEW y \in Scalar, NEW z \in Scalar
  PROVE  Mul(Mul(w, x), Mul(y, z)) = Mul(Mul(x, z), Mul(w, y))
<1>1. Mul(Mul(w, x), Mul(y, z)) = Mul(w, Mul(x, Mul(y, z)))
  BY ScalarClosed, MulLaws
<1>2. Mul(x, Mul(y, z)) = Mul(y, Mul(x, z))
  BY ScalarClosed, MulLaws
<1>3. Mul(w, Mul(y, Mul(x, z))) = Mul(Mul(w, y), Mul(x, z))
  BY ScalarClosed, MulLaws
<1>4. Mul(Mul(w, y), Mul(x, z)) = Mul(Mul(x, z), Mul(w, y))
  BY ScalarClosed, MulLaws
<1> QED BY <1>1, <1>2, <1>3, <1>4

(* The random message of show4 and show5 cancels in verify.                 *)
LEMMA Cancel ==
  ASSUME NEW y \in Scalar, NEW k \in Scalar, NEW m \in Scalar \ {Zero}
  PROVE  Mul(m, Mul(y, Mul(k, Inv(m)))) = Mul(k, y)
<1>1. Mul(y, Mul(k, Inv(m))) = Mul(Mul(y, k), Inv(m))
  BY ScalarClosed, MulLaws
<1>2. Mul(m, Mul(Mul(y, k), Inv(m))) = Mul(Mul(y, k), Mul(m, Inv(m)))
  <2>1. Mul(Mul(y, k), Inv(m)) = Mul(Inv(m), Mul(y, k))
    BY ScalarClosed, MulLaws
  <2>2. Mul(m, Mul(Inv(m), Mul(y, k))) = Mul(Mul(m, Inv(m)), Mul(y, k))
    BY ScalarClosed, MulLaws
  <2> QED BY <2>1, <2>2, ScalarClosed, MulLaws
<1>3. Mul(Mul(y, k), Mul(m, Inv(m))) = Mul(y, k)
  BY ScalarClosed, MulLaws
<1> QED BY <1>1, <1>2, <1>3, ScalarClosed, MulLaws

(* Fresh randomness on c1 is that of c2.                                    *)
LEMMA Rerandomize ==
  ASSUME NEW x \in Scalar, NEW k \in Scalar, NEW b \in Scalar, NEW r \in Scalar,
         NEW p \in Scalar
  PROVE  Add(Add(x, Add(k, Mul(b, r))), Mul(b, p))
           = Add(x, Add(k, Mul(b, Add(r, p))))
<1>1. Add(Add(x, Add(k, Mul(b, r))), Mul(b, p))
        = Add(x, Add(Add(k, Mul(b, r)), Mul(b, p)))
  BY ScalarClosed, AddLaws
<1>2. Add(Add(k, Mul(b, r)), Mul(b, p)) = Add(k, Add(Mul(b, r), Mul(b, p)))
  BY ScalarClosed, AddLaws
<1> QED BY <1>1, <1>2, Distributivity

(* Zero annihilates.                                                        *)
LEMMA MulZero ==
  ASSUME NEW x \in Scalar
  PROVE  Mul(x, Zero) = Zero
<1> DEFINE z == Mul(x, Zero)
<1>1. z \in Scalar
  BY ScalarClosed
<1>2. z = Add(z, z)
  BY ScalarClosed, AddLaws, Distributivity
<1> HIDE DEF z
<1>3. Add(z, Neg(z)) = Add(z, Add(z, Neg(z)))
  BY <1>1, <1>2, ScalarClosed, AddLaws
<1>4. z = Zero
  BY <1>1, <1>3, ScalarClosed, AddLaws
<1> QED BY <1>4 DEF z

(* What two sums share cancels.                                             *)
LEMMA AddCancel ==
  ASSUME NEW x \in Scalar, NEW y \in Scalar, NEW z \in Scalar,
         Add(x, z) = Add(y, z)
  PROVE  x = y
<1>1. Add(Add(x, z), Neg(z)) = Add(Add(y, z), Neg(z))
  OBVIOUS
<1>2. Add(x, Add(z, Neg(z))) = Add(y, Add(z, Neg(z)))
  BY <1>1, ScalarClosed, AddLaws
<1> QED BY <1>2, ScalarClosed, AddLaws

LEMMA AddCancelBetween ==
  ASSUME NEW w \in Scalar, NEW x \in Scalar, NEW y \in Scalar, NEW z \in Scalar,
         Add(w, Add(x, z)) = Add(w, Add(y, z))
  PROVE  x = y
<1>1. Add(x, z) \in Scalar /\ Add(y, z) \in Scalar
  BY ScalarClosed
<1>2. Add(Add(x, z), w) = Add(Add(y, z), w)
  BY <1>1, AddLaws
<1>3. Add(x, z) = Add(y, z)
  BY <1>1, <1>2, AddCancel
<1> QED BY <1>3, AddCancel

(* A factor that is not zero cancels, so there are no divisors of zero.     *)
LEMMA MulCancel ==
  ASSUME NEW x \in Scalar, NEW y \in Scalar, NEW z \in Scalar \ {Zero},
         Mul(x, z) = Mul(y, z)
  PROVE  x = y
<1>1. Mul(Mul(x, z), Inv(z)) = Mul(Mul(y, z), Inv(z))
  OBVIOUS
<1>2. Mul(x, Mul(z, Inv(z))) = Mul(y, Mul(z, Inv(z)))
  BY <1>1, ScalarClosed, MulLaws
<1> QED BY <1>2, MulLaws

LEMMA NoDivisors ==
  ASSUME NEW x \in Scalar, NEW y \in Scalar
  PROVE  Mul(x, y) = Zero <=> x = Zero \/ y = Zero
<1>1. ASSUME Mul(x, y) = Zero, y # Zero PROVE x = Zero
  <2>1. Mul(Zero, y) = Mul(y, Zero) /\ Mul(y, Zero) = Zero
    BY ScalarClosed, MulLaws, MulZero
  <2>2. Mul(x, y) = Mul(Zero, y)
    BY <1>1, <2>1
  <2> QED BY <1>1, <2>2, ScalarClosed, MulCancel
<1>2. Mul(x, Zero) = Zero /\ Mul(Zero, y) = Zero
  BY ScalarClosed, MulLaws, MulZero
<1> QED BY <1>1, <1>2

-----------------------------------------------------------------------------
Keyed == stage \in {"issue", "issued", "shown"}
HasCredential == stage \in {"issued", "shown"}

(* What holds of the keys once they are made, of the credential once it is  *)
(* issued, of what was obtained and of what was last shown.                 *)
KeysMade ==
  /\ Keyed \/ stage = "userKey" => issuer = IssuerKeys(issuer.privateKey)
  /\ Keyed => /\ user.publicKey = Mul(alpha, user.privateKey)
              /\ attributes \in Attributes

CredentialMade ==
  HasCredential =>
    /\ credential.c1 = Add(issuer.xO, Add(Signed(InverseHashProduct(attributes)),
                                          Pairing(alpha, credential.c2)))
    /\ pkuSisHsIG2 = Signed(InverseHashProduct(attributes))

ObtainedRight ==
  /\ ~HasCredential => obtained = {}
  /\ \A o \in obtained :
       /\ o.sku \in Scalar
       /\ o.hsInverse \in Scalar
       /\ o.answer = EquationOne(o.sku, o.hsInverse)

ShownRight ==
  /\ stage # "shown" => shows = 0 /\ verified = {}
  /\ stage = "shown" =>
       /\ presentation.c1 =
            Add(issuer.xO, Add(Signed(InverseHashProduct(attributes)),
                               Pairing(alpha, presentation.c2)))
       /\ Pairing(presentation.sigma2, presentation.a) = pkuSisHsIG2
  /\ \A v \in verified : v.test

CredentialInv ==
  /\ CredentialTypeOK
  /\ KeysMade
  /\ CredentialMade
  /\ ObtainedRight
  /\ ShownRight

LEMMA InverseInScalar ==
  ASSUME NEW hashes \in Attributes
  PROVE  InverseHashProduct(hashes) \in Scalar
BY ProductAssumption, ScalarClosed DEF InverseHashProduct

LEMMA SignedInScalar ==
  ASSUME CredentialTypeOK, NEW h \in Scalar
  PROVE  Signed(h) \in Scalar
BY ScalarClosed DEF CredentialTypeOK, Signed

LEMMA CredentialInvInit == CredentialInit => CredentialInv
<1> SUFFICES ASSUME CredentialInit PROVE CredentialInv
  OBVIOUS
<1>1. CredentialTypeOK
  BY ScalarClosed, MaxShowsAssumption
  DEF CredentialInit, CredentialTypeOK, Stage, NoPresentation
<1>2. KeysMade /\ CredentialMade /\ ObtainedRight /\ ShownRight
  BY DEF CredentialInit, KeysMade, CredentialMade, ObtainedRight, ShownRight, Keyed,
         HasCredential
<1> QED BY <1>1, <1>2 DEF CredentialInv

-----------------------------------------------------------------------------
(* Each function preserves the invariant.                                   *)

LEMMA SetupStep == CredentialInv /\ Setup => CredentialInv'
<1> SUFFICES ASSUME CredentialInv, Setup PROVE CredentialInv'
  OBVIOUS
<1>1. CredentialTypeOK'
  BY DrawsAssumption DEF CredentialInv, CredentialTypeOK, Setup, Stage, keys, globals
<1>2. (KeysMade /\ CredentialMade /\ ObtainedRight /\ ShownRight)'
  BY DEF CredentialInv, KeysMade, CredentialMade, ObtainedRight, ShownRight, Setup,
         Keyed, HasCredential, globals
<1> QED BY <1>1, <1>2 DEF CredentialInv

LEMMA IssuerStep == CredentialInv /\ GenerateIssuerKeyPair => CredentialInv'
<1> SUFFICES ASSUME CredentialInv, GenerateIssuerKeyPair PROVE CredentialInv'
  OBVIOUS
<1>1. CredentialTypeOK'
  BY DrawsAssumption, ScalarClosed
  DEF CredentialInv, CredentialTypeOK, GenerateIssuerKeyPair, IssuerKeys, Stage, globals
<1>2. issuer' = IssuerKeys(issuer.privateKey)'
  BY DEF GenerateIssuerKeyPair, IssuerKeys
<1>3. (KeysMade /\ CredentialMade /\ ObtainedRight /\ ShownRight)'
  BY <1>2 DEF CredentialInv, KeysMade, CredentialMade, ObtainedRight, ShownRight,
         GenerateIssuerKeyPair, Keyed, HasCredential, globals
<1> QED BY <1>1, <1>3 DEF CredentialInv

LEMMA UserStep == CredentialInv /\ GenerateAUserKeyPair => CredentialInv'
<1> SUFFICES ASSUME CredentialInv, GenerateAUserKeyPair PROVE CredentialInv'
  OBVIOUS
<1>1. CredentialTypeOK'
  <2>1. attributes' \in Seq(Scalar)
    BY AttributesAssumption DEF GenerateAUserKeyPair
  <2> QED BY <2>1, DrawsAssumption, GammasAssumption, ScalarClosed
          DEF CredentialInv, CredentialTypeOK, GenerateAUserKeyPair, Stage, globals
<1>2. KeysMade'
  <2>1. user'.publicKey = Mul(alpha', user'.privateKey)
    BY DEF GenerateAUserKeyPair
  <2>2. issuer' = IssuerKeys(issuer.privateKey)'
    BY DEF GenerateAUserKeyPair, IssuerKeys, CredentialInv, KeysMade
  <2> QED BY <2>1, <2>2 DEF GenerateAUserKeyPair, KeysMade
<1>3. (CredentialMade /\ ObtainedRight /\ ShownRight)'
  BY DEF CredentialInv, CredentialMade, ObtainedRight, ShownRight,
         GenerateAUserKeyPair, HasCredential, globals
<1> QED BY <1>1, <1>2, <1>3 DEF CredentialInv

LEMMA IssueStep == CredentialInv /\ Issue => CredentialInv'
<1> SUFFICES ASSUME CredentialInv, Issue PROVE CredentialInv'
  OBVIOUS
<1> DEFINE h == InverseHashProduct(attributes)
<1>1. h \in Scalar
  BY InverseInScalar DEF CredentialInv, KeysMade, Keyed, Issue
<1>2. Signed(h) \in Scalar
  BY <1>1, SignedInScalar DEF CredentialInv
<1>3. PICK r \in Draws : credential' = Issued(r) /\ rRPrime' = r
  BY DEF Issue
<1>4. CredentialTypeOK'
  BY <1>2, <1>3, DrawsAssumption, ScalarClosed
  DEF CredentialInv, CredentialTypeOK, Issue, Issued, Stage, keys
<1>5. Signed(h)' = Signed(h)
  BY DEF Issue, keys, Signed, InverseHashProduct
<1>6. CredentialMade'
  <2>1. issuer.publicKey = issuer.xO
    BY DEF CredentialInv, KeysMade, Keyed, Issue, IssuerKeys
  <2>2. credential'.c1 = Add(issuer.xO, Add(Signed(h), Pairing(alpha, credential'.c2)))
    BY <1>3, <2>1 DEF Issued, Pairing
  <2> QED BY <2>2, <1>5 DEF CredentialMade, Issue, keys
<1>7. (KeysMade /\ ObtainedRight /\ ShownRight)'
  BY DEF CredentialInv, KeysMade, ObtainedRight, ShownRight, Issue, keys, Keyed,
         HasCredential, IssuerKeys
<1> QED BY <1>4, <1>6, <1>7 DEF CredentialInv

LEMMA ObtainStep == CredentialInv /\ Obtain => CredentialInv'
<1> SUFFICES ASSUME CredentialInv, Obtain PROVE CredentialInv'
  OBVIOUS
<1>1. CredentialTypeOK'
  BY DEF CredentialInv, CredentialTypeOK, Obtain, keys, globals
<1>2. ObtainedRight'
  BY DrawsAssumption, InverseInScalar
  DEF ObtainedRight, Obtain, HasCredential, EquationOne, keys
<1>3. Signed(InverseHashProduct(attributes))' = Signed(InverseHashProduct(attributes))
  BY DEF Obtain, keys, Signed, InverseHashProduct
<1>4. (KeysMade /\ CredentialMade /\ ShownRight)'
  BY <1>3 DEF CredentialInv, KeysMade, CredentialMade, ShownRight, Obtain, keys,
              globals, Keyed, HasCredential, IssuerKeys
<1> QED BY <1>1, <1>2, <1>4 DEF CredentialInv

LEMMA ShowStep == CredentialInv /\ Show => CredentialInv'
<1> SUFFICES ASSUME CredentialInv, Show PROVE CredentialInv'
  OBVIOUS
<1> DEFINE h == InverseHashProduct(attributes)
<1>1. h \in Scalar /\ Signed(h) \in Scalar
  BY InverseInScalar, SignedInScalar DEF CredentialInv, KeysMade, Keyed, Show
<1>2. PICK rPrime \in Draws, rm \in Draws \ {Zero}, m \in Draws :
        /\ presentation' =
             [c1 |-> Randomized(rPrime).c1, c2 |-> Randomized(rPrime).c2,
              c3 |-> Randomized(rPrime).c3,
              sigma1 |-> Sigma1(Randomized(rPrime), m, rm), sigma2 |-> rm,
              a |-> A(rm), w |-> W(Randomized(rPrime).c2), m |-> m,
              test |-> Show1Test(Accumulated(rPrime), Randomized(rPrime).c2)]
        /\ rRPrime' = Accumulated(rPrime)
  BY DEF Show
<1>3. rPrime \in Scalar /\ rm \in Scalar \ {Zero} /\ m \in Scalar
  BY DrawsAssumption
<1>4. Signed(h)' = Signed(h)
  BY DEF Show, keys, Signed, InverseHashProduct
<1>5. CredentialTypeOK'
  <2>1. /\ Randomized(rPrime).c1 \in Scalar
        /\ Randomized(rPrime).c2 \in Scalar
        /\ Randomized(rPrime).c3 \in [1 .. 3 -> Scalar]
    BY <1>3, ScalarClosed DEF CredentialInv, CredentialTypeOK, Randomized
  <2>2. Sigma1(Randomized(rPrime), m, rm) \in Scalar
    BY <1>3, <2>1, ScalarClosed DEF Sigma1, B, V
  <2>3. A(rm) \in Scalar
    BY <1>1, <1>3, ScalarClosed DEF CredentialInv, CredentialTypeOK, A
  <2>4. W(Randomized(rPrime).c2) \in [1 .. 3 -> Scalar]
    BY <2>1, ScalarClosed DEF W, V
  <2>5. Accumulated(rPrime) \in Scalar
    BY <1>3, ScalarClosed DEF CredentialInv, CredentialTypeOK, Accumulated
  <2>6. spent' \in Scalar
    BY ScalarClosed DEF CredentialInv, CredentialTypeOK, Show, Sub
  <2>7. presentation' \in
          [c1 : Scalar, c2 : Scalar, c3 : [1 .. 3 -> Scalar], sigma1 : Scalar,
           sigma2 : Scalar, a : Scalar, w : [1 .. 3 -> Scalar], m : Scalar,
           test : BOOLEAN]
    BY <1>2, <1>3, <2>1, <2>2, <2>3, <2>4 DEF Show1Test
  <2>8. shows' \in 0 .. MaxShows
    BY MaxShowsAssumption DEF CredentialInv, CredentialTypeOK, Show
  <2> QED BY <1>2, <2>5, <2>6, <2>7, <2>8
          DEF CredentialInv, CredentialTypeOK, Show, Stage, keys
<1>6. ShownRight'
  <2>1. presentation'.c1 =
          Add(issuer.xO, Add(Signed(h), Pairing(alpha, presentation'.c2)))
    <3>1. credential.c1 = Add(issuer.xO, Add(Signed(h), Mul(alpha, credential.c2)))
      BY DEF CredentialInv, CredentialMade, HasCredential, Show, Pairing
    <3>2. /\ presentation'.c1 = Add(credential.c1, Mul(alpha, rPrime))
          /\ presentation'.c2 = Add(credential.c2, rPrime)
      BY <1>2 DEF Randomized
    <3>3. issuer.xO \in Scalar /\ alpha \in Scalar /\ credential.c2 \in Scalar
      BY DEF CredentialInv, CredentialTypeOK
    <3>4. Add(Add(issuer.xO, Add(Signed(h), Mul(alpha, credential.c2))),
              Mul(alpha, rPrime))
            = Add(issuer.xO, Add(Signed(h), Mul(alpha, Add(credential.c2, rPrime))))
      <4> DEFINE x == issuer.xO  k == Signed(h)  r == credential.c2
      <4>1. x \in Scalar /\ k \in Scalar /\ r \in Scalar
        BY <1>1, <3>3
      <4> HIDE DEF x, k, r
      <4>2. Add(Add(x, Add(k, Mul(alpha, r))), Mul(alpha, rPrime))
              = Add(x, Add(k, Mul(alpha, Add(r, rPrime))))
        BY <1>3, <3>3, <4>1, Rerandomize
      <4> QED BY <4>2 DEF x, k, r
    <3> QED BY <3>1, <3>2, <3>4 DEF Pairing
  <2>2. Pairing(presentation'.sigma2, presentation'.a) = pkuSisHsIG2
    <3>1. /\ presentation'.sigma2 = rm
          /\ presentation'.a = Mul(issuer.yO, Mul(Mul(user.privateKey, h), Inv(rm)))
      BY <1>2 DEF A
    <3>2. user.privateKey \in Scalar /\ issuer.privateKey \in Scalar
            /\ alpha \in Scalar /\ issuer.yO \in Scalar
      BY DEF CredentialInv, CredentialTypeOK
    <3>3. Mul(user.privateKey, h) \in Scalar
      BY <1>1, <3>2, ScalarClosed
    <3>4. Pairing(presentation'.sigma2, presentation'.a)
            = Mul(Mul(user.privateKey, h), issuer.yO)
      BY <1>3, <3>1, <3>2, <3>3, Cancel DEF Pairing
    <3>5. issuer.yO = Mul(alpha, issuer.privateKey)
      BY DEF CredentialInv, KeysMade, Keyed, Show, IssuerKeys
    <3>6. Signed(h) = Mul(Mul(alpha, user.privateKey), Mul(issuer.privateKey, h))
      BY DEF CredentialInv, KeysMade, Keyed, Show, Signed
    <3>7. Signed(h) = Mul(Mul(user.privateKey, h), Mul(alpha, issuer.privateKey))
      BY <1>1, <3>2, <3>6, Regroup
    <3>8. pkuSisHsIG2 = Signed(h)
      BY DEF CredentialInv, CredentialMade, HasCredential, Show
    <3> QED BY <3>4, <3>5, <3>7, <3>8
  <2>3. /\ stage' = "shown" /\ verified' = {} /\ pkuSisHsIG2' = pkuSisHsIG2
        /\ issuer' = issuer /\ alpha' = alpha
    BY DEF Show, keys
  <2>4. (presentation.c1 = Add(issuer.xO, Add(Signed(h), Pairing(alpha, presentation.c2))))'
    BY <1>4, <2>1, <2>3 DEF Pairing
  <2>5. (Pairing(presentation.sigma2, presentation.a) = pkuSisHsIG2)'
    BY <2>2, <2>3 DEF Pairing
  <2> HIDE DEF h
  <2> QED BY <2>3, <2>4, <2>5 DEF ShownRight, h
<1>7. (KeysMade /\ CredentialMade /\ ObtainedRight)'
  BY <1>4 DEF CredentialInv, KeysMade, CredentialMade, ObtainedRight, EquationOne, Show,
              keys, Keyed, HasCredential, IssuerKeys
<1> QED BY <1>5, <1>6, <1>7 DEF CredentialInv

LEMMA VerifyStep == CredentialInv /\ Verify => CredentialInv'
<1> SUFFICES ASSUME CredentialInv, Verify PROVE CredentialInv'
  OBVIOUS
<1>1. CredentialTypeOK'
  BY DEF CredentialInv, CredentialTypeOK, Verify, keys, globals
<1>2. Signed(InverseHashProduct(attributes))' = Signed(InverseHashProduct(attributes))
  BY DEF Verify, keys, Signed, InverseHashProduct
<1>3. ShownRight'
  <2>1. pkuSisHsIG2 = Pairing(presentation.sigma2, presentation.a)
    BY DEF CredentialInv, ShownRight, Verify
  <2>2. verified' = {[test |-> TRUE, answer |-> EquationTwo(presentation)]}
    BY <2>1 DEF Verify
  <2>3. \A v \in verified' : v.test
    BY <2>2
  <2> QED BY <1>2, <2>3 DEF CredentialInv, ShownRight, Verify, keys, globals
<1>4. (KeysMade /\ CredentialMade /\ ObtainedRight)'
  BY <1>2 DEF CredentialInv, KeysMade, CredentialMade, ObtainedRight, EquationOne,
              Verify, keys, globals, Keyed, HasCredential, IssuerKeys
<1> QED BY <1>1, <1>3, <1>4 DEF CredentialInv

LEMMA CredentialInvStep ==
  CredentialInv /\ [CredentialNext]_credentialVars => CredentialInv'
<1> SUFFICES ASSUME CredentialInv, [CredentialNext]_credentialVars
             PROVE  CredentialInv'
  OBVIOUS
<1>1. CASE UNCHANGED credentialVars
  BY <1>1 DEF CredentialInv, CredentialTypeOK, KeysMade, CredentialMade, ObtainedRight,
              ShownRight, Keyed, HasCredential, IssuerKeys, Signed, EquationOne,
              InverseHashProduct, credentialVars, keys, globals
<1> QED BY <1>1, SetupStep, IssuerStep, UserStep, IssueStep, ObtainStep, ShowStep,
           VerifyStep DEF CredentialNext

-----------------------------------------------------------------------------
(* The inductive invariant holds in every behaviour.                        *)
THEOREM CredentialInvariant == CredentialSpec => []CredentialInv
BY CredentialInvInit, CredentialInvStep, PTL DEF CredentialSpec

(* Type correctness.                                                        *)
THEOREM CredentialTypeCorrect == CredentialSpec => []CredentialTypeOK
<1>1. CredentialInv => CredentialTypeOK
  BY DEF CredentialInv
<1> QED BY <1>1, CredentialInvariant, PTL

(* Equation (1) accepts a credential from the user it was issued to, for    *)
(* the attributes that were signed, and from nobody else but by a product   *)
(* that coincides or a secret that is zero.                                 *)
THEOREM ObtainDecides == CredentialSpec => []ObtainExact
<1>1. CredentialInv => ObtainExact
  <2> SUFFICES ASSUME CredentialInv, NEW o \in obtained
               PROVE  o.answer <=> \/ alpha = Zero
                                   \/ issuer.privateKey = Zero
                                   \/ Mul(o.sku, o.hsInverse)
                                        = Mul(user.privateKey, InverseHashProduct(attributes))
    BY DEF ObtainExact
  <2> DEFINE h == InverseHashProduct(attributes)
             mine == Mul(o.sku, o.hsInverse)
             signed == Mul(user.privateKey, h)
             secret == Mul(alpha, issuer.privateKey)
             blind == Pairing(alpha, credential.c2)
  <2>1. HasCredential /\ o.answer = EquationOne(o.sku, o.hsInverse)
    BY DEF CredentialInv, ObtainedRight
  <2>2. h \in Scalar
    BY <2>1, InverseInScalar DEF CredentialInv, KeysMade, Keyed, HasCredential
  <2>3. /\ alpha \in Scalar /\ user.privateKey \in Scalar
        /\ issuer.privateKey \in Scalar /\ issuer.xO \in Scalar
        /\ credential.c2 \in Scalar
    BY DEF CredentialInv, CredentialTypeOK
  <2>4. /\ mine \in Scalar /\ signed \in Scalar /\ secret \in Scalar
        /\ blind \in Scalar
        /\ Mul(signed, secret) \in Scalar /\ Mul(mine, secret) \in Scalar
    BY <2>2, <2>3, ScalarClosed DEF CredentialInv, ObtainedRight, Pairing
  <2>5. Signed(h) = Mul(signed, secret)
    <3>1. Signed(h) = Mul(Mul(alpha, user.privateKey), Mul(issuer.privateKey, h))
      BY <2>1 DEF CredentialInv, KeysMade, Keyed, HasCredential, Signed
    <3> QED BY <2>2, <2>3, <3>1, Regroup
  <2>6. credential.c1 = Add(issuer.xO, Add(Mul(signed, secret), blind))
    BY <2>1, <2>5 DEF CredentialInv, CredentialMade
  <2>7. issuer.yO = secret
    BY <2>1 DEF CredentialInv, KeysMade, Keyed, HasCredential, IssuerKeys
  <2>8. o.answer <=> credential.c1 = Add(issuer.xO, Add(Mul(mine, secret), blind))
    BY <2>1, <2>7 DEF EquationOne, Pairing
  <2>9. secret = Zero <=> alpha = Zero \/ issuer.privateKey = Zero
    BY <2>3, NoDivisors
  <2> HIDE DEF h, mine, signed, secret, blind
  <2>10. ASSUME o.answer PROVE secret = Zero \/ mine = signed
    <3>1. Mul(signed, secret) = Mul(mine, secret)
      BY <2>3, <2>4, <2>6, <2>8, <2>10, AddCancelBetween
    <3> QED BY <2>4, <3>1, MulCancel
  <2>11. ASSUME secret = Zero \/ mine = signed PROVE o.answer
    <3>1. Mul(signed, secret) = Mul(mine, secret)
      BY <2>4, <2>11, MulZero
    <3> QED BY <2>6, <2>8, <3>1
  <2> QED BY <2>9, <2>10, <2>11 DEF mine, signed, h
<1> QED BY <1>1, CredentialInvariant, PTL

(* What is shown opens to the issuer's key and the user's signature.        *)
THEOREM ShownOpens == CredentialSpec => []PresentationOpens
<1>1. CredentialInv => PresentationOpens
  BY DEF CredentialInv, CredentialTypeOK, ShownRight, PresentationOpens
<1> QED BY <1>1, CredentialInvariant, PTL

(* verify's product is the one issue computed.                              *)
THEOREM ProductKept == CredentialSpec => []VerifyTestHolds
<1>1. CredentialInv => VerifyTestHolds
  BY DEF CredentialInv, ShownRight, VerifyTestHolds
<1> QED BY <1>1, CredentialInvariant, PTL

-----------------------------------------------------------------------------
(* What verify is given, and when it accepts.                               *)

LEMMA NegOne ==
  ASSUME NEW x \in Scalar
  PROVE  Mul(x, Neg(One)) = Neg(x)
<1>1. Mul(x, Add(Neg(One), One)) = Add(Mul(x, Neg(One)), Mul(x, One))
  BY ScalarClosed, Distributivity
<1>2. Add(Neg(One), One) = Zero
  BY ScalarClosed, AddLaws
<1>3. Add(Mul(x, Neg(One)), x) = Zero
  BY <1>1, <1>2, ScalarClosed, MulLaws, MulZero
<1>4. Add(Neg(x), x) = Zero
  BY ScalarClosed, AddLaws
<1> QED BY <1>3, <1>4, ScalarClosed, AddCancel

(* b of show3, of generators to one power: their difference to that power.  *)
LEMMA Factor ==
  ASSUME NEW x \in Scalar, NEW y \in Scalar, NEW z \in Scalar
  PROVE  Add(Mul(Mul(x, z), One), Mul(Mul(y, z), Neg(One))) = Mul(Sub(x, y), z)
<1>1. Mul(Mul(x, z), One) = Mul(z, x)
  BY ScalarClosed, MulLaws
<1>2. Mul(Mul(y, z), Neg(One)) = Mul(z, Neg(y))
  <2>1. Mul(Mul(y, z), Neg(One)) = Mul(z, Mul(y, Neg(One)))
    BY ScalarClosed, MulLaws
  <2> QED BY <2>1, NegOne
<1>3. Mul(z, Add(x, Neg(y))) = Add(Mul(z, x), Mul(z, Neg(y)))
  BY ScalarClosed, Distributivity
<1> QED BY <1>1, <1>2, <1>3, ScalarClosed, MulLaws DEF Sub

LEMMA FactorInside ==
  ASSUME NEW x \in Scalar, NEW y \in Scalar, NEW z \in Scalar
  PROVE  Add(Mul(x, Mul(z, One)), Mul(y, Mul(z, Neg(One)))) = Mul(Sub(x, y), z)
<1>1. /\ Mul(x, Mul(z, One)) = Mul(Mul(x, z), One)
      /\ Mul(y, Mul(z, Neg(One))) = Mul(Mul(y, z), Neg(One))
  BY ScalarClosed, MulLaws
<1> QED BY <1>1, Factor

LEMMA SubZero ==
  ASSUME NEW x \in Scalar, NEW y \in Scalar
  PROVE  Sub(x, y) = Zero <=> x = y
<1>1. Add(y, Neg(y)) = Zero
  BY AddLaws
<1>2. Add(x, Neg(y)) = Add(y, Neg(y)) => x = y
  BY ScalarClosed, AddCancel
<1> QED BY <1>1, <1>2 DEF Sub

LEMMA AddSub ==
  ASSUME NEW x \in Scalar, NEW y \in Scalar
  PROVE  /\ Sub(Add(x, y), x) = y
         /\ Add(x, Sub(y, x)) = y
<1>1. Sub(Add(x, y), x) = Add(y, Add(x, Neg(x)))
  BY ScalarClosed, AddLaws DEF Sub
<1>2. Add(x, Sub(y, x)) = Add(y, Add(x, Neg(x)))
  BY ScalarClosed, AddLaws DEF Sub
<1> QED BY <1>1, <1>2, ScalarClosed, AddLaws

(* The terms of equation (2) that show and issue agree on cancel.           *)
LEMMA EquationTwoCancels ==
  ASSUME NEW x \in Scalar, NEW k \in Scalar, NEW r \in Scalar, NEW b \in Scalar,
         NEW g \in Scalar, NEW m \in Scalar
  PROVE  Add(Add(x, Add(k, r)), Add(b, m)) = Add(x, Add(k, Add(r, Add(g, m))))
           <=> b = g
<1>1. Add(x, Add(k, Add(r, Add(g, m)))) = Add(Add(x, Add(k, r)), Add(g, m))
  <2>1. Add(k, Add(r, Add(g, m))) = Add(Add(k, r), Add(g, m))
    BY ScalarClosed, AddLaws
  <2> QED BY <2>1, ScalarClosed, AddLaws
<1>2. Add(x, Add(k, r)) \in Scalar
  BY ScalarClosed
<1> QED BY <1>1, <1>2, AddCancelBetween

LEMMA PowerOfPower ==
  ASSUME NEW x \in Scalar, NEW r \in Scalar, NEW q \in Scalar
  PROVE  Add(Mul(x, r), Mul(Mul(x, r), q)) = Mul(x, Add(r, Mul(r, q)))
<1>1. Mul(Mul(x, r), q) = Mul(x, Mul(r, q)) /\ Mul(r, q) \in Scalar
  BY ScalarClosed, MulLaws
<1> QED BY <1>1, Distributivity

(* One power of a difference is another only if the difference is nothing   *)
(* or, with q the fresh randomness of r, there is none or r is one.         *)
LEMMA PowersDiffer ==
  ASSUME NEW g \in Scalar, NEW r \in Scalar, NEW q \in Scalar
  PROVE  Mul(g, Add(r, Mul(r, q))) = Mul(g, Add(r, q))
           <=> g = Zero \/ q = Zero \/ r = One
<1>1. Add(r, Mul(r, q)) \in Scalar /\ Add(r, q) \in Scalar /\ Mul(r, q) \in Scalar
  BY ScalarClosed
<1>2. CASE g = Zero
  <2>1. Mul(g, Add(r, Mul(r, q))) = Mul(Add(r, Mul(r, q)), g)
          /\ Mul(g, Add(r, q)) = Mul(Add(r, q), g)
    BY <1>1, MulLaws
  <2> QED BY <1>1, <1>2, <2>1, MulZero
<1>3. CASE g # Zero
  <2>1. ASSUME Mul(g, Add(r, Mul(r, q))) = Mul(g, Add(r, q))
        PROVE  Add(r, Mul(r, q)) = Add(r, q)
    <3>1. Mul(g, Add(r, Mul(r, q))) = Mul(Add(r, Mul(r, q)), g)
            /\ Mul(g, Add(r, q)) = Mul(Add(r, q), g)
      BY <1>1, MulLaws
    <3>2. Mul(Add(r, Mul(r, q)), g) = Mul(Add(r, q), g)
      BY <2>1, <3>1
    <3> QED BY <1>1, <1>3, <3>2, MulCancel
  <2>2. Add(r, Mul(r, q)) = Add(r, q) => Mul(r, q) = q
    <3>1. Add(r, Mul(r, q)) = Add(Mul(r, q), r) /\ Add(r, q) = Add(q, r)
      BY <1>1, AddLaws
    <3> QED BY <1>1, <3>1, AddCancel
  <2>3. Mul(r, q) = q <=> q = Zero \/ r = One
    <3>1. Mul(One, q) = q
      BY ScalarClosed, MulLaws
    <3>2. Mul(r, q) = Mul(One, q) /\ q # Zero => r = One
      BY ScalarClosed, MulCancel
    <3>3. q = Zero => Mul(r, q) = q
      BY MulZero
    <3> QED BY <3>1, <3>2, <3>3
  <2> QED BY <1>3, <2>1, <2>2, <2>3
<1> QED BY <1>2, <1>3

-----------------------------------------------------------------------------
(* A credential's c3 has its c2 for a power; a presentation is put together *)
(* of its own parts and the credential's; verify decides by equation (2).   *)
Formed ==
  /\ HasCredential =>
       \A k \in 1 .. 3 : credential.c3[k] = Mul(gamma[k], credential.c2)
  /\ stage = "shown" =>
       /\ presentation.sigma1 =
            Sigma1(presentation, presentation.m, presentation.sigma2)
       /\ presentation.w = W(presentation.c2)
       /\ \A k \in 1 .. 3 :
            presentation.c3[k] =
              Add(credential.c3[k],
                  Mul(credential.c3[k], Sub(presentation.c2, credential.c2)))
  /\ \A v \in verified : v.answer = EquationTwo(presentation)

LEMMA FormedInit == CredentialInit => Formed
BY DEF CredentialInit, Formed, HasCredential

LEMMA FormedStep ==
  CredentialInv /\ Formed /\ [CredentialNext]_credentialVars => Formed'
<1> SUFFICES ASSUME CredentialInv, Formed, [CredentialNext]_credentialVars
             PROVE  Formed'
  OBVIOUS
<1>1. CASE Setup \/ GenerateIssuerKeyPair \/ GenerateAUserKeyPair
  <2>1. verified = {} /\ verified' = {}
    BY <1>1 DEF CredentialInv, ShownRight, Setup, GenerateIssuerKeyPair,
                GenerateAUserKeyPair
  <2> QED BY <1>1, <2>1 DEF Formed, HasCredential, Setup, GenerateIssuerKeyPair,
                             GenerateAUserKeyPair
<1>2. CASE Issue
  <2>1. \A k \in 1 .. 3 : credential'.c3[k] = Mul(gamma[k], credential'.c2)
    BY <1>2 DEF Issue, Issued
  <2>2. verified' = {} /\ stage' = "issued" /\ gamma' = gamma
    BY <1>2 DEF Issue, CredentialInv, ShownRight, keys
  <2> QED BY <2>1, <2>2 DEF Formed
<1>3. CASE Obtain
  BY <1>3 DEF Obtain, Formed, HasCredential, keys, globals, Sigma1, B, W, V, EquationTwo
<1>4. CASE Show
  <2>1. PICK rPrime \in Draws, rm \in Draws \ {Zero}, m \in Draws :
          presentation' =
             [c1 |-> Randomized(rPrime).c1, c2 |-> Randomized(rPrime).c2,
              c3 |-> Randomized(rPrime).c3,
              sigma1 |-> Sigma1(Randomized(rPrime), m, rm), sigma2 |-> rm,
              a |-> A(rm), w |-> W(Randomized(rPrime).c2), m |-> m,
              test |-> Show1Test(Accumulated(rPrime), Randomized(rPrime).c2)]
    BY <1>4 DEF Show
  <2>2. rPrime \in Scalar /\ credential.c2 \in Scalar
    BY DrawsAssumption DEF CredentialInv, CredentialTypeOK
  <2>3. presentation'.sigma1 =
          Sigma1(presentation', presentation'.m, presentation'.sigma2)
    BY <2>1 DEF Sigma1
  <2>4. presentation'.w = W(presentation'.c2)
    BY <2>1
  <2>5. Sub(presentation'.c2, credential.c2) = rPrime
    BY <2>1, <2>2, AddSub DEF Randomized
  <2>6. \A k \in 1 .. 3 : presentation'.c3[k] =
          Add(credential.c3[k], Mul(credential.c3[k], rPrime))
    BY <2>1 DEF Randomized
  <2>7. /\ verified' = {} /\ stage' = "shown" /\ credential' = credential
        /\ gamma' = gamma /\ HasCredential
    BY <1>4 DEF Show, keys, HasCredential
  <2>8. \A k \in 1 .. 3 : credential'.c3[k] = Mul(gamma'[k], credential'.c2)
    BY <2>7 DEF Formed
  <2>9. Sigma1(presentation, presentation.m, presentation.sigma2)'
          = Sigma1(presentation', presentation'.m, presentation'.sigma2)
    BY DEF Sigma1, B, V
  <2>10. W(presentation.c2)' = W(presentation'.c2)
    BY DEF W, V
  <2>11. \A k \in 1 .. 3 : presentation'.c3[k] =
           Add(credential'.c3[k],
               Mul(credential'.c3[k], Sub(presentation'.c2, credential'.c2)))
    BY <2>5, <2>6, <2>7
  <2> QED BY <2>3, <2>4, <2>7, <2>8, <2>9, <2>10, <2>11 DEF Formed
<1>5. CASE Verify
  <2>1. verified' = {[test |-> pkuSisHsIG2 = Pairing(presentation.sigma2, presentation.a),
                      answer |-> EquationTwo(presentation)]}
    BY <1>5 DEF Verify
  <2>2. EquationTwo(presentation)' = EquationTwo(presentation)
    BY <1>5 DEF Verify, EquationTwo, keys
  <2>3. \A v \in verified' : v.answer = EquationTwo(presentation)'
    BY <2>1, <2>2
  <2> QED BY <1>5, <2>3 DEF Verify, Formed, HasCredential, keys, globals, Sigma1, B, W, V
<1>6. CASE UNCHANGED credentialVars
  BY <1>6 DEF credentialVars, keys, globals, Formed, HasCredential, Sigma1, B, W, V,
              EquationTwo
<1> QED BY <1>1, <1>2, <1>3, <1>4, <1>5, <1>6 DEF CredentialNext

(* The verifier accepts an honest presentation by coincidence, and by none  *)
(* other: equal generators, no fresh randomness, or a credential whose own  *)
(* randomness is one.                                                       *)
THEOREM AcceptanceDecided == CredentialSpec => []AcceptedByCoincidence
<1>1. CredentialInv /\ Formed => AcceptedByCoincidence
  <2> SUFFICES ASSUME CredentialInv, Formed, NEW v \in verified
               PROVE  v.answer <=>
                        Mul(Mul(Sub(gamma[1], gamma[3]),
                                Sub(presentation.c2, credential.c2)),
                            Sub(credential.c2, One)) = Zero
    BY DEF AcceptedByCoincidence
  <2> DEFINE p == presentation
             r == credential.c2
             q == Sub(presentation.c2, credential.c2)
             g == Sub(gamma[1], gamma[3])
             y == Add(r, Mul(r, q))
             k == Signed(InverseHashProduct(attributes))
             mask == Mul(alpha, p.c2)
             blind == Mul(p.m, p.sigma2)
  <2>1. stage = "shown"
    BY DEF CredentialInv, ShownRight
  <2>2. /\ r \in Scalar /\ p.c2 \in Scalar /\ alpha \in Scalar /\ issuer.xO \in Scalar
        /\ gamma[1] \in Scalar /\ gamma[3] \in Scalar
        /\ p.m \in Scalar /\ p.sigma2 \in Scalar
    BY DEF CredentialInv, CredentialTypeOK
  <2>3. k \in Scalar
    BY <2>1, InverseInScalar, SignedInScalar DEF CredentialInv, KeysMade, Keyed
  <2>4. /\ q \in Scalar /\ g \in Scalar /\ y \in Scalar /\ mask \in Scalar
        /\ blind \in Scalar
    BY <2>2, ScalarClosed DEF Sub
  <2>5. /\ p.c3[1] = Mul(gamma[1], y)
        /\ p.c3[3] = Mul(gamma[3], y)
    <3>1. \A j \in {1, 3} :
            p.c3[j] = Add(Mul(gamma[j], r), Mul(Mul(gamma[j], r), q))
      BY <2>1 DEF Formed, HasCredential
    <3>2. \A x \in Scalar : Add(Mul(x, r), Mul(Mul(x, r), q)) = Mul(x, y)
      <4> SUFFICES ASSUME NEW x \in Scalar
                   PROVE  Add(Mul(x, r), Mul(Mul(x, r), q)) = Mul(x, Add(r, Mul(r, q)))
        OBVIOUS
      <4>1. r \in Scalar /\ q \in Scalar
        BY <2>2, <2>4
      <4> HIDE DEF r, q
      <4> QED BY <4>1, PowerOfPower
    <3> QED BY <2>2, <3>1, <3>2
  <2>6. B(p.c3) = Mul(g, y)
    BY <2>2, <2>4, <2>5, Factor DEF B, V
  <2>7. p.sigma1 = Add(Add(issuer.xO, Add(k, mask)), Add(Mul(g, y), blind))
    BY <2>1, <2>6 DEF Formed, Sigma1, CredentialInv, ShownRight, Pairing
  <2>8. p.w[1] = Mul(p.c2, One) /\ p.w[2] = Mul(p.c2, Neg(One))
    BY <2>1 DEF Formed, W, V
  <2>9. Add(Pairing(gamma[1], p.w[1]), Pairing(gamma[3], p.w[2])) = Mul(g, p.c2)
    BY <2>2, <2>8, FactorInside DEF Pairing
  <2>10. Pairing(p.sigma2, p.a) = k
    BY <2>1 DEF CredentialInv, ShownRight, CredentialMade, HasCredential
  <2>11. Pairing(p.sigma2, p.m) = blind
    BY <2>2, MulLaws DEF Pairing
  <2>12. v.answer <=>
           Add(Add(issuer.xO, Add(k, mask)), Add(Mul(g, y), blind))
             = Add(issuer.xO, Add(k, Add(mask, Add(Mul(g, p.c2), blind))))
    BY <2>7, <2>9, <2>10, <2>11 DEF Formed, EquationTwo, Pairing
  <2>13. Mul(g, y) \in Scalar /\ Mul(g, p.c2) \in Scalar
    BY <2>2, <2>4, ScalarClosed
  <2>14. p.c2 = Add(r, q)
    BY <2>2, AddSub
  <2>15. Sub(r, One) = Zero <=> r = One
    BY <2>2, ScalarClosed, SubZero
  <2>16. Sub(r, One) \in Scalar
    BY <2>2, ScalarClosed DEF Sub
  <2> HIDE DEF p, r, q, g, k, mask, blind
  <2>17. v.answer <=> Mul(g, y) = Mul(g, p.c2)
    <3> DEFINE x == issuer.xO  b == Mul(g, y)  d == Mul(g, p.c2)
    <3>1. /\ x \in Scalar /\ k \in Scalar /\ mask \in Scalar /\ b \in Scalar
          /\ d \in Scalar /\ blind \in Scalar
      BY <2>2, <2>3, <2>4, <2>13
    <3> HIDE DEF x, y, b, d
    <3>2. Add(Add(x, Add(k, mask)), Add(b, blind))
            = Add(x, Add(k, Add(mask, Add(d, blind)))) <=> b = d
      BY <3>1, EquationTwoCancels
    <3>3. Add(Add(issuer.xO, Add(k, mask)), Add(Mul(g, y), blind))
            = Add(issuer.xO, Add(k, Add(mask, Add(Mul(g, p.c2), blind))))
          <=> Mul(g, y) = Mul(g, p.c2)
      BY <3>2 DEF x, b, d
    <3> QED BY <2>12, <3>3 DEF y
  <2>18. Mul(g, y) = Mul(g, p.c2) <=> g = Zero \/ q = Zero \/ r = One
    BY <2>2, <2>4, <2>14, PowersDiffer
  <2>19. Mul(Mul(g, q), Sub(r, One)) = Zero <=> g = Zero \/ q = Zero \/ r = One
    BY <2>4, <2>15, <2>16, ScalarClosed, NoDivisors
  <2> QED BY <2>17, <2>18, <2>19 DEF g, q, r
<1>2. CredentialInit /\ [][CredentialNext]_credentialVars => [](CredentialInv /\ Formed)
  BY CredentialInvInit, CredentialInvStep, FormedInit, FormedStep, PTL
<1> QED BY <1>1, <1>2, PTL DEF CredentialSpec

-----------------------------------------------------------------------------
(* The global that show1 adds to.                                           *)

(* Four terms may change partners.                                          *)
LEMMA AddExchange ==
  ASSUME NEW w \in Scalar, NEW x \in Scalar, NEW y \in Scalar, NEW z \in Scalar
  PROVE  Add(Add(w, x), Add(y, z)) = Add(Add(w, y), Add(x, z))
<1>1. Add(Add(w, x), Add(y, z)) = Add(w, Add(x, Add(y, z)))
  BY ScalarClosed, AddLaws
<1>2. Add(x, Add(y, z)) = Add(y, Add(x, z))
  <2>1. Add(Add(x, y), z) = Add(Add(y, x), z)
    BY AddLaws
  <2> QED BY <2>1, AddLaws
<1>3. Add(w, Add(y, Add(x, z))) = Add(Add(w, y), Add(x, z))
  BY ScalarClosed, AddLaws
<1> QED BY <1>1, <1>2, <1>3

(* A term that changes nothing is zero.                                     *)
LEMMA AddNeutral ==
  ASSUME NEW x \in Scalar, NEW y \in Scalar
  PROVE  Add(x, y) = x <=> y = Zero
<1>1. Add(y, x) = Add(x, y) /\ Add(Zero, x) = x /\ Add(x, Zero) = x
  BY ScalarClosed, AddLaws
<1>2. Add(y, x) = Add(Zero, x) => y = Zero
  BY ScalarClosed, AddCancel
<1> QED BY <1>1, <1>2

(* The accumulator is the credential's own randomness before the first      *)
(* show, and then what was shown last with what the shows before it spent;  *)
(* the comparison printed is the one made with it.                          *)
Accounts ==
  /\ stage = "shown" => shows > 0
  /\ stage = "issued" => rRPrime = credential.c2
  /\ stage = "shown" =>
       /\ rRPrime = Add(presentation.c2, spent)
       /\ presentation.test = Show1Test(rRPrime, presentation.c2)

LEMMA AccountsInit == CredentialInit => Accounts
BY DEF CredentialInit, Accounts

LEMMA AccountsStep ==
  CredentialInv /\ Accounts /\ [CredentialNext]_credentialVars => Accounts'
<1> SUFFICES ASSUME CredentialInv, Accounts, [CredentialNext]_credentialVars
             PROVE  Accounts'
  OBVIOUS
<1>1. CASE Setup \/ GenerateIssuerKeyPair \/ GenerateAUserKeyPair
  BY <1>1 DEF Accounts, Setup, GenerateIssuerKeyPair, GenerateAUserKeyPair
<1>2. CASE Issue
  BY <1>2 DEF Accounts, Issue, Issued
<1>3. CASE Obtain
  BY <1>3 DEF Accounts, Obtain, Show1Test, keys, globals
<1>4. CASE Show
  <2>1. PICK rPrime \in Draws, rm \in Draws \ {Zero}, m \in Draws :
          /\ presentation' =
               [c1 |-> Randomized(rPrime).c1, c2 |-> Randomized(rPrime).c2,
                c3 |-> Randomized(rPrime).c3,
                sigma1 |-> Sigma1(Randomized(rPrime), m, rm), sigma2 |-> rm,
                a |-> A(rm), w |-> W(Randomized(rPrime).c2), m |-> m,
                test |-> Show1Test(Accumulated(rPrime), Randomized(rPrime).c2)]
          /\ rRPrime' = Accumulated(rPrime)
          /\ spent' = IF shows = 0 THEN Zero
                        ELSE Add(spent, Sub(presentation.c2, credential.c2))
    BY <1>4 DEF Show
  <2>2. stage' = "shown" /\ shows' > 0 /\ alpha' = alpha
    BY <1>4, MaxShowsAssumption DEF Show, keys, CredentialInv, CredentialTypeOK
  <2>3. presentation'.c2 = Add(credential.c2, rPrime)
    BY <2>1 DEF Randomized
  <2>4. presentation'.test = Show1Test(rRPrime, presentation.c2)'
    BY <2>1, <2>2 DEF Show1Test
  <2>5. /\ rPrime \in Scalar /\ credential.c2 \in Scalar /\ spent \in Scalar
        /\ presentation.c2 \in Scalar
    BY DrawsAssumption DEF CredentialInv, CredentialTypeOK
  <2>6. rRPrime' = Add(presentation'.c2, spent')
    <3>1. CASE stage = "issued"
      <4>1. spent' = Zero /\ rRPrime' = Add(credential.c2, rPrime)
        BY <2>1, <3>1 DEF Accounts, CredentialInv, ShownRight, Accumulated
      <4> QED BY <2>3, <2>5, <4>1, ScalarClosed, AddLaws
    <3>2. CASE stage = "shown"
      <4> DEFINE c == credential.c2
                 p == presentation.c2
                 d == Sub(p, c)
      <4>1. spent' = Add(spent, d) /\ rRPrime' = Add(Add(p, spent), rPrime)
        BY <2>1, <3>2 DEF Accounts, Accumulated
      <4>2. c \in Scalar /\ p \in Scalar /\ d \in Scalar /\ Add(c, d) = p
        BY <2>5, ScalarClosed, AddSub DEF Sub
      <4> HIDE DEF c, p, d
      <4>3. Add(Add(c, rPrime), Add(spent, d)) = Add(Add(p, spent), rPrime)
        <5>1. Add(spent, d) = Add(d, spent) /\ Add(rPrime, spent) = Add(spent, rPrime)
          BY <2>5, <4>2, AddLaws
        <5>2. Add(Add(c, rPrime), Add(d, spent)) = Add(Add(c, d), Add(rPrime, spent))
          BY <2>5, <4>2, AddExchange
        <5>3. Add(p, Add(spent, rPrime)) = Add(Add(p, spent), rPrime)
          BY <2>5, <4>2, AddLaws
        <5> QED BY <4>2, <5>1, <5>2, <5>3
      <4> QED BY <2>3, <4>1, <4>3 DEF c
    <3> QED BY <1>4, <3>1, <3>2 DEF Show
  <2> QED BY <2>2, <2>4, <2>6 DEF Accounts
<1>5. CASE Verify
  BY <1>5 DEF Accounts, Verify, Show1Test, keys, globals
<1>6. CASE UNCHANGED credentialVars
  BY <1>6 DEF Accounts, credentialVars, Show1Test, keys, globals
<1> QED BY <1>1, <1>2, <1>3, <1>4, <1>5, <1>6 DEF CredentialNext

(* show1 prints "==" exactly when the randomness of the earlier shows adds  *)
(* up to nothing, or alpha was zero: always at the first show.              *)
THEOREM ComparisonAccumulates == CredentialSpec => []Show1Accumulates
<1>1. CredentialInv /\ Accounts => Show1Accumulates
  <2> SUFFICES ASSUME CredentialInv, Accounts, shows > 0
               PROVE  presentation.test <=> Mul(alpha, spent) = Zero
    BY DEF Show1Accumulates
  <2> DEFINE p == presentation.c2
  <2>1. stage = "shown"
    BY DEF CredentialInv, ShownRight
  <2>2. alpha \in Scalar /\ p \in Scalar /\ spent \in Scalar
    BY DEF CredentialInv, CredentialTypeOK
  <2>3. presentation.test <=>
          Mul(Mul(alpha, Add(p, spent)), One) = Mul(alpha, p)
    BY <2>1 DEF Accounts, Show1Test, Pairing
  <2> HIDE DEF p
  <2>4. /\ Mul(alpha, Add(p, spent)) = Add(Mul(alpha, p), Mul(alpha, spent))
        /\ Mul(alpha, p) \in Scalar /\ Mul(alpha, spent) \in Scalar
    BY <2>2, ScalarClosed, Distributivity
  <2>5. Mul(Mul(alpha, Add(p, spent)), One) = Add(Mul(alpha, p), Mul(alpha, spent))
    BY <2>4, ScalarClosed, MulLaws
  <2>6. Add(Mul(alpha, p), Mul(alpha, spent)) = Mul(alpha, p)
          <=> Mul(alpha, spent) = Zero
    BY <2>4, AddNeutral
  <2> QED BY <2>3, <2>5, <2>6
<1>2. CredentialInit /\ [][CredentialNext]_credentialVars => [](CredentialInv /\ Accounts)
  BY CredentialInvInit, CredentialInvStep, AccountsInit, AccountsStep, PTL
<1> QED BY <1>1, <1>2, PTL DEF CredentialSpec
=============================================================================
