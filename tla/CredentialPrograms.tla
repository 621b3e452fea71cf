------------------------- MODULE CredentialPrograms -------------------------
(***************************************************************************)
(* The two demonstrations of an earlier form of the scheme: the program    *)
(* over pbc, from setup to inspection, and the program over mcl, which     *)
(* ends with the issue.  Each is one main without branches whose sections  *)
(* are the actions below.  They compare nothing: what is to be equal is    *)
(* printed for a reader, in OBTAIN and in INSPECT.                         *)
(***************************************************************************)
EXTENDS Scalars

CONSTANT Hashes  (* the products H(S) of the attributes' hashes             *)

ASSUME HashesAssumption == Hashes \subseteq Scalar \ {Zero}

VARIABLES
  program,  (* which of the two runs, "none" before either is started       *)
  section,  (* the section that comes next                                  *)
  secret,   (* what was drawn: alpha, sk1, skis, r, rPrime, hs              *)
  element,  (* the group elements that later sections use                   *)
  printed   (* the values a section prints for the reader to compare        *)

programVars == <<program, section, secret, element, printed>>

Section(here, there) == section = here /\ section' = there

-----------------------------------------------------------------------------
(* SETUP: h1 = g1^alpha; h2 is g2^-alpha for pbc, g2^(1/alpha) for mcl.     *)
SetUpWith(alpha, opposite) ==
  /\ secret' = [secret EXCEPT !.alpha = alpha]
  /\ element' = [element EXCEPT !.h1 = alpha, !.h2 = opposite]
  /\ UNCHANGED printed

PbcSetUp ==
  /\ program' = "pbc" /\ Section("SETUP", "KEYGEN")
  /\ \E alpha \in Draws : SetUpWith(alpha, Neg(alpha))

MclSetUp ==
  /\ program' = "mcl" /\ Section("SETUP", "KEYGEN")
  /\ \E alpha \in Draws : SetUpWith(alpha, Inv(alpha))

(* KEYGEN: x1 = g1^sk1, Xis = e(g1, g2)^skis, Yis = h2^skis.                *)
KeysOf(sk1, skis) ==
  /\ secret' = [secret EXCEPT !.sk1 = sk1, !.skis = skis]
  /\ element' = [element EXCEPT !.x1 = sk1, !.xkis = skis, !.xis = skis,
                                !.yis = Mul(element.h2, skis)]
  /\ UNCHANGED <<program, printed>>

PbcKeyGen ==
  /\ program = "pbc" /\ Section("KEYGEN", "ISSUE")
  /\ \E sk1, skis \in Draws : KeysOf(sk1, skis)

MclKeyGen ==
  /\ program = "mcl" /\ Section("KEYGEN", "ISSUE")
  /\ \E sk1, skis \in Draws : KeysOf(sk1, skis)

-----------------------------------------------------------------------------
XuHs(hs) == Mul(element.x1, Inv(hs))

(* Mutant: c2 is not negated.                                               *)
PbcIssueUnsigned ==
  /\ program = "pbc" /\ Section("ISSUE", "OBTAIN")
  /\ \E r \in Draws, hs \in Hashes :
       /\ secret' = [secret EXCEPT !.r = r, !.hs = hs]
       /\ element' = [element EXCEPT
            !.c2 = r, !.c3 = r,
            !.c1 = Add(Add(element.xkis, XuHs(hs)), Mul(element.h1, r))]
  /\ UNCHANGED <<program, printed>>

PbcIssue ==
  /\ program = "pbc" /\ Section("ISSUE", "OBTAIN")
  /\ \E r \in Draws, hs \in Hashes :
       /\ secret' = [secret EXCEPT !.r = r, !.hs = hs]
       /\ element' = [element EXCEPT
            !.c2 = Neg(r), !.c3 = r,
            !.c1 = Add(Add(element.xkis, XuHs(hs)), Mul(element.h1, r))]
  /\ UNCHANGED <<program, printed>>

(* The program over mcl computes h1^r and does not add it.  It inverts H(S) *)
(* in Fp, the field of coordinates, whose inverse is any exponent of the    *)
(* groups.                                                                  *)
MclIssue ==
  /\ program = "mcl" /\ Section("ISSUE", "END")
  /\ \E r \in Draws, hs \in Hashes, hsI \in Scalar :
       /\ secret' = [secret EXCEPT !.r = r, !.hs = hs]
       /\ element' = [element EXCEPT
            !.c2 = Inv(r), !.c3 = r, !.c1 = Add(element.xkis, Mul(element.x1, hsI))]
  /\ UNCHANGED <<program, printed>>

(* OBTAIN prints e(c1, g2) and Xis e(Xu^(H(S)^-1), g2) e(h1, c3).           *)
PbcObtain ==
  /\ program = "pbc" /\ Section("OBTAIN", "SHOW")
  /\ printed' = [printed EXCEPT !.obtain =
       <<Pairing(element.c1, One),
         Add(Add(element.xis, Pairing(XuHs(secret.hs), One)),
             Pairing(element.h1, element.c3))>>]
  /\ UNCHANGED <<program, secret, element>>

(* SHOW: c'1 multiplies an element of the target group as if it were one of *)
(* G1, and v1, v2, v3 are read past the end of their bytes: c'1 and rho1    *)
(* may be anything.                                                         *)
PbcShow ==
  /\ program = "pbc" /\ Section("SHOW", "VERIFY")
  /\ \E rPrime \in Draws, rm \in Draws \ {Zero}, c1Prime, rho1 \in Draws :
       LET sum == Add(secret.r, rPrime) IN
       /\ secret' = [secret EXCEPT !.rPrime = rPrime]
       /\ element' = [element EXCEPT
            !.c1Prime = c1Prime, !.c2Prime = Neg(sum), !.c3Prime = sum,
            !.rho1 = rho1, !.rho2 = rm,
            !.a = Mul(Mul(secret.sk1, Inv(secret.hs)), Inv(rm))]
  /\ UNCHANGED <<program, printed>>

(* VERIFY computes e(rho1, g2) and Xis e(Ar, A) e(c'2, h2), Ar being        *)
(* rho2^(H(S)^-1), and prints neither.                                      *)
PbcVerify ==
  /\ program = "pbc" /\ Section("VERIFY", "INSPECT")
  /\ printed' = [printed EXCEPT !.verify =
       <<Pairing(element.rho1, One),
         Add(Add(element.xis,
                 Pairing(Mul(element.rho2, Inv(secret.hs)), element.a)),
             Pairing(element.c2Prime, element.h2))>>]
  /\ UNCHANGED <<program, secret, element>>

(* INSPECT prints e(c'1 c'2^alpha, g2) Xis^-1 and e(Xu^-H(S), g2).          *)
PbcInspect ==
  /\ program = "pbc" /\ Section("INSPECT", "END")
  /\ printed' = [printed EXCEPT !.inspect =
       <<Sub(Add(element.c1Prime, Mul(element.c2Prime, secret.alpha)), element.xis),
         Mul(element.x1, Neg(secret.hs))>>]
  /\ UNCHANGED <<program, secret, element>>

-----------------------------------------------------------------------------
ProgramsInit ==
  /\ program = "none"
  /\ section = "SETUP"
  /\ secret = [x \in {"alpha", "sk1", "skis", "r", "rPrime", "hs"} |-> Zero]
  /\ element = [x \in {"h1", "h2", "x1", "xkis", "xis", "yis", "c1", "c2", "c3",
                       "c1Prime", "c2Prime", "c3Prime", "rho1", "rho2", "a"}
                  |-> Zero]
  /\ printed = [x \in {"obtain", "verify", "inspect"} |-> <<Zero, Zero>>]

ProgramsNext ==
  \/ PbcSetUp
  \/ PbcKeyGen
  \/ PbcIssue
  \/ PbcObtain
  \/ PbcShow
  \/ PbcVerify
  \/ PbcInspect
  \/ MclSetUp
  \/ MclKeyGen
  \/ MclIssue

ProgramsSpec == ProgramsInit /\ [][ProgramsNext]_programVars
-----------------------------------------------------------------------------
(* Properties.                                                             *)

(* The two values that the section OBTAIN prints are the same.              *)
ObtainAgrees == printed.obtain[1] = printed.obtain[2]

(* The verifier takes the randomness of c1 off with c2 and h2, the user     *)
(* with h1 and c3: both are the same in the program over pbc, before and    *)
(* after the show.  The program over mcl inverts where it prints a minus    *)
(* and only has them multiply to one.                                       *)
RandomnessAgrees ==
  /\ program = "pbc" =>
       /\ Pairing(element.c2, element.h2) = Pairing(element.h1, element.c3)
       /\ Pairing(element.c2Prime, element.h2)
            = Pairing(element.h1, element.c3Prime)
  /\ program = "mcl" /\ section = "END" /\ secret.r # Zero /\ secret.alpha # Zero =>
       Mul(Pairing(element.c2, element.h2), Pairing(element.h1, element.c3)) = One

(* When c'1 is what the program means it to be, the credential with fresh   *)
(* randomness, the inspector finds Xu^(H(S)^-1) whatever was drawn.  The    *)
(* other value it prints is Xu^(-H(S)), negated and not inverted            *)
(* (main.cpp:543): the two agree by coincidence only, for a user's key that *)
(* is zero or a product of hashes whose inverse is its opposite.            *)
InspectionOpens ==
  program = "pbc" /\ section = "END"
    /\ element.c1Prime = Add(element.c1, Mul(element.h1, secret.rPrime))
  => /\ printed.inspect[1] = XuHs(secret.hs)
     /\ (printed.inspect[1] = printed.inspect[2]) <=>
          (element.x1 = Zero \/ Inv(secret.hs) = Neg(secret.hs))

(* Of the pairs that the programs print for the reader to compare, OBTAIN's *)
(* agrees and INSPECT's only by coincidence; what the parties need to be    *)
(* equal for the randomness to go is equal over pbc.                        *)
ValuesAgree == ObtainAgrees /\ RandomnessAgrees /\ InspectionOpens
=============================================================================
