---------------------------- MODULE PartsProofs ----------------------------
(***************************************************************************)
(* Proofs about the parts that share no state.                             *)
(*                                                                         *)
(* Authentication: for any rules, roles, passwords and nonces, and however *)
(* often roles are changed meanwhile, a connection is admitted exactly as  *)
(* it says it should be.                                                   *)
(*                                                                         *)
(* RowSecurity: for any sessions, rows, policies, roles and statements,    *)
(* what a statement reads, changes and adds was permitted at some moment   *)
(* while it ran.                                                           *)
(*                                                                         *)
(* Values: for any ranges, times, numbers, declared types and columns, the *)
(* functions on values answer what these stand for, and a window's sum and *)
(* average are those of its rows.                                          *)
(***************************************************************************)
EXTENDS Authentication, RowSecurity, Values, FiniteSetTheorems, WellFoundedInduction, TLAPS

-----------------------------------------------------------------------------
(* Authentication.                                                         *)

Exchanges == {"password", "md5", "scram"}

RoleRecord == [exists : BOOLEAN, login : BOOLEAN,
               verifier : [pw : Password \cup {none}, salt : Nonce \cup {none}]]

Typed ==
  /\ rules = none \/ Len(rules) \in Nat
  /\ roles \in [Range(Fold) -> RoleRecord]
  /\ conn \in [user : User, database : Database, ip : Address \cup {none}, ssl : BOOLEAN]
  /\ at \in {"login", "method", "credential"} \cup Exchanges \cup Decided
  /\ read \in [login : BOOLEAN, pw : Password \cup {none}]

\* method is the one the rules ask for.
Resolved(m) == \A w \in Exchanges \cup {"trust"} : Wanted(w) <=> w = m

\* The credential is the password that was due when it was looked up.
CredIsDue ==
  IF read.pw = none
  THEN /\ setting.password # none
       /\ cred.plaintext = setting.password
       /\ method = "scram" => cred.scram = deriveVerifier(setting.password, cred.scram.salt)
       /\ method # "scram" => cred.scram.pw = none
  ELSE /\ cred.plaintext = none
       /\ cred.scram = deriveVerifier(read.pw, cred.scram.salt)

\* The client computed its answer from what it was sent.
AnswerFits == answer # none => answer.user = conn.user /\ answer.salt = cred.scram.salt

\* The invariant: how far the exchange is, and what is known by then.
IInv ==
  /\ Typed
  /\ at \in {"login", "method", "credential"} => answer = none /\ nonce = none
  /\ at \in {"method", "credential"} \cup Exchanges => read.login
  /\ at = "credential" => method \in Exchanges /\ Resolved(method)
  /\ at \in Exchanges => at = method /\ Resolved(method) /\ CredIsDue /\ AnswerFits
  /\ AdmittedAsRuled

-----------------------------------------------------------------------------
(* The first rule that matches.                                            *)

\* A set of natural numbers that is not empty has a least element.
LEMMA LeastOne ==
  ASSUME NEW S, S \subseteq Nat, S # {}
  PROVE  \E x \in S : \A y \in S : x <= y
<1> DEFINE Less == {ss \in Nat \X Nat : ss[1] < ss[2]}
<1>1. IsWellFoundedOn({ss \in Nat \X Nat : ss[1] < ss[2]}, Nat)
  BY NatLessThanWellFounded, Zenon DEF OpToRel
<1>2. IsWellFoundedOn(Less, Nat)
  BY <1>1
<1>3. PICK x \in S : \A y \in S : ~(<<y, x>> \in Less)
  <2> HIDE DEF Less
  <2> QED BY <1>2, WFMin, Zenon
<1>4. ASSUME NEW y \in S PROVE x <= y
  <2>1. x \in Nat /\ y \in Nat
    OBVIOUS
  <2>2. y < x => <<y, x>> \in Less
    BY <2>1
  <2> HIDE DEF Less
  <2>3. ~(y < x)
    BY <1>3, <2>2
  <2> QED BY <2>1, <2>3
<1> QED BY <1>4

\* Min is one (FiniteSetsExt).
LEMMA MinIsLeast ==
  ASSUME NEW S, S \subseteq Nat, S # {}
  PROVE  Min(S) \in S /\ \A y \in S : Min(S) <= y
BY LeastOne DEF Min

\* Policy.Method goes through the rules in order: what it answers is what the
\* first rule for the connection says (hba.go:42-56).
LEMMA FirstRuleDecides ==
  ASSUME Len(rules) \in Nat, NEW m, m # "reject"
  PROVE  Says(m) <=> normalizeHBAMethod(Method(rules, conn)) = m
<1> DEFINE H == Hits(rules, conn)
<1>1. H \subseteq Nat /\ H = {i \in 1..Len(rules) : matches(rules[i], conn)}
  BY DEF Hits
<1>2. CASE H = {}
  <2>1. ~Says(m)
    BY <1>1, <1>2 DEF Says
  <2>2. normalizeHBAMethod(Method(rules, conn)) = "reject"
    BY <1>2 DEF Method, normalizeHBAMethod
  <2> QED BY <2>1, <2>2
<1>3. CASE H # {}
  <2> DEFINE k == Min(H)
  <2>1. k \in H /\ \A i \in H : k <= i
    <3> HIDE DEF H
    <3> QED BY <1>1, <1>3, MinIsLeast
  <2>2. Method(rules, conn) = rules[k].method
    BY <1>3 DEF Method
  <2> HIDE DEF k
  <2>3. k \in 1..Len(rules) /\ matches(rules[k], conn)
    BY <1>1, <2>1
  <2>4. \A j \in 1..k - 1 : ~matches(rules[j], conn)
    BY <1>1, <2>1, <2>3
  <2>5. ASSUME NEW i \in 1..Len(rules), matches(rules[i], conn),
               \A j \in 1..i - 1 : ~matches(rules[j], conn)
        PROVE  i = k
    <3>1. i \in H
      BY <1>1, <2>5
    <3>2. ~(k < i)
      BY <2>3, <2>5
    <3> QED BY <2>1, <2>3, <3>1, <3>2
  <2>6. Says(m) <=> normalizeHBAMethod(rules[k].method) = m
    BY <2>3, <2>4, <2>5, Zenon DEF Says
  <2> QED BY <2>2, <2>6
<1> QED BY <1>2, <1>3

\* resolveMethod finds the method the rules ask for, or the global one
\* (postgres.go:247-259).
LEMMA MethodIsWanted ==
  ASSUME Typed
  PROVE  Resolved(IF rules = none THEN authMethod(setting)
                  ELSE normalizeHBAMethod(Method(rules, conn)))
<1>1. CASE rules = none
  BY <1>1 DEF Resolved, Wanted
<1>2. CASE rules # none
  <2>1. Len(rules) \in Nat
    BY <1>2 DEF Typed
  <2>2. \A w \in Exchanges \cup {"trust"} : w # "reject"
    BY DEF Exchanges
  <2> QED BY <1>2, <2>1, <2>2, FirstRuleDecides DEF Resolved, Wanted
<1> QED BY <1>1, <1>2

\* Methods are strings of a few.
LEMMA MethodNames ==
  /\ authMethod(setting) \in Exchanges \cup {"trust"}
  /\ \A m : normalizeHBAMethod(m) \in Exchanges \cup {"trust", "reject"}
BY DEF authMethod, normalizeHBAMethod, Exchanges
-----------------------------------------------------------------------------
(* The steps.                                                              *)

\* What every step leaves alone decides what is wanted.
Fixed == rules' = rules /\ setting' = setting /\ conn' = conn

\* The method that the rules ask for does not change while they do not.
LEMMA WantedStays ==
  ASSUME Fixed
  PROVE  \A w : Wanted(w)' <=> Wanted(w)
 BY DEF Fixed, Wanted, Says, matches, matchType, matchDatabase, matchUser, matchAddr

\* The role of the connection is one.
LEMMA RoleTyped ==
  ASSUME Typed
  PROVE  role \in RoleRecord /\ Fold[conn.user] \in Range(Fold)
BY AuthenticationAssumption DEF Typed, AuthenticationAssumption, role, Range

\* What the client may have shown is nothing before it has answered.
LEMMA NothingProven ==
  ASSUME answer = none
  PROVE  ~Proven
BY DEF Proven

\* A connection that has said nothing is admitted by nobody.
LEMMA InitHolds ==
  ASSUME AuthInit
  PROVE  IInv
<1>1. PICK f \in Files : rules = Load(f)
  BY DEF AuthInit
<1>2. rules = none \/ Len(rules) \in Nat
  BY <1>1, LoadAssumption
<1>3. roles \in [Range(Fold) -> RoleRecord]
  <2>1. NoRole \in RoleRecord
    BY DEF NoRole, RoleRecord, deriveVerifier
  <2>2. PICK n \in Nonce : {CHOOSE x \in Nonce : TRUE} = {n}
    BY AuthenticationAssumption DEF AuthenticationAssumption
  <2>3. ASSUME NEW l \in BOOLEAN, NEW p \in Password \cup {none}
        PROVE  [exists |-> TRUE, login |-> l, verifier |-> deriveVerifier(p, n)] \in RoleRecord
    BY DEF RoleRecord, deriveVerifier
  <2>4. roles \in [Range(Fold) -> {NoRole} \cup {[exists |-> TRUE, login |-> l, verifier |-> deriveVerifier(p, x)] :
                                     l \in BOOLEAN, p \in Password \cup {none}, x \in {n}}]
    BY <2>2 DEF AuthInit
  <2> QED BY <2>1, <2>3, <2>4
<1> QED BY <1>2, <1>3 DEF AuthInit, IInv, Typed, Exchanges, Decided, AdmittedAsRuled

\* A step of the handshake leaves the rules and the role's record alone.
LEMMA TypesStay ==
  ASSUME Typed, Fixed, roles' = roles,
         at' \in {"login", "method", "credential"} \cup Exchanges \cup Decided,
         read' \in [login : BOOLEAN, pw : Password \cup {none}]
  PROVE  Typed'
BY DEF Typed, Fixed

\* The role's record is read for its LOGIN attribute (postgres.go:194-200).
LEMMA LoginStep ==
  ASSUME IInv, roleMayLogin
  PROVE  IInv'
<1>1. role.login \in BOOLEAN /\ read \in [login : BOOLEAN, pw : Password \cup {none}]
  BY RoleTyped DEF RoleRecord, IInv, Typed
<1>2. read' \in [login : BOOLEAN, pw : Password \cup {none}] /\ read'.login = role.login
  BY <1>1 DEF roleMayLogin
<1>3. at' \in {"method", "out"} /\ (at' = "method" <=> read'.login) /\ answer' = none /\ nonce' = none
  BY <1>1, <1>2 DEF roleMayLogin, IInv
<1>4. Typed'
  BY <1>2, <1>3, TypesStay DEF roleMayLogin, IInv, Fixed, Decided
<1>5. AdmittedAsRuled'
  BY <1>2, <1>3 DEF AdmittedAsRuled, Decided
<1> QED BY <1>2, <1>3, <1>4, <1>5 DEF IInv, Exchanges

\* The method is resolved, and trust admits (postgres.go:174-193).
LEMMA MethodStep ==
  ASSUME IInv, resolveMethod
  PROVE  IInv'
<1>1. Fixed /\ answer' = none /\ answer = none /\ read' = read /\ read.login = TRUE /\ nonce' = none
  BY DEF resolveMethod, IInv, Fixed, Typed
<1>2. Resolved(method') /\ method' \in Exchanges \cup {"trust", "reject"}
  BY MethodIsWanted, MethodNames DEF resolveMethod, IInv
<1>3. at' = CASE method' = "reject" -> "out" [] method' = "trust" -> "in" [] OTHER -> "credential"
  BY DEF resolveMethod
<1>4. Resolved(method)' /\ (Wanted("trust")' <=> method' = "trust")
  <2>1. \A w \in Exchanges \cup {"trust"} : Wanted(w) <=> w = method'
    BY <1>2 DEF Resolved
  <2>2. \A w : Wanted(w)' <=> Wanted(w)
    BY <1>1, WantedStays
  <2> QED BY <2>1, <2>2 DEF Resolved
<1>5. at' \in Decided => (at' = "in" <=> Wanted("trust")')
  BY <1>2, <1>3, <1>4 DEF Decided, Exchanges
<1>6. AdmittedAsRuled'
  <2>1. ~Proven'
    BY <1>1 DEF Proven
  <2> QED BY <1>1, <1>5, <2>1 DEF AdmittedAsRuled
<1>7. Typed'
  BY <1>1, <1>2, <1>3, TypesStay DEF resolveMethod, IInv, Exchanges, Decided, Typed
<1> QED BY <1>1, <1>2, <1>3, <1>4, <1>6, <1>7 DEF IInv, Exchanges

\* What was resolved stays so.
LEMMA ResolvedStays ==
  ASSUME Resolved(method), Fixed, method' = method
  PROVE  Resolved(method)'
BY WantedStays DEF Resolved

\* The credential is read and fits the method, or the client is refused.
LEMMA CredentialStep ==
  ASSUME IInv, credentialFor
  PROVE  IInv'
<1>1. Fixed /\ answer' = none /\ answer = none /\ method' = method /\ roles' = roles
  BY DEF credentialFor, IInv, Fixed
<1>2. Resolved(method)' /\ method \in Exchanges /\ read.login = TRUE
  BY <1>1, ResolvedStays DEF credentialFor, IInv, Typed
<1> DEFINE pw == role.verifier.pw
<1>3. /\ pw \in Password \cup {none}
      /\ role.verifier = deriveVerifier(pw, role.verifier.salt)
  BY RoleTyped DEF IInv, RoleRecord, deriveVerifier
<1>4. read' \in [login : BOOLEAN, pw : Password \cup {none}] /\ read'.pw = pw /\ read'.login = TRUE
  <2>1. read \in [login : BOOLEAN, pw : Password \cup {none}]
    BY DEF IInv, Typed
  <2>2. read' = [read EXCEPT !.pw = pw]
    BY DEF credentialFor
  <2> HIDE DEF pw
  <2> QED BY <1>2, <1>3, <2>1, <2>2
<1>5. at' = IF pw = none /\ setting.password = none THEN "out" ELSE method
  BY DEF credentialFor
<1>6. CredIsDue' \/ at' = "out"
  <2>1. PICK n \in Nonce :
          cred' = [plaintext |-> IF pw = none THEN setting.password ELSE none,
                   scram |-> IF pw # none THEN role.verifier
                             ELSE IF method = "scram" THEN deriveVerifier(setting.password, n)
                             ELSE NoCred.scram]
    BY DEF credentialFor
  <2>2. CASE pw = none /\ setting.password = none
    BY <1>5, <2>2
  <2>3. CASE pw # none
    <3>1. cred'.plaintext = none /\ cred'.scram = deriveVerifier(pw, role.verifier.salt)
      BY <1>3, <2>1, <2>3
    <3>2. cred'.scram = deriveVerifier(pw, cred'.scram.salt)
      BY <3>1 DEF deriveVerifier
    <3> HIDE DEF pw
    <3> QED BY <1>4, <2>3, <3>1, <3>2 DEF CredIsDue
  <2>4. CASE pw = none /\ setting.password # none
    <3>1. cred'.plaintext = setting.password
      BY <2>1, <2>4
    <3>2. method = "scram" => cred'.scram = deriveVerifier(setting.password, cred'.scram.salt)
      BY <2>1, <2>4 DEF deriveVerifier
    <3>3. method # "scram" => cred'.scram.pw = none
      BY <2>1, <2>4 DEF NoCred, deriveVerifier
    <3> HIDE DEF pw
    <3> QED BY <1>1, <1>4, <2>4, <3>1, <3>2, <3>3 DEF CredIsDue, Fixed
  <2> QED BY <2>2, <2>3, <2>4
<1>7. at' \in Exchanges => at' = method'
  BY <1>1, <1>5 DEF Exchanges
<1>8. at' \in Exchanges \cup {"out"}
  BY <1>2, <1>5
<1>9. Typed'
  BY <1>1, <1>4, <1>8, TypesStay DEF IInv, Decided
<1>10. AdmittedAsRuled'
  <2>1. ~Proven'
    BY <1>1 DEF Proven
  <2>2. ~Wanted("trust")'
    BY <1>1, <1>2 DEF Resolved, Exchanges
  <2> QED BY <1>8, <2>1, <2>2 DEF AdmittedAsRuled, Exchanges, Decided
<1>11. AnswerFits'
  BY <1>1 DEF AnswerFits
<1> HIDE DEF pw
<1> QED BY <1>1, <1>2, <1>4, <1>6, <1>7, <1>8, <1>9, <1>10, <1>11 DEF IInv, Exchanges

\* A step inside an exchange that is not its end.
LEMMA ExchangeGoesOn ==
  ASSUME IInv, at \in Exchanges, Fixed, roles' = roles,
         <<at, method, cred, read>>' = <<at, method, cred, read>>,
         AnswerFits'
  PROVE  IInv'
<1>1. Typed'
  BY TypesStay DEF IInv, Typed
<1>2. Resolved(method)' /\ CredIsDue'
  BY ResolvedStays DEF IInv, CredIsDue, Fixed
<1> QED BY <1>1, <1>2 DEF IInv, Exchanges, AdmittedAsRuled, Decided

\* The server sends its challenge, with a nonce of its own.
LEMMA ChallengeStep ==
  ASSUME IInv, Challenge
  PROVE  IInv'
BY ExchangeGoesOn DEF Challenge, Fixed, Exchanges, IInv, AnswerFits

\* The client answers, to this challenge or to another.
LEMMA AnswerStep ==
  ASSUME IInv, ClientAnswers, at \in Exchanges
  PROVE  IInv'
<1>1. PICK type \in {"password", "query"}, pw \in Password, n \in Nonce : answer' = Answer(type, pw, n)
  BY DEF ClientAnswers
<1>2. AnswerFits'
  BY <1>1 DEF AnswerFits, Answer, ClientAnswers
<1> QED BY <1>2, ExchangeGoesOn DEF ClientAnswers, Fixed

\* A verdict ends an exchange: right if it lets in exactly the due password, given
\* for this exchange where the method has a challenge.
Judges(ok) ==
  answer # none /\ answer.type = "password" =>
    (ok <=> /\ answer.pw = Due
            /\ method = "md5" => read.pw = none
            /\ method \in {"md5", "scram"} => answer.nonce = nonce)

\* A verdict that admits only an answer with the password admits as ruled.
LEMMA VerdictIsRight ==
  ASSUME IInv, at \in Exchanges, NEW ok, ok \in BOOLEAN, Judges(ok), Verdict(ok)
  PROVE  IInv'
<1>1. Fixed /\ roles' = roles /\ <<method, cred, nonce, answer, read>>' = <<method, cred, nonce, answer, read>>
  BY DEF Verdict, Fixed
<1>2. answer # none /\ at' = IF answer.type = "password" /\ ok THEN "in" ELSE "out"
  BY DEF Verdict
<1>3. Typed'
  BY <1>1, <1>2, TypesStay DEF IInv, Typed, Decided
<1>4. method = at /\ Resolved(method) /\ read.login = TRUE
  BY DEF IInv, Typed, Exchanges
<1>5. /\ Wanted("trust")' = FALSE
      /\ Wanted("md5")' <=> method = "md5"
      /\ Wanted("scram")' <=> method = "scram"
  BY <1>1, <1>4, WantedStays DEF Resolved, Exchanges, Wanted, Says
<1>6. Due' = Due
  BY <1>1 DEF Due, Fixed
<1>7. Proven' <=> answer.type = "password" /\ ok
  BY <1>1, <1>2, <1>5, <1>6 DEF Proven, Judges
<1>8. AdmittedAsRuled'
  BY <1>1, <1>2, <1>4, <1>5, <1>7 DEF AdmittedAsRuled, Decided
<1> QED BY <1>2, <1>3, <1>8 DEF IInv, Exchanges

\* A clear password is compared with the one on record.
LEMMA CleartextStep ==
  ASSUME IInv, authCleartext
  PROVE  IInv'
<1> DEFINE ok == IF cred.scram.pw # none THEN deriveVerifier(answer.pw, cred.scram.salt) = cred.scram
                 ELSE answer.pw = cred.plaintext
<1>1. at = "password" /\ method = "password" /\ CredIsDue /\ Verdict(ok)
  BY DEF authCleartext, IInv, Exchanges
<1>2. ok <=> answer.pw = Due
  BY <1>1 DEF CredIsDue, Due, deriveVerifier
<1>3. ok \in BOOLEAN
  OBVIOUS
<1> HIDE DEF ok
<1>4. Judges(ok)
  BY <1>1, <1>2 DEF Judges
<1> QED BY <1>1, <1>3, <1>4, VerdictIsRight DEF Exchanges

\* The hash is compared under this connection's salt.
LEMMA MD5Step ==
  ASSUME IInv, authMD5
  PROVE  IInv'
<1> DEFINE ok == /\ cred.plaintext # none
                 /\ <<answer.pw, answer.user, answer.nonce>> = <<cred.plaintext, conn.user, nonce>>
<1>1. at = "md5" /\ method = "md5" /\ CredIsDue /\ AnswerFits /\ Verdict(ok)
  BY DEF authMD5, IInv, Exchanges
<1>2. answer # none => (ok <=> answer.pw = Due /\ read.pw = none /\ answer.nonce = nonce)
  BY <1>1 DEF CredIsDue, Due, AnswerFits
<1>3. ok \in BOOLEAN
  OBVIOUS
<1> HIDE DEF ok
<1>4. Judges(ok)
  BY <1>1, <1>2 DEF Judges
<1> QED BY <1>1, <1>3, <1>4, VerdictIsRight DEF Exchanges

\* The proof is verified under this connection's nonce (scram.go:100-170).
LEMMA SCRAMStep ==
  ASSUME IInv, authSCRAM
  PROVE  IInv'
<1> DEFINE ok == answer.nonce = nonce /\ deriveVerifier(answer.pw, answer.salt) = cred.scram
<1>1. at = "scram" /\ method = "scram" /\ CredIsDue /\ AnswerFits /\ Verdict(ok)
  BY DEF authSCRAM, IInv, Exchanges
<1>2. answer # none => (ok <=> answer.pw = Due /\ answer.nonce = nonce)
  BY <1>1 DEF CredIsDue, Due, AnswerFits, deriveVerifier
<1>3. ok \in BOOLEAN
  OBVIOUS
<1> HIDE DEF ok
<1>4. Judges(ok)
  BY <1>1, <1>2 DEF Judges
<1> QED BY <1>1, <1>3, <1>4, VerdictIsRight DEF Exchanges

\* The role may change at any time: what was read of it stays read.
LEMMA ChangeRoleStep ==
  ASSUME IInv, ChangeRole
  PROVE  IInv'
<1>1. Fixed /\ <<at, method, cred, nonce, answer, read>>' = <<at, method, cred, nonce, answer, read>>
  BY DEF ChangeRole, Fixed
<1>2. Typed'
  <2>1. PICK l \in BOOLEAN, p \in Password \cup {none}, n \in Nonce :
          roles' \in {[roles EXCEPT ![Fold[conn.user]] = [exists |-> TRUE, login |-> l, verifier |-> deriveVerifier(p, n)]],
                      [roles EXCEPT ![Fold[conn.user]] = NoRole]}
    BY DEF ChangeRole
  <2>2. [exists |-> TRUE, login |-> l, verifier |-> deriveVerifier(p, n)] \in RoleRecord
    BY DEF RoleRecord, deriveVerifier
  <2>3. NoRole \in RoleRecord
    BY DEF NoRole, RoleRecord, deriveVerifier
  <2>4. roles' \in [Range(Fold) -> RoleRecord]
    BY <2>1, <2>2, <2>3 DEF IInv, Typed
  <2> QED BY <1>1, <2>4 DEF IInv, Typed, Fixed
<1>3. at \notin Decided
  BY DEF ChangeRole
<1>4. Resolved(method) => Resolved(method)'
  BY <1>1, ResolvedStays
<1>5. CredIsDue => CredIsDue'
  BY <1>1 DEF CredIsDue, Fixed
<1>6. AnswerFits => AnswerFits'
  BY <1>1 DEF AnswerFits, Fixed
<1>7. AdmittedAsRuled'
  BY <1>1, <1>3 DEF AdmittedAsRuled
<1> QED BY <1>1, <1>2, <1>4, <1>5, <1>6, <1>7 DEF IInv

\* Every step keeps the invariant.
LEMMA StepHolds ==
  ASSUME IInv, [AuthNext]_authVars
  PROVE  IInv'
<1>1. CASE roleMayLogin
  BY <1>1, LoginStep
<1>2. CASE resolveMethod
  BY <1>2, MethodStep
<1>3. CASE credentialFor
  BY <1>3, CredentialStep
<1>4. CASE Challenge
  BY <1>4, ChallengeStep
<1>5. CASE ClientAnswers
  <2>1. at \in Exchanges
    BY <1>5 DEF ClientAnswers, IInv, Typed
  <2> QED BY <1>5, <2>1, AnswerStep
<1>6. CASE authCleartext
  BY <1>6, CleartextStep
<1>7. CASE authMD5
  BY <1>7, MD5Step
<1>8. CASE authSCRAM
  BY <1>8, SCRAMStep
<1>9. CASE ChangeRole
  BY <1>9, ChangeRoleStep
<1>10. CASE UNCHANGED authVars
  <2>1. /\ Fixed /\ roles' = roles
        /\ <<at, method, cred, nonce, answer, read>>' = <<at, method, cred, nonce, answer, read>>
    BY <1>10 DEF authVars, Fixed
  <2>2. Typed'
    BY <2>1 DEF IInv, Typed, Fixed
  <2>3. \A w : Wanted(w)' <=> Wanted(w)
    BY <2>1, WantedStays
  <2>4. Proven' <=> Proven
    BY <2>1, <2>3 DEF Proven, Due, Fixed
  <2> QED BY <2>1, <2>2, <2>3, <2>4 DEF IInv, Resolved, CredIsDue, AnswerFits, AdmittedAsRuled, Fixed
<1> QED BY <1>1, <1>2, <1>3, <1>4, <1>5, <1>6, <1>7, <1>8, <1>9, <1>10 DEF AuthNext

-----------------------------------------------------------------------------
\* However long the exchange and whatever happens to the roles, IInv holds.
THEOREM ExchangeInvariant == AuthSpec => []IInv
BY InitHolds, StepHolds, PTL DEF AuthSpec

\* A connection is admitted if, and only if, its role might log in and the first
\* rule for it trusts it, or it answered with the password that was due
\* (postgres.go:174-207, hba.go:42-56, scram.go:100-170).
THEOREM AdmissionIsRuled == AuthSpec => []AdmittedAsRuled
<1>1. IInv => AdmittedAsRuled
  BY DEF IInv
<1> QED BY ExchangeInvariant, <1>1, PTL

-----------------------------------------------------------------------------
(* Row-level security.                                                     *)

-----------------------------------------------------------------------------
(* What a state of the security lets the role do.                          *)

Enabled(m) == \E f \in m.flags : f.enabled
Forced(m) == \E f \in m.flags : f.forced

\* The policies are not asked.
FreeIn(m) == \/ ~Enabled(m) \/ m.standing.super \/ m.standing.bypass
             \/ (m.standing.owner /\ ~Forced(m))

\* The rows a command may have.
Let(m, command, forCheck) == {r \in Row : Permits(m, command, forCheck, r)}

\* An expression e that t got is within what was permitted at some moment, and is
\* just that if there was one only.
Fit(t, e, command, forCheck) ==
  /\ \E m \in t.seen : e \subseteq Let(m, command, forCheck)
  /\ \A m \in t.seen : t.seen = {m} => Let(m, command, forCheck) \subseteq e

\* The rows X were permitted at some moment.
Fine(t, X, command, forCheck) == \E m \in t.seen : X \subseteq Let(m, command, forCheck)

-----------------------------------------------------------------------------
(* Where a statement can be.                                               *)

Asking == {"flags", "super", "bypass", "owner", "policies"}
Places == Asking \cup {"provided", "pass", "upsert", "check upsert", "run"} \cup Over
Phases == {"filter", "check", "count source", "run source"}
SecurityState ==
  [flags : SUBSET [enabled : BOOLEAN, forced : BOOLEAN], policies : SUBSET Policy,
   standing : [super : BOOLEAN, bypass : BOOLEAN, owner : BOOLEAN]]

Statement ==
  [op : Inserts \cup Filtered \cup {"none"}, rows : SUBSET Row, at : Places, phase : Phases,
   forced : BOOLEAN, filter : SUBSET Row, source : SUBSET Row, provided : Nat,
   met : SUBSET Row, read : SUBSET Row, touched : SUBSET Row,
   seen : SUBSET SecurityState, disturbed : BOOLEAN, lost : BOOLEAN]

Shaped(t) ==
  /\ t.op # "none"
  /\ t.phase = "filter" => t.op \in Filtered /\ t.at \in Asking \cup {"run"}
  /\ t.phase = "check" =>
       \/ t.op \in Inserts /\ t.at \in Asking
       \/ t.op \in Listing /\ t.at \in {"provided", "pass", "run"}
       \/ t.op = "UPSERT" /\ t.at \in {"upsert", "check upsert", "run"}
  /\ t.phase = "count source" =>
       t.op = "INSERT SELECT" /\ t.at \in Asking \cup {"provided", "pass"}
  /\ t.phase = "run source" => t.op = "INSERT SELECT" /\ t.at \in Asking \cup {"run"}

-----------------------------------------------------------------------------
(* What a statement has found out, seeing v.                               *)

\* Whether the role is free.
HasAsked(t) ==
  /\ t.at \in {"super", "bypass", "owner"} /\ ~t.forced => \E m \in t.seen : ~Forced(m)
  /\ t.at = "owner" => ~t.forced
  /\ \A m \in t.seen : t.seen = {m} =>
       /\ t.at \in {"super", "bypass", "owner"} => Enabled(m) /\ (t.forced => Forced(m))
       /\ t.at \in {"bypass", "owner"} => ~m.standing.super
       /\ t.at = "owner" => ~m.standing.bypass
       /\ t.at \in {"policies", "upsert"} => ~FreeIn(m)

\* What an INSERT ... SELECT would add if it read what it may.
Expected(t, m, v) == {Copy[r] : r \in v.rows \cap t.rows \cap Let(m, "SELECT", FALSE)}

\* The expressions, and what was counted.
Expressed(t, v) ==
  /\ t.phase = "filter" /\ t.at = "run" => Fit(t, t.filter, t.op, FALSE)
  /\ t.op = "INSERT VALUES" /\ t.at = "run" => Fine(t, t.rows, "INSERT", TRUE)
  /\ t.op = "UPSERT" /\ t.at = "run" => Fine(t, Row, "UPDATE", TRUE)
  /\ t.at = "check upsert" => Fit(t, t.filter, "UPDATE", TRUE)
  /\ t.at \in {"provided", "pass"} \/ t.phase = "count source" => Fit(t, t.filter, "INSERT", TRUE)
  /\ t.op = "INSERT SELECT" /\ t.at \in {"provided", "pass", "run"} => Fit(t, t.source, "SELECT", FALSE)
  /\ t.at = "pass" => t.provided = Cardinality(NewRows(t, v))
  /\ t.phase = "run source" => Expected(t, Security(v), v) \subseteq Let(Security(v), "INSERT", TRUE)

\* Nothing is claimed of these.
Excused(t) == t.disturbed \/ t.lost \/ t.op = "INSERT SOME COLUMNS"

\* A statement that runs.
Sound(t, v) ==
  /\ Shaped(t) /\ Security(v) \in t.seen /\ t.touched = {}
  /\ ~Excused(t) =>
       /\ \A m \in t.seen : m.standing.owner = v.standing.owner
       /\ t.op = "INSERT SELECT" => t.seen = {Security(v)}
       /\ HasAsked(t) /\ Expressed(t, v)
       /\ Fine(t, t.read, "SELECT", FALSE)

\* A statement, when it is over: what RowsPermitted says of it.
Proper(t) ==
  t.op # "none" /\ ~Excused(t) =>
    /\ \E m \in t.seen : t.touched \subseteq Permitted(m, t)
    /\ \E m \in t.seen : t.read \subseteq Readable(m)
    /\ \A m \in t.seen :
         t.seen = {m} /\ t.at \in {"done", "rejected"} =>
           IF t.op \in Filtered THEN t.touched = t.met \cap Permitted(m, t)
           ELSE (t.at = "done") <=> t.met \subseteq Permitted(m, t)

RlsTyped ==
  /\ db \in TableVersion /\ work \in TableVersion
  /\ writer \in Session \cup {NoSession} /\ failed \in BOOLEAN
  /\ stmt \in [Session -> Statement]

\* The inductive invariant: every statement is sound while it runs, and proper after.
RlsInv ==
  /\ RlsTyped
  /\ \A s \in Session : Running(s) => s \in Subjects /\ Sound(stmt[s], View(s))
  /\ \A s \in Session : ~Running(s) => Proper(stmt[s])

-----------------------------------------------------------------------------
(* The expressions.                                                        *)

\* A row passes the combined expression if one permissive policy lets it, and every
\* restrictive one.
LEMMA Combined ==
  ASSUME NEW v, NEW c, NEW k \in BOOLEAN, NEW r \in Row
  PROVE  r \in combineRLS(gatherPolicies(v, c), k) <=>
           /\ \E p \in gatherPolicies(v, c) : p.permissive /\ r \in ExpressionOf(p, k)
           /\ \A p \in gatherPolicies(v, c) : ~p.permissive => r \in ExpressionOf(p, k)
<1> DEFINE G == gatherPolicies(v, c)
           perm == {ExpressionOf(p, k) : p \in {q \in G : q.permissive}}
           restr == {ExpressionOf(p, k) : p \in {q \in G : ~q.permissive}}
<1>1. combineRLS(G, k) = {x \in Row : (\E e \in perm : x \in e) /\ \A e \in restr : x \in e}
  BY DEF combineRLS
<1>2. (\E e \in perm : r \in e) <=> \E p \in G : p.permissive /\ r \in ExpressionOf(p, k)
  OBVIOUS
<1>3. (\A e \in restr : r \in e) <=> \A p \in G : ~p.permissive => r \in ExpressionOf(p, k)
  OBVIOUS
<1> QED
  BY <1>1, <1>2, <1>3

\* The policies that are gathered are those about the command and the role.
LEMMA Gathered ==
  ASSUME NEW v, NEW c
  PROVE  gatherPolicies(v, c) =
           {p \in v.policies : /\ p.command \in {c, "ALL"}
                               /\ p.roles = {} \/ \E q \in p.roles : q = public \/ q \in Effective}
<1>1. \A p : policyRoleMatch(p) <=> p.roles = {} \/ \E q \in p.roles : q = public \/ q \in Effective
  BY DEF policyRoleMatch
<1> QED
  BY <1>1 DEF gatherPolicies

\* Whoever is free may have every row.
LEMMA FreeLet ==
  ASSUME NEW m, FreeIn(m), NEW c, NEW k \in BOOLEAN
  PROVE  Let(m, c, k) = Row
BY DEF FreeIn, Let, Permits, Enabled, Forced

\* Whoever is not has what the policies' expressions leave.
LEMMA CombinedFit ==
  ASSUME NEW v, NEW c, NEW k \in BOOLEAN, NEW e, e = combineRLS(gatherPolicies(v, c), k)
  PROVE  /\ e \in SUBSET Row
         /\ e \subseteq Let(Security(v), c, k)
         /\ ~FreeIn(Security(v)) => e = Let(Security(v), c, k)
<1> DEFINE m == Security(v)
           says(p, r) == IF k /\ p.check # {} THEN r \in p.check
                         ELSE p.using # {} => r \in p.using
           G == gatherPolicies(v, c)
<1>1. m.policies = v.policies
  BY DEF Security
<1>2. \A r \in Row : \A p : r \in ExpressionOf(p, k) <=> says(p, r)
  BY DEF ExpressionOf
<1>3. \A r \in Row : r \in e <=> /\ \E p \in G : p.permissive /\ says(p, r)
                                 /\ ~\E p \in G : ~p.permissive /\ ~says(p, r)
  BY <1>2, Combined
<1>4. \A r : Permits(m, c, k, r) <=>
               \/ FreeIn(m)
               \/ (/\ \E p \in G : p.permissive /\ says(p, r)
                   /\ ~\E p \in G : ~p.permissive /\ ~says(p, r))
  BY <1>1, Gathered DEF Permits, FreeIn, Enabled, Forced
<1>5. e \in SUBSET Row
  BY DEF combineRLS
<1> HIDE DEF m, says, G
<1>6. \A r \in Row : r \in e => Permits(m, c, k, r)
  BY <1>3, <1>4
<1>7. ~FreeIn(m) => \A r \in Row : Permits(m, c, k, r) => r \in e
  BY <1>3, <1>4
<1> QED
  BY <1>5, <1>6, <1>7 DEF Let, m

\* Whatever is asked for, it fits a role that was free at some moment.
LEMMA FreeFit ==
  ASSUME NEW t, NEW m \in t.seen, FreeIn(m), NEW c, NEW k \in BOOLEAN
  PROVE  Fit(t, Row, c, k) /\ \A X \in SUBSET Row : Fine(t, X, c, k)
<1>1. Let(m, c, k) = Row
  BY FreeLet
<1>2. \A n : Let(n, c, k) \subseteq Row
  BY DEF Let
<1> QED
  BY <1>1, <1>2 DEF Fit, Fine

\* What is within an expression that fits is fine.
LEMMA FitFine ==
  ASSUME NEW t, NEW c, NEW k, NEW e, Fit(t, e, c, k), NEW X, X \subseteq e
  PROVE  Fine(t, X, c, k)
BY DEF Fit, Fine

\* What fits a statement fits another that has seen the same.
LEMMA SameSeen ==
  ASSUME NEW t, NEW w, w.seen = t.seen, NEW c, NEW k, NEW X
  PROVE  (Fit(w, X, c, k) <=> Fit(t, X, c, k)) /\ (Fine(w, X, c, k) <=> Fine(t, X, c, k))
BY DEF Fit, Fine

-----------------------------------------------------------------------------
(* A statement that is answered.                                           *)

\* What no query of a handler changes.
Same(t, w) ==
  /\ w.op = t.op /\ w.rows = t.rows /\ w.seen = t.seen /\ w.disturbed = t.disturbed
  /\ w.touched = t.touched /\ w.read = t.read /\ w.lost = t.lost

\* The fields of a statement.
LEMMA StatementTyped ==
  ASSUME NEW t \in Statement
  PROVE  /\ t.op \in Inserts \cup Filtered \cup {"none"} /\ t.at \in Places /\ t.phase \in Phases
         /\ t.rows \in SUBSET Row /\ t.filter \in SUBSET Row /\ t.source \in SUBSET Row
         /\ t.met \in SUBSET Row /\ t.read \in SUBSET Row /\ t.touched \in SUBSET Row
         /\ t.forced \in BOOLEAN /\ t.disturbed \in BOOLEAN /\ t.provided \in Nat
         /\ t.lost \in BOOLEAN
         /\ t.seen \in SUBSET SecurityState
BY DEF Statement

\* A statement that a query goes on with is sound if it is at the right place and what
\* it has found out since is right.
LEMMA SameSound ==
  ASSUME NEW v, NEW t, NEW w, Sound(t, v), Same(t, w), Shaped(w),
         ~Excused(t) => HasAsked(w) /\ Expressed(w, v)
  PROVE  Sound(w, v)
<1>1. \A X : Fine(w, X, "SELECT", FALSE) <=> Fine(t, X, "SELECT", FALSE)
  BY SameSeen DEF Same
<1> QED
  BY <1>1 DEF Sound, Same, Excused

\* A statement that asks.
AsksAt(t, v) == t \in Statement /\ t.at \in Asking /\ Sound(t, v)

\* The answer fits: the role is free, or not.
Answers(t, e, subject) ==
  /\ Fit(t, e, Command(t), Command(t) = "INSERT")
  /\ subject => \A m \in t.seen : t.seen = {m} => ~FreeIn(m)
  /\ ~subject => \E m \in t.seen : FreeIn(m)

\* The answers of the queries before a statement of Filtered.
LEMMA AnsweredFilter ==
  ASSUME NEW v, NEW t, AsksAt(t, v), t.phase = "filter", NEW e \in SUBSET Row, NEW subject \in BOOLEAN,
         ~Excused(t) => Answers(t, e, subject), NEW w, w = Answered(t, e, subject)
  PROVE  w \in Statement /\ w.at = "run" /\ Sound(w, v)
<1>1. w = [t EXCEPT !.at = "run", !.filter = e]
  BY DEF Answered
<1>2. t \in Statement /\ "run" \in Places
  BY DEF AsksAt, Places
<1>3. /\ w \in Statement /\ Same(t, w) /\ w.at = "run" /\ w.phase = "filter"
      /\ w.filter = e
  BY <1>1, <1>2 DEF Statement, Same
<1>4. t.op \in Filtered /\ t.op # "none"
  BY DEF AsksAt, Sound, Shaped
<1>5. w.op = t.op /\ w.seen = t.seen
  BY <1>3 DEF Same
<1>6. Shaped(w)
  BY <1>3, <1>4, <1>5 DEF Shaped
<1>7. ~Excused(t) => Fit(t, e, t.op, FALSE)
  BY <1>4 DEF Answers, Command, Filtered
<1>8. ~Excused(t) => Fit(w, e, t.op, FALSE)
  BY <1>5, <1>7, SameSeen
<1>9. ~Excused(t) => Expressed(w, v)
  BY <1>3, <1>4, <1>5, <1>8 DEF Expressed, Filtered
<1>10. HasAsked(w)
  BY <1>3 DEF HasAsked
<1>11. Sound(t, v)
  BY DEF AsksAt
<1> QED
  BY <1>3, <1>6, <1>9, <1>10, <1>11, SameSound

\* An INSERT or upsert of a role that is free.
LEMMA AnsweredFree ==
  ASSUME NEW v, NEW t, AsksAt(t, v), t.phase = "check", NEW e \in SUBSET Row,
         ~Excused(t) => Answers(t, e, FALSE), NEW w, w = Answered(t, e, FALSE)
  PROVE  w \in Statement /\ w.at \in {"flags", "run"} /\ Sound(w, v)
<1>1. t \in Statement /\ "run" \in Places /\ "flags" \in Places /\ "run source" \in Phases
  BY DEF AsksAt, Places, Phases, Asking
<1>2. t.op \in Inserts /\ t.op # "none"
  BY DEF AsksAt, Sound, Shaped, Asking
<1>3. t.rows \in SUBSET Row
  BY <1>1, StatementTyped
<1>4. CASE t.op = "INSERT SELECT"
  <2>1. w = [t EXCEPT !.at = "flags", !.phase = "run source"]
    BY <1>4 DEF Answered
  <2>2. w \in Statement /\ Same(t, w) /\ w.at = "flags" /\ w.phase = "run source"
    BY <1>1, <2>1 DEF Statement, Same
  <2>3. w.op = t.op /\ w.seen = t.seen /\ w.rows = t.rows
    BY <2>2 DEF Same
  <2>4. Shaped(w)
    BY <1>4, <2>2, <2>3 DEF Shaped, Asking
  <2>5. ~Excused(t) => FreeIn(Security(v))
    BY <1>4 DEF AsksAt, Sound, Answers
  <2>6. ~Excused(t) => Let(Security(v), "INSERT", TRUE) = Row
    BY <2>5, FreeLet
  <2>7. Expected(w, Security(v), v) \subseteq Row
    <3>1. \A r \in Row : Copy[r] \in Row
      BY RowSecurityAssumption
    <3>2. Let(Security(v), "SELECT", FALSE) \subseteq Row
      BY DEF Let
    <3> QED
      BY <3>1, <3>2 DEF Expected
  <2>8. ~Excused(t) => Expressed(w, v)
    BY <1>4, <2>2, <2>3, <2>6, <2>7 DEF Expressed
  <2>9. HasAsked(w)
    BY <2>2 DEF HasAsked
  <2>10. Sound(t, v)
    BY DEF AsksAt
  <2> QED
    BY <2>2, <2>4, <2>8, <2>9, <2>10, SameSound
<1>5. CASE t.op # "INSERT SELECT"
  <2>1. w = [t EXCEPT !.at = "run"]
    BY <1>5 DEF Answered
  <2>2. w \in Statement /\ Same(t, w) /\ w.at = "run" /\ w.phase = "check"
    BY <1>1, <2>1 DEF Statement, Same
  <2>3. w.op = t.op /\ w.seen = t.seen /\ w.rows = t.rows
    BY <2>2 DEF Same
  <2>4. Shaped(w)
    BY <1>2, <1>5, <2>2, <2>3 DEF Shaped, Inserts
  <2>5. ~Excused(t) => Fine(t, t.rows, "INSERT", TRUE) /\ Fine(t, Row, "UPDATE", TRUE)
    BY <1>3, FreeFit DEF Answers
  <2>6. ~Excused(t) => Fine(w, w.rows, "INSERT", TRUE) /\ Fine(w, Row, "UPDATE", TRUE)
    BY <2>3, <2>5, SameSeen
  <2>7. ~Excused(t) => Expressed(w, v)
    BY <1>5, <2>2, <2>3, <2>6 DEF Expressed
  <2>8. HasAsked(w)
    BY <2>2 DEF HasAsked
  <2>9. Sound(t, v)
    BY DEF AsksAt
  <2> QED
    BY <2>2, <2>4, <2>7, <2>8, <2>9, SameSound
<1> QED
  BY <1>4, <1>5

\* An INSERT or upsert of a role that is subject to policies.
LEMMA AnsweredSubject ==
  ASSUME NEW v, NEW t, AsksAt(t, v), t.phase = "check", NEW e \in SUBSET Row,
         ~Excused(t) => Answers(t, e, TRUE), NEW w, w = Answered(t, e, TRUE)
  PROVE  w \in Statement /\ w.at \in {"flags", "provided", "upsert"} /\ Sound(w, v)
<1>1. /\ t \in Statement /\ "provided" \in Places /\ "flags" \in Places /\ "upsert" \in Places
      /\ "count source" \in Phases
  BY DEF AsksAt, Places, Phases, Asking
<1>2. t.op \in Inserts /\ t.op # "none"
  BY DEF AsksAt, Sound, Shaped, Asking
<1>3. ~Excused(t) => Fit(t, e, "INSERT", TRUE)
  BY DEF Answers, Command
<1>4. CASE t.op = "INSERT SELECT"
  <2>1. w = [t EXCEPT !.at = "flags", !.phase = "count source", !.filter = e]
    BY <1>4 DEF Answered, Listing
  <2>2. w \in Statement /\ Same(t, w) /\ w.at = "flags" /\ w.phase = "count source" /\ w.filter = e
    <3>1. w \in Statement
      BY <1>1, <2>1 DEF Statement
    <3> QED
      BY <1>1, <2>1, <3>1 DEF Statement, Same
  <2>3. w.op = t.op /\ w.seen = t.seen
    BY <2>2 DEF Same
  <2>4. Shaped(w)
    BY <1>4, <2>2, <2>3 DEF Shaped, Asking
  <2>5. ~Excused(t) => Fit(w, e, "INSERT", TRUE)
    BY <1>3, <2>3, SameSeen
  <2>6. ~Excused(t) => Expressed(w, v)
    BY <1>4, <2>2, <2>3, <2>5 DEF Expressed
  <2>7. HasAsked(w)
    BY <2>2 DEF HasAsked
  <2>8. Sound(t, v)
    BY DEF AsksAt
  <2> QED
    BY <2>2, <2>4, <2>6, <2>7, <2>8, SameSound
<1>5. CASE t.op = "UPSERT"
  <2>1. w = [t EXCEPT !.at = "upsert"]
    BY <1>5 DEF Answered, Listing
  <2>2. w \in Statement /\ Same(t, w) /\ w.at = "upsert" /\ w.phase = "check"
    BY <1>1, <2>1 DEF Statement, Same
  <2>3. w.op = t.op /\ w.seen = t.seen
    BY <2>2 DEF Same
  <2>4. Shaped(w)
    BY <1>5, <2>2, <2>3 DEF Shaped
  <2>5. ~Excused(t) => \A m \in t.seen : t.seen = {m} => ~FreeIn(m)
    BY DEF Answers
  <2>6. ~Excused(t) => HasAsked(w)
    BY <2>2, <2>3, <2>5 DEF HasAsked
  <2>7. Expressed(w, v)
    BY <1>5, <2>2, <2>3 DEF Expressed
  <2> QED
    BY <2>2, <2>4, <2>6, <2>7, SameSound DEF AsksAt
<1>6. CASE t.op \in Listing
  <2>1. w = [t EXCEPT !.at = "provided", !.filter = e]
    BY <1>6 DEF Answered, Listing
  <2>2. w \in Statement /\ Same(t, w) /\ w.at = "provided" /\ w.phase = "check" /\ w.filter = e
    BY <1>1, <2>1 DEF Statement, Same
  <2>3. w.op = t.op /\ w.seen = t.seen
    BY <2>2 DEF Same
  <2>4. Shaped(w)
    BY <1>2, <1>6, <2>2, <2>3 DEF Shaped
  <2>5. ~Excused(t) => Fit(w, e, "INSERT", TRUE)
    BY <1>3, <2>3, SameSeen
  <2>6. ~Excused(t) => Expressed(w, v)
    BY <1>6, <2>2, <2>3, <2>5 DEF Expressed, Listing
  <2>7. HasAsked(w)
    BY <2>2 DEF HasAsked
  <2>8. Sound(t, v)
    BY DEF AsksAt
  <2> QED
    BY <2>2, <2>4, <2>6, <2>7, <2>8, SameSound
<1> QED
  BY <1>2, <1>4, <1>5, <1>6 DEF Inserts

\* The source of an INSERT ... SELECT.
LEMMA AnsweredSource ==
  ASSUME NEW v, NEW t, AsksAt(t, v), t.phase \in {"count source", "run source"}, NEW e \in SUBSET Row,
         NEW subject \in BOOLEAN, ~Excused(t) => Answers(t, e, subject), NEW w, w = Answered(t, e, subject)
  PROVE  w \in Statement /\ w.at \in {"provided", "run"} /\ Sound(w, v)
<1>1. t \in Statement /\ "provided" \in Places /\ "run" \in Places
  BY DEF AsksAt, Places
<1>2. t.op = "INSERT SELECT"
  BY DEF AsksAt, Sound, Shaped
<1>3. ~Excused(t) => Fit(t, e, "SELECT", FALSE)
  BY DEF Answers, Command
<1>4. \E a \in {"provided", "run"} :
        w = [t EXCEPT !.at = a, !.source = e] /\ (a = "provided" <=> t.phase = "count source")
  BY DEF Answered
<1>5. PICK a \in {"provided", "run"} :
        w = [t EXCEPT !.at = a, !.source = e] /\ (a = "provided" <=> t.phase = "count source")
  BY <1>4
<1>6. w \in Statement /\ Same(t, w) /\ w.at = a /\ w.phase = t.phase /\ w.filter = t.filter /\ w.source = e
  <2>1. a \in Places
    BY <1>1
  <2> QED
    BY <1>1, <1>5, <2>1 DEF Statement, Same
<1>7. w.op = t.op /\ w.seen = t.seen /\ w.rows = t.rows
  BY <1>6 DEF Same
<1>8. Shaped(w)
  BY <1>2, <1>5, <1>6, <1>7 DEF Shaped
<1>9. ~Excused(t) => Fit(w, e, "SELECT", FALSE)
  BY <1>3, <1>7, SameSeen
<1>10. ~Excused(t) /\ t.phase = "count source" => Fit(w, w.filter, "INSERT", TRUE)
  <2>1. ~Excused(t) /\ t.phase = "count source" => Fit(t, t.filter, "INSERT", TRUE)
    BY DEF AsksAt, Sound, Expressed
  <2> QED
    BY <1>6, <1>7, <2>1, SameSeen
<1>11. ~Excused(t) /\ t.phase = "run source" =>
         Expected(w, Security(v), v) \subseteq Let(Security(v), "INSERT", TRUE)
  <2>1. Expected(w, Security(v), v) = Expected(t, Security(v), v)
    BY <1>7 DEF Expected
  <2> QED
    BY <2>1 DEF AsksAt, Sound, Expressed
<1>12. ~Excused(t) => Expressed(w, v)
  BY <1>2, <1>5, <1>6, <1>7, <1>9, <1>10, <1>11 DEF Expressed
<1>13. HasAsked(w)
  BY <1>6 DEF HasAsked
<1>14. Sound(t, v)
  BY DEF AsksAt
<1> QED
  BY <1>5, <1>6, <1>8, <1>12, <1>13, <1>14, SameSound

\* What a query leaves of its statement: it still runs, and is sound.
GoesOnWith(w, v) == w \in Statement /\ w.at \notin Over /\ Sound(w, v)

\* Any statement that is answered.
LEMMA AnsweredSound ==
  ASSUME NEW v, NEW t, AsksAt(t, v), NEW e \in SUBSET Row, NEW subject \in BOOLEAN,
         ~Excused(t) => Answers(t, e, subject), NEW w, w = Answered(t, e, subject)
  PROVE  GoesOnWith(w, v)
<1>1. t.phase \in Phases
  BY DEF AsksAt, Statement
<1>2. CASE t.phase = "filter"
  BY <1>2, AnsweredFilter DEF GoesOnWith, Over
<1>3. CASE t.phase = "check" /\ subject = TRUE
  BY <1>3, AnsweredSubject DEF GoesOnWith, Over
<1>4. CASE t.phase = "check" /\ subject = FALSE
  BY <1>4, AnsweredFree DEF GoesOnWith, Over
<1>5. CASE t.phase \in {"count source", "run source"}
  BY <1>5, AnsweredSource DEF GoesOnWith, Over
<1> QED
  BY <1>1, <1>2, <1>3, <1>4, <1>5 DEF Phases

\* A role that is free at some moment.
LEMMA FreeSound ==
  ASSUME NEW v, NEW t, AsksAt(t, v), ~Excused(t) => \E m \in t.seen : FreeIn(m), NEW w, w = Free(t)
  PROVE  GoesOnWith(w, v)
<1>1. w = Answered(t, Row, FALSE)
  BY DEF Free
<1>2. (Command(t) = "INSERT") \in BOOLEAN
  OBVIOUS
<1>3. ~Excused(t) => Fit(t, Row, Command(t), Command(t) = "INSERT")
  BY <1>2, FreeFit
<1>4. ~Excused(t) => Answers(t, Row, FALSE)
  BY <1>3 DEF Answers
<1> QED
  BY <1>1, <1>4, AnsweredSound

\* A statement that asks on.
LEMMA AsksOn ==
  ASSUME NEW v, NEW t, AsksAt(t, v), NEW w \in Statement, Same(t, w), w.at \in Asking,
         w.phase = t.phase, w.filter = t.filter, ~Excused(t) => HasAsked(w)
  PROVE  GoesOnWith(w, v)
<1>1. w.op = t.op /\ w.seen = t.seen /\ w.rows = t.rows
  BY DEF Same
<1>2. Sound(t, v) /\ t.at \in Asking
  BY DEF AsksAt
<1>3. Shaped(w)
  BY <1>1, <1>2 DEF Sound, Shaped, Asking
<1>4. ~Excused(t) /\ t.phase = "count source" => Fit(w, w.filter, "INSERT", TRUE)
  <2>1. ~Excused(t) /\ t.phase = "count source" => Fit(t, t.filter, "INSERT", TRUE)
    BY <1>2 DEF Sound, Expressed
  <2> QED
    BY <1>1, <2>1, SameSeen
<1>5. ~Excused(t) /\ t.phase = "run source" =>
        Expected(w, Security(v), v) \subseteq Let(Security(v), "INSERT", TRUE)
  <2>1. Expected(w, Security(v), v) = Expected(t, Security(v), v)
    BY <1>1 DEF Expected
  <2> QED
    BY <1>2, <2>1 DEF Sound, Expressed
<1>6. ~Excused(t) => Expressed(w, v)
  BY <1>1, <1>3, <1>4, <1>5 DEF Expressed, Asking
<1>7. Sound(w, v)
  BY <1>2, <1>3, <1>6, SameSound
<1> QED
  BY <1>7 DEF GoesOnWith, Asking, Over

\* The table's flags.
LEMMA FlagsAsked ==
  ASSUME NEW v, NEW t, AsksAt(t, v), t.at = "flags", NEW w,
         w = IF \A x \in v.flags : ~x.enabled THEN Free(t)
             ELSE [t EXCEPT !.at = "super", !.forced = \E x \in v.flags : x.forced]
  PROVE  GoesOnWith(w, v)
<1> DEFINE m == Security(v)
<1>1. m \in t.seen
  BY DEF AsksAt, Sound
<1>2. (Enabled(m) <=> \E x \in v.flags : x.enabled) /\ (Forced(m) <=> \E x \in v.flags : x.forced)
  BY DEF Enabled, Forced, Security
<1>3. t \in Statement
  BY DEF AsksAt
<1> HIDE DEF m
<1>4. CASE ~Enabled(m)
  <2>1. w = Free(t)
    BY <1>2, <1>4
  <2>2. FreeIn(m)
    BY <1>4 DEF FreeIn
  <2> QED
    BY <1>1, <2>1, <2>2, FreeSound
<1>5. CASE Enabled(m)
  <2>1. PICK f \in BOOLEAN : f <=> Forced(m)
    OBVIOUS
  <2>2. w = [t EXCEPT !.at = "super", !.forced = f]
    BY <1>2, <1>5, <2>1
  <2>3. /\ w \in Statement /\ Same(t, w) /\ w.at = "super" /\ w.phase = t.phase /\ w.filter = t.filter
        /\ w.forced = f
    BY <1>3, <2>2 DEF Statement, Same, Places, Asking
  <2>4. w.seen = t.seen
    BY <2>3 DEF Same
  <2>5. HasAsked(w)
    BY <1>1, <1>5, <2>1, <2>3, <2>4 DEF HasAsked
  <2> QED
    BY <2>3, <2>5, AsksOn DEF Asking
<1> QED
  BY <1>4, <1>5

\* Whether the role is a superuser.
LEMMA SuperAsked ==
  ASSUME NEW v, NEW t, AsksAt(t, v), t.at = "super", NEW w,
         w = IF v.standing.super THEN Free(t) ELSE [t EXCEPT !.at = "bypass"]
  PROVE  GoesOnWith(w, v)
<1> DEFINE m == Security(v)
<1>1. m \in t.seen /\ m.standing = v.standing
  BY DEF AsksAt, Sound, Security
<1>2. t \in Statement
  BY DEF AsksAt
<1> HIDE DEF m
<1>3. CASE v.standing.super
  <2>1. FreeIn(m)
    BY <1>1, <1>3 DEF FreeIn
  <2> QED
    BY <1>1, <1>3, <2>1, FreeSound
<1>4. CASE ~v.standing.super
  <2>1. w = [t EXCEPT !.at = "bypass"]
    BY <1>4
  <2>2. /\ w \in Statement /\ Same(t, w) /\ w.at = "bypass" /\ w.phase = t.phase /\ w.filter = t.filter
        /\ w.forced = t.forced
    BY <1>2, <2>1 DEF Statement, Same, Places, Asking
  <2>3. w.seen = t.seen
    BY <2>2 DEF Same
  <2>4. ~Excused(t) => HasAsked(t)
    BY DEF AsksAt, Sound
  <2>5. ~Excused(t) => HasAsked(w)
    BY <1>1, <1>4, <2>2, <2>3, <2>4 DEF HasAsked
  <2> QED
    BY <2>2, <2>5, AsksOn DEF Asking
<1> QED
  BY <1>3, <1>4

\* Whether it has BYPASSRLS.
LEMMA BypassAsked ==
  ASSUME NEW v, NEW t, AsksAt(t, v), t.at = "bypass", NEW w,
         w = IF v.standing.bypass THEN Free(t) ELSE NoBypass(t)
  PROVE  GoesOnWith(w, v)
<1> DEFINE m == Security(v)
<1>1. m \in t.seen /\ m.standing = v.standing
  BY DEF AsksAt, Sound, Security
<1>2. t \in Statement /\ t.forced \in BOOLEAN
  BY DEF AsksAt, Statement
<1> HIDE DEF m
<1>3. CASE v.standing.bypass
  <2>1. FreeIn(m)
    BY <1>1, <1>3 DEF FreeIn
  <2> QED
    BY <1>1, <1>3, <2>1, FreeSound
<1>4. CASE ~v.standing.bypass
  <2>1. PICK a \in {"policies", "owner"} : a = IF t.forced THEN "policies" ELSE "owner"
    OBVIOUS
  <2>2. w = [t EXCEPT !.at = a]
    BY <1>4, <2>1 DEF NoBypass
  <2>3. a \in Places /\ a \in Asking
    BY DEF Places, Asking
  <2>4. /\ w \in Statement /\ Same(t, w) /\ w.at = a /\ w.phase = t.phase /\ w.filter = t.filter
        /\ w.forced = t.forced
    BY <1>2, <2>2, <2>3 DEF Statement, Same
  <2>5. w.seen = t.seen
    BY <2>4 DEF Same
  <2>6. ~Excused(t) => HasAsked(t)
    BY DEF AsksAt, Sound
  <2>7. ~Excused(t) => HasAsked(w)
    BY <1>1, <1>2, <1>4, <2>1, <2>4, <2>5, <2>6 DEF HasAsked, FreeIn
  <2> QED
    BY <2>3, <2>4, <2>7, AsksOn
<1> QED
  BY <1>3, <1>4

\* Whether it owns the table.
LEMMA OwnerAsked ==
  ASSUME NEW v, NEW t, AsksAt(t, v), t.at = "owner", NEW w,
         w = IF v.standing.owner THEN Free(t) ELSE [t EXCEPT !.at = "policies"]
  PROVE  GoesOnWith(w, v)
<1>1. Security(v) \in t.seen /\ Security(v).standing = v.standing
  BY DEF AsksAt, Sound, Security
<1>2. t \in Statement
  BY DEF AsksAt
<1>3. ~Excused(t) => HasAsked(t) /\ \A m \in t.seen : m.standing.owner = v.standing.owner
  BY DEF AsksAt, Sound
<1>4. CASE v.standing.owner
  <2>1. ASSUME ~Excused(t) PROVE \E m \in t.seen : FreeIn(m)
    <3>1. PICK m \in t.seen : ~Forced(m)
      BY <1>3, <2>1 DEF HasAsked
    <3> QED
      BY <1>3, <1>4, <2>1, <3>1 DEF FreeIn
  <2> QED
    BY <1>4, <2>1, FreeSound
<1>5. CASE ~v.standing.owner
  <2>1. w = [t EXCEPT !.at = "policies"]
    BY <1>5
  <2>2. /\ w \in Statement /\ Same(t, w) /\ w.at = "policies" /\ w.phase = t.phase /\ w.filter = t.filter
    BY <1>2, <2>1 DEF Statement, Same, Places, Asking
  <2>3. w.seen = t.seen
    BY <2>2 DEF Same
  <2>4. ~Excused(t) => HasAsked(w)
    BY <1>1, <1>3, <1>5, <2>2, <2>3 DEF HasAsked, FreeIn
  <2> QED
    BY <2>2, <2>4, AsksOn DEF Asking
<1> QED
  BY <1>4, <1>5

\* Nothing more is asked than the policies.
LEMMA PoliciesAsked ==
  ASSUME NEW v, NEW t, AsksAt(t, v), t.at = "policies", NEW w,
         w = Answered(t, combineRLS(gatherPolicies(v, Command(t)), Command(t) = "INSERT"), TRUE)
  PROVE  GoesOnWith(w, v)
<1> DEFINE c == Command(t)
           e == combineRLS(gatherPolicies(v, c), c = "INSERT")
<1>1. Security(v) \in t.seen
  BY DEF AsksAt, Sound
<1>2. /\ e \in SUBSET Row /\ e \subseteq Let(Security(v), c, c = "INSERT")
      /\ ~FreeIn(Security(v)) => e = Let(Security(v), c, c = "INSERT")
  <2>1. PICK k \in BOOLEAN : k = (c = "INSERT")
    OBVIOUS
  <2>2. e = combineRLS(gatherPolicies(v, c), k)
    BY <2>1
  <2> HIDE DEF e, c
  <2>3. /\ e \in SUBSET Row /\ e \subseteq Let(Security(v), c, k)
        /\ ~FreeIn(Security(v)) => e = Let(Security(v), c, k)
    BY <2>2, CombinedFit
  <2> QED
    BY <2>1, <2>3
<1>3. ~Excused(t) => \A m \in t.seen : t.seen = {m} => ~FreeIn(m)
  BY DEF AsksAt, Sound, HasAsked
<1> HIDE DEF e, c
<1>4. ~Excused(t) => Fit(t, e, c, c = "INSERT")
  BY <1>1, <1>2, <1>3 DEF Fit
<1>5. ~Excused(t) => Answers(t, e, TRUE)
  BY <1>3, <1>4 DEF Answers, c
<1>6. w = Answered(t, e, TRUE)
  BY DEF e, c
<1> QED
  BY <1>2, <1>5, <1>6, AnsweredSound

-----------------------------------------------------------------------------
(* A statement that counts, or runs.                                       *)

\* The rows an INSERT adds are rows, and finitely many.
LEMMA NewRowsTyped ==
  ASSUME NEW v, NEW t \in Statement
  PROVE  /\ SourceOf(t, v) \in SUBSET Row /\ NewRows(t, v) \in SUBSET Row
         /\ IsFiniteSet(NewRows(t, v)) /\ Cardinality(NewRows(t, v)) \in Nat
<1>1. t.rows \in SUBSET Row
  BY StatementTyped
<1>2. SourceOf(t, v) \in SUBSET Row
  BY <1>1 DEF SourceOf
<1>3. \A r \in Row : Copy[r] \in Row
  BY RowSecurityAssumption
<1>4. NewRows(t, v) \in SUBSET Row
  BY <1>1, <1>2, <1>3 DEF NewRows
<1>5. IsFiniteSet(Row)
  BY RowSecurityAssumption
<1>6. IsFiniteSet(NewRows(t, v))
  BY <1>4, <1>5, FS_Subset
<1> QED
  BY <1>2, <1>4, <1>6, FS_CardinalityType

\* As many rows pass as there are: all of them.
LEMMA AllPass ==
  ASSUME NEW X, IsFiniteSet(X), NEW e
  PROVE  Cardinality(X \cap e) < Cardinality(X) <=> ~(X \subseteq e)
<1>1. X \cap e \in SUBSET X
  OBVIOUS
<1>2. /\ IsFiniteSet(X \cap e)
      /\ Cardinality(X \cap e) <= Cardinality(X)
      /\ Cardinality(X \cap e) = Cardinality(X) => X \cap e = X
  BY <1>1, FS_Subset
<1>3. Cardinality(X) \in Nat /\ Cardinality(X \cap e) \in Nat
  BY <1>2, FS_CardinalityType
<1>4. X \cap e = X <=> X \subseteq e
  OBVIOUS
<1> QED
  BY <1>2, <1>3, <1>4

\* The rows a statement may have and those of its command.
LEMMA PermittedIs ==
  ASSUME NEW m, NEW t
  PROVE  /\ t.op \in Filtered => Permitted(m, t) = Let(m, t.op, FALSE)
         /\ t.op = "UPSERT" => Permitted(m, t) = Let(m, "UPDATE", TRUE)
         /\ t.op \in {"INSERT VALUES", "INSERT SELECT"} => Permitted(m, t) = Let(m, "INSERT", TRUE)
         /\ Readable(m) = Let(m, "SELECT", FALSE)
<1>1. CASE t.op \in Filtered
  BY <1>1 DEF Permitted, Readable, Let, Filtered
<1>2. CASE t.op = "UPSERT"
  BY <1>2 DEF Permitted, Readable, Let, Filtered
<1>3. CASE t.op \notin Filtered /\ t.op # "UPSERT"
  BY <1>3 DEF Permitted, Readable, Let, Filtered
<1> QED
  BY <1>1, <1>2, <1>3

\* A statement that counts or runs.
WorksAt(t, v, place) == t \in Statement /\ t.at = place /\ Sound(t, v)

\* The rows are counted.
LEMMA ProvidedCounted ==
  ASSUME NEW v, NEW t, WorksAt(t, v, "provided"), NEW w,
         w = [t EXCEPT !.at = "pass", !.provided = Cardinality(NewRows(t, v))]
  PROVE  GoesOnWith(w, v)
<1>1. t \in Statement /\ t.at = "provided" /\ Sound(t, v)
  BY DEF WorksAt
<1>2. PICK n \in Nat : n = Cardinality(NewRows(t, v))
  BY <1>1, NewRowsTyped
<1>3. w = [t EXCEPT !.at = "pass", !.provided = n]
  BY <1>2
<1>4. /\ w \in Statement /\ Same(t, w) /\ w.at = "pass" /\ w.phase = t.phase
      /\ w.filter = t.filter /\ w.source = t.source /\ w.provided = n
  BY <1>1, <1>3 DEF Statement, Same, Places
<1>5. w.op = t.op /\ w.seen = t.seen /\ w.rows = t.rows
  BY <1>4 DEF Same
<1>6. Shaped(w)
  BY <1>1, <1>4, <1>5 DEF Sound, Shaped, Asking
<1>7. NewRows(w, v) = NewRows(t, v)
  BY <1>4, <1>5 DEF NewRows, SourceOf
<1>8. ~Excused(t) => Expressed(t, v)
  BY <1>1 DEF Sound
<1>9. ~Excused(t) => /\ Fit(t, t.filter, "INSERT", TRUE)
                     /\ t.op = "INSERT SELECT" => Fit(t, t.source, "SELECT", FALSE)
  BY <1>1, <1>8 DEF Expressed
<1>10. ~Excused(t) => /\ Fit(w, w.filter, "INSERT", TRUE)
                      /\ t.op = "INSERT SELECT" => Fit(w, w.source, "SELECT", FALSE)
  BY <1>4, <1>5, <1>9, SameSeen
<1>11. ~Excused(t) => Expressed(w, v)
  BY <1>2, <1>4, <1>5, <1>6, <1>7, <1>10 DEF Expressed, Shaped, Asking
<1>12. HasAsked(w)
  BY <1>4 DEF HasAsked
<1>13. Sound(w, v)
  BY <1>1, <1>4, <1>6, <1>11, <1>12, SameSound
<1> QED
  BY <1>4, <1>13 DEF GoesOnWith, Over

\* What a statement ends as.
EndsAs(w) == w \in Statement /\ w.at \in Over /\ Proper(w)

\* Fewer rows pass than there are: there is one that was not permitted.
LEMMA Rejected ==
  ASSUME NEW v, NEW t, WorksAt(t, v, "pass"), t.op # "INSERT SOME COLUMNS",
         Cardinality(NewRows(t, v) \cap t.filter) < t.provided, NEW w,
         w = [t EXCEPT !.met = NewRows(t, v), !.read = SourceOf(t, v), !.at = "rejected"]
  PROVE  EndsAs(w)
<1>1. t \in Statement /\ t.at = "pass" /\ Sound(t, v)
  BY DEF WorksAt
<1>2. PICK X \in SUBSET Row : X = NewRows(t, v) /\ IsFiniteSet(X)
  BY <1>1, NewRowsTyped
<1>3. PICK Y \in SUBSET Row : Y = SourceOf(t, v)
  BY <1>1, NewRowsTyped
<1>4. w = [t EXCEPT !.met = X, !.read = Y, !.at = "rejected"]
  BY <1>2, <1>3
<1>5. /\ w \in Statement /\ w.at = "rejected" /\ w.op = t.op /\ w.seen = t.seen
      /\ w.disturbed = t.disturbed /\ w.touched = t.touched /\ w.met = X /\ w.read = Y
      /\ w.lost = t.lost
  BY <1>1, <1>4 DEF Statement, Places, Over
<1>6. t.op \in {"INSERT VALUES", "INSERT SELECT"}
  BY <1>1, StatementTyped DEF Sound, Shaped, Phases, Asking, Listing
<1>7. SUFFICES ASSUME ~Excused(w) PROVE Proper(w)
  BY <1>5, <1>7 DEF EndsAs, Over, Proper
<1>8. ~Excused(t)
  BY <1>5, <1>7 DEF Excused
<1>9. t.touched = {} /\ t.seen # {} /\ Expressed(t, v)
  BY <1>1, <1>8 DEF Sound
<1>10. PICK m \in t.seen : Y \subseteq Let(m, "SELECT", FALSE)
  <2>1. CASE t.op = "INSERT SELECT"
    <3>1. Fit(t, t.source, "SELECT", FALSE)
      BY <1>1, <1>9, <2>1 DEF Expressed
    <3>2. Y \subseteq t.source
      BY <1>3, <2>1 DEF SourceOf
    <3> QED
      BY <3>1, <3>2 DEF Fit
  <2>2. CASE t.op # "INSERT SELECT"
    <3>1. Y = {}
      BY <1>3, <2>2 DEF SourceOf
    <3> QED
      BY <1>9, <3>1
  <2> QED
    BY <2>1, <2>2
<1>11. Fit(t, t.filter, "INSERT", TRUE)
  BY <1>1, <1>9 DEF Expressed
<1>12. ~(X \subseteq t.filter)
  <2>1. t.provided = Cardinality(X)
    BY <1>1, <1>2, <1>9 DEF Expressed
  <2>2. Cardinality(X \cap t.filter) < Cardinality(X)
    BY <1>2, <2>1
  <2> QED
    BY <1>2, <2>2, AllPass
<1>13. \A n \in w.seen : w.seen = {n} => ~(w.met \subseteq Permitted(n, w))
  <2>1. \A n : Permitted(n, w) = Let(n, "INSERT", TRUE)
    BY <1>5, <1>6, PermittedIs
  <2> QED
    BY <1>5, <1>11, <1>12, <2>1 DEF Fit
<1>14. \E n \in w.seen : w.read \subseteq Readable(n)
  BY <1>5, <1>10, PermittedIs
<1>15. \E n \in w.seen : w.touched \subseteq Permitted(n, w)
  BY <1>5, <1>9
<1>16. w.op \notin Filtered
  BY <1>5, <1>6 DEF Filtered
<1> QED
  BY <1>5, <1>13, <1>14, <1>15, <1>16 DEF Proper

\* As many rows pass: the INSERT runs, or asks what it may read once more.
LEMMA Passed ==
  ASSUME NEW v, NEW t, WorksAt(t, v, "pass"), NEW w,
         ~(t.op # "INSERT SOME COLUMNS" /\ Cardinality(NewRows(t, v) \cap t.filter) < t.provided),
         w = IF t.op = "INSERT SELECT"
             THEN [t EXCEPT !.met = NewRows(t, v), !.read = SourceOf(t, v), !.at = "flags",
                            !.phase = "run source"]
             ELSE [t EXCEPT !.met = NewRows(t, v), !.read = SourceOf(t, v), !.at = "run"]
  PROVE  GoesOnWith(w, v)
<1>1. t \in Statement /\ t.at = "pass" /\ Sound(t, v)
  BY DEF WorksAt
<1>2. PICK X \in SUBSET Row : X = NewRows(t, v) /\ IsFiniteSet(X)
  BY <1>1, NewRowsTyped
<1>3. PICK Y \in SUBSET Row : Y = SourceOf(t, v)
  BY <1>1, NewRowsTyped
<1>4. t.op \in Listing \cup {"INSERT SELECT"} /\ t.phase \in Phases
  BY <1>1, StatementTyped DEF Sound, Shaped, Phases, Asking, Listing
<1>5. Security(v) \in t.seen /\ t.touched = {}
  BY <1>1 DEF Sound
<1>6. ~Excused(t) => /\ \A m \in t.seen : m.standing.owner = v.standing.owner
                     /\ t.op = "INSERT SELECT" => t.seen = {Security(v)}
                     /\ Expressed(t, v)
  BY <1>1 DEF Sound
<1>7. ~Excused(t) => X \subseteq t.filter
  <2>1. ASSUME ~Excused(t) PROVE X \subseteq t.filter
    <3>1. t.provided = Cardinality(X) /\ t.op # "INSERT SOME COLUMNS"
      BY <1>1, <1>2, <1>6, <2>1 DEF Expressed, Excused
    <3>2. ~(Cardinality(X \cap t.filter) < Cardinality(X))
      BY <1>2, <3>1
    <3> QED
      BY <1>2, <3>2, AllPass
  <2> QED
    BY <2>1
<1>8. ~Excused(t) => Fit(t, t.filter, "INSERT", TRUE)
  BY <1>1, <1>6 DEF Expressed
<1>9. CASE t.op # "INSERT SELECT"
  <2>1. w = [t EXCEPT !.met = X, !.read = Y, !.at = "run"]
    BY <1>2, <1>3, <1>9
  <2>2. /\ w \in Statement /\ w.at = "run" /\ w.op = t.op /\ w.seen = t.seen /\ w.rows = t.rows
        /\ w.disturbed = t.disturbed /\ w.touched = t.touched /\ w.read = Y /\ w.phase = t.phase
        /\ w.lost = t.lost
    BY <1>1, <2>1 DEF Statement, Places
  <2>3. Y = {} /\ X = t.rows
    BY <1>2, <1>3, <1>9 DEF SourceOf, NewRows
  <2>4. t.op \in Listing /\ t.phase = "check"
    BY <1>1, <1>4, <1>9 DEF Sound, Shaped, Phases, Filtered, Listing, Asking
  <2>5. Shaped(w)
    BY <2>2, <2>4 DEF Shaped, Listing
  <2>6. ~Excused(t) => Fine(w, w.rows, "INSERT", TRUE)
    BY <1>7, <1>8, <2>2, <2>3 DEF Fine, Fit
  <2>7. ~Excused(t) => Expressed(w, v)
    BY <2>2, <2>4, <2>6 DEF Expressed, Listing
  <2>8. HasAsked(w)
    BY <2>2 DEF HasAsked
  <2>9. Fine(w, w.read, "SELECT", FALSE)
    BY <1>5, <2>2, <2>3 DEF Fine
  <2>10. Excused(w) <=> Excused(t)
    BY <2>2 DEF Excused
  <2>11. Sound(w, v)
    BY <1>5, <1>6, <1>9, <2>2, <2>5, <2>7, <2>8, <2>9, <2>10 DEF Sound
  <2> QED
    BY <2>2, <2>11 DEF GoesOnWith, Over
<1>10. CASE t.op = "INSERT SELECT"
  <2>1. w = [t EXCEPT !.met = X, !.read = Y, !.at = "flags", !.phase = "run source"]
    BY <1>2, <1>3, <1>10
  <2>2. /\ w \in Statement /\ w.at = "flags" /\ w.op = t.op /\ w.seen = t.seen /\ w.rows = t.rows
        /\ w.disturbed = t.disturbed /\ w.touched = t.touched /\ w.read = Y /\ w.phase = "run source"
        /\ w.lost = t.lost
    BY <1>1, <2>1 DEF Statement, Places, Phases, Asking
  <2>3. Shaped(w)
    BY <1>10, <2>2 DEF Shaped, Asking
  <2>4. Excused(w) <=> Excused(t)
    BY <2>2 DEF Excused
  <2>5. ASSUME ~Excused(t)
        PROVE  /\ Fine(w, w.read, "SELECT", FALSE)
               /\ Expected(w, Security(v), v) \subseteq Let(Security(v), "INSERT", TRUE)
    <3>1. t.seen = {Security(v)} /\ Expressed(t, v)
      BY <1>6, <1>10, <2>5
    <3>2. Fit(t, t.source, "SELECT", FALSE)
      BY <1>1, <1>10, <3>1 DEF Expressed
    <3>3. t.source = Let(Security(v), "SELECT", FALSE)
      BY <3>1, <3>2 DEF Fit
    <3>4. Y \subseteq Let(Security(v), "SELECT", FALSE)
      BY <1>3, <1>10, <3>3 DEF SourceOf
    <3>5. Expected(w, Security(v), v) = X
      BY <1>2, <1>10, <2>2, <3>3 DEF Expected, NewRows, SourceOf
    <3>6. t.filter \subseteq Let(Security(v), "INSERT", TRUE)
      BY <1>8, <2>5, <3>1 DEF Fit
    <3> QED
      BY <1>7, <2>2, <2>5, <3>1, <3>4, <3>5, <3>6 DEF Fine
  <2>6. ~Excused(t) => Expressed(w, v)
    BY <1>10, <2>2, <2>5 DEF Expressed
  <2>7. HasAsked(w)
    BY <2>2 DEF HasAsked
  <2>8. Sound(w, v)
    BY <1>5, <1>6, <1>10, <2>2, <2>3, <2>4, <2>5, <2>6, <2>7 DEF Sound
  <2> QED
    BY <2>2, <2>8 DEF GoesOnWith, Over
<1> QED
  BY <1>9, <1>10

\* The policies for UPDATE are gathered before an upsert runs.
LEMMA UpsertGathered ==
  ASSUME NEW v, NEW t, WorksAt(t, v, "upsert"), NEW w,
         w = [t EXCEPT !.at = "check upsert", !.filter = combineRLS(gatherPolicies(v, "UPDATE"), TRUE)]
  PROVE  GoesOnWith(w, v)
<1>1. t \in Statement /\ t.at = "upsert" /\ Sound(t, v)
  BY DEF WorksAt
<1>2. PICK e : e = combineRLS(gatherPolicies(v, "UPDATE"), TRUE)
  OBVIOUS
<1>3. /\ e \in SUBSET Row /\ e \subseteq Let(Security(v), "UPDATE", TRUE)
      /\ ~FreeIn(Security(v)) => e = Let(Security(v), "UPDATE", TRUE)
  BY <1>2, CombinedFit
<1>4. w = [t EXCEPT !.at = "check upsert", !.filter = e]
  BY <1>2
<1>5. /\ w \in Statement /\ Same(t, w) /\ w.at = "check upsert" /\ w.phase = t.phase /\ w.filter = e
  BY <1>1, <1>3, <1>4 DEF Statement, Same, Places
<1>6. w.op = t.op /\ w.seen = t.seen
  BY <1>5 DEF Same
<1>7. t.op = "UPSERT" /\ t.phase = "check"
  BY <1>1, StatementTyped DEF Sound, Shaped, Phases, Asking, Listing
<1>8. Shaped(w)
  BY <1>5, <1>6, <1>7 DEF Shaped
<1>9. Security(v) \in t.seen /\ (~Excused(t) => HasAsked(t))
  BY <1>1 DEF Sound
<1>10. ~Excused(t) => \A m \in t.seen : t.seen = {m} => ~FreeIn(m)
  BY <1>1, <1>9 DEF HasAsked
<1>11. ~Excused(t) => Fit(w, e, "UPDATE", TRUE)
  BY <1>3, <1>6, <1>9, <1>10 DEF Fit
<1>12. ~Excused(t) => Expressed(w, v)
  BY <1>5, <1>6, <1>7, <1>11 DEF Expressed
<1>13. HasAsked(w)
  BY <1>5 DEF HasAsked
<1>14. Sound(w, v)
  BY <1>1, <1>5, <1>8, <1>12, <1>13, SameSound
<1> QED
  BY <1>5, <1>14 DEF GoesOnWith, Over

\* What the statement does: the rows it meets, and those it changes or adds.
MetBy(t, v) == IF t.op \in Inserts THEN NewRows(t, v) ELSE v.rows \cap t.rows
HitBy(t, v) == IF t.op \in Inserts THEN MetBy(t, v) ELSE MetBy(t, v) \cap t.filter

\* It changes and adds what was permitted.
LEMMA HitPermitted ==
  ASSUME NEW v, NEW t, WorksAt(t, v, "run"), t.op # "UPSERT", ~Excused(t),
         NEW X, X = MetBy(t, v), NEW H, H = HitBy(t, v)
  PROVE  /\ \E m \in t.seen : H \subseteq Permitted(m, t)
         /\ \A m \in t.seen : t.seen = {m} =>
              IF t.op \in Filtered THEN H = X \cap Permitted(m, t) ELSE X \subseteq Permitted(m, t)
<1>1. t \in Statement /\ t.at = "run" /\ Sound(t, v) /\ Shaped(t)
  BY DEF WorksAt, Sound
<1>2. Expressed(t, v) /\ (t.op = "INSERT SELECT" => t.seen = {Security(v)})
  BY <1>1 DEF Sound
<1>3. t.phase \in Phases
  BY <1>1, StatementTyped
<1>4. CASE t.phase = "filter"
  <2>1. t.op \in Filtered /\ t.op \notin Inserts
    BY <1>1, <1>4 DEF Shaped, Filtered, Inserts, Listing
  <2>2. H = X \cap t.filter
    BY <2>1 DEF HitBy, MetBy
  <2>3. Fit(t, t.filter, t.op, FALSE)
    BY <1>1, <1>2, <1>4 DEF Expressed
  <2>4. \A m : Permitted(m, t) = Let(m, t.op, FALSE)
    BY <2>1, PermittedIs
  <2> QED
    <3>1. \E m \in t.seen : t.filter \subseteq Permitted(m, t)
      BY <2>3, <2>4 DEF Fit
    <3>2. \A m \in t.seen : t.seen = {m} => Permitted(m, t) = t.filter
      BY <2>3, <2>4 DEF Fit
    <3> QED
      BY <2>1, <2>2, <3>1, <3>2
<1>5. CASE t.phase = "check"
  <2>1. t.op = "INSERT VALUES"
    BY <1>1, <1>5 DEF Shaped, Listing, Asking, Excused
  <2>2. X = t.rows /\ H = t.rows /\ t.op \notin Filtered
    BY <2>1 DEF HitBy, MetBy, NewRows, Inserts, Listing, Filtered
  <2>3. Fine(t, t.rows, "INSERT", TRUE)
    BY <1>1, <1>2, <2>1 DEF Expressed
  <2>4. \A m : Permitted(m, t) = Let(m, "INSERT", TRUE)
    BY <2>1, PermittedIs
  <2> QED
    BY <2>2, <2>3, <2>4 DEF Fine
<1>6. CASE t.phase = "run source"
  <2>1. t.op = "INSERT SELECT" /\ t.op \notin Filtered
    BY <1>1, <1>6 DEF Shaped, Filtered
  <2>2. H = X /\ X = NewRows(t, v)
    BY <2>1 DEF HitBy, MetBy, Inserts
  <2>3. Fit(t, t.source, "SELECT", FALSE) /\ t.seen = {Security(v)}
    BY <1>1, <1>2, <2>1 DEF Expressed
  <2>4. t.source = Let(Security(v), "SELECT", FALSE)
    BY <2>3 DEF Fit
  <2>5. X = Expected(t, Security(v), v)
    BY <2>1, <2>2, <2>4 DEF NewRows, SourceOf, Expected
  <2>6. X \subseteq Let(Security(v), "INSERT", TRUE)
    BY <1>2, <1>6, <2>5 DEF Expressed
  <2>7. Permitted(Security(v), t) = Let(Security(v), "INSERT", TRUE)
    BY <2>1, PermittedIs
  <2> QED
    BY <2>1, <2>2, <2>3, <2>6, <2>7
<1>7. CASE t.phase = "count source"
  BY <1>1, <1>7 DEF Shaped, Asking
<1> QED
  BY <1>3, <1>4, <1>5, <1>6, <1>7 DEF Phases

\* It reads what it may.
LEMMA SourceReadable ==
  ASSUME NEW v, NEW t, WorksAt(t, v, "run"), ~Excused(t)
  PROVE  \E m \in t.seen : SourceOf(t, v) \subseteq Readable(m)
<1>1. t \in Statement /\ t.at = "run" /\ Security(v) \in t.seen /\ Expressed(t, v)
  BY DEF WorksAt, Sound
<1>2. CASE t.op = "INSERT SELECT"
  <2>1. Fit(t, t.source, "SELECT", FALSE)
    BY <1>1, <1>2 DEF Expressed
  <2>2. SourceOf(t, v) \subseteq t.source
    BY <1>2 DEF SourceOf
  <2> QED
    BY <2>1, <2>2, PermittedIs DEF Fit
<1>3. CASE t.op # "INSERT SELECT"
  <2>1. SourceOf(t, v) = {}
    BY <1>3 DEF SourceOf
  <2> QED
    BY <1>1, <2>1
<1> QED
  BY <1>2, <1>3

\* The statement runs.
LEMMA RunDone ==
  ASSUME NEW v \in TableVersion, NEW t, WorksAt(t, v, "run"), t.op # "UPSERT", NEW w,
         w = [t EXCEPT !.at = "done", !.met = MetBy(t, v), !.touched = HitBy(t, v), !.read = SourceOf(t, v)]
  PROVE  EndsAs(w)
<1>1. t \in Statement
  BY DEF WorksAt
<1>2. v.rows \in SUBSET Row
  BY DEF TableVersion
<1>3. PICK X \in SUBSET Row : X = MetBy(t, v)
  BY <1>1, <1>2, NewRowsTyped DEF MetBy
<1>4. PICK H \in SUBSET Row : H = HitBy(t, v)
  BY <1>3 DEF HitBy
<1>5. PICK Y \in SUBSET Row : Y = SourceOf(t, v)
  BY <1>1, NewRowsTyped
<1>6. w = [t EXCEPT !.at = "done", !.met = X, !.touched = H, !.read = Y]
  BY <1>3, <1>4, <1>5
<1>7. /\ w \in Statement /\ w.at = "done" /\ w.op = t.op /\ w.seen = t.seen /\ w.disturbed = t.disturbed
      /\ w.touched = H /\ w.met = X /\ w.read = Y /\ w.lost = t.lost
  <2>1. w \in Statement
    <3>1. "done" \in Places
      BY DEF Places, Over
    <3> QED
      BY <1>1, <1>6, <3>1 DEF Statement
  <2> QED
    BY <1>1, <1>6, <2>1 DEF Statement
<1>8. ASSUME ~Excused(t) PROVE Proper(w)
  <2>1. /\ \E m \in t.seen : H \subseteq Permitted(m, t)
        /\ \A m \in t.seen : t.seen = {m} =>
             IF t.op \in Filtered THEN H = X \cap Permitted(m, t) ELSE X \subseteq Permitted(m, t)
    BY <1>3, <1>4, <1>8, HitPermitted
  <2>2. \E m \in t.seen : Y \subseteq Readable(m)
    BY <1>5, <1>8, SourceReadable
  <2>3. \A m : Permitted(m, w) = Permitted(m, t)
    BY <1>7 DEF Permitted
  <2> QED
    BY <1>7, <2>1, <2>2, <2>3 DEF Proper
<1>9. Excused(w) <=> Excused(t)
  BY <1>7 DEF Excused
<1>10. Proper(w)
  BY <1>8, <1>9 DEF Proper
<1> QED
  BY <1>7, <1>10 DEF EndsAs, Over

\* An upsert that is not checked is that of a role which was free at some moment; else
\* the rows it leaves must pass the policies for UPDATE.
LEMMA UpsertDone ==
  ASSUME NEW v, NEW t, WorksAt(t, v, "run") \/ WorksAt(t, v, "check upsert"), t.op = "UPSERT",
         NEW X \in SUBSET Row, NEW w,
         \/ /\ t.at = "run" \/ X \subseteq t.filter
            /\ w = [t EXCEPT !.met = X, !.at = "done", !.touched = X]
         \/ /\ ~(t.at = "run" \/ X \subseteq t.filter)
            /\ w = [t EXCEPT !.met = X, !.at = "rejected"]
  PROVE  EndsAs(w)
<1> DEFINE stays == t.at = "run" \/ X \subseteq t.filter
<1>1. t \in Statement /\ t.at \in {"run", "check upsert"} /\ Sound(t, v)
  BY DEF WorksAt
<1>2. t.touched = {} /\ t.seen # {}
  BY <1>1 DEF Sound
<1>3. ~Excused(t) => /\ t.at = "run" => Fine(t, Row, "UPDATE", TRUE)
                     /\ t.at = "check upsert" => Fit(t, t.filter, "UPDATE", TRUE)
                     /\ Fine(t, t.read, "SELECT", FALSE)
  BY <1>1 DEF Sound, Expressed
<1>4. /\ w \in Statement /\ w.op = t.op /\ w.seen = t.seen /\ w.disturbed = t.disturbed
      /\ w.met = X /\ w.read = t.read /\ w.lost = t.lost
      /\ IF stays THEN w.at = "done" /\ w.touched = X ELSE w.at = "rejected" /\ w.touched = {}
  <2>1. CASE stays
    <3>1. w = [t EXCEPT !.met = X, !.at = "done", !.touched = X]
      BY <2>1
    <3>2. w \in Statement
      BY <1>1, <3>1 DEF Statement, Places, Over
    <3> QED
      BY <1>1, <2>1, <3>1, <3>2 DEF Statement
  <2>2. CASE ~stays
    <3>1. w = [t EXCEPT !.met = X, !.at = "rejected"]
      BY <2>2
    <3>2. w \in Statement
      BY <1>1, <3>1 DEF Statement, Places, Over
    <3> QED
      BY <1>1, <1>2, <2>2, <3>1, <3>2 DEF Statement
  <2> QED
    BY <2>1, <2>2
<1>5. Excused(w) <=> Excused(t)
  BY <1>4 DEF Excused
<1>6. \A m : Permitted(m, w) = Let(m, "UPDATE", TRUE) /\ Readable(m) = Let(m, "SELECT", FALSE)
  <2>1. w.op = "UPSERT"
    BY <1>4
  <2> QED
    BY <2>1, PermittedIs
<1>7. w.op \notin Filtered
  BY <1>4 DEF Filtered
<1>8. ASSUME ~Excused(t) PROVE Proper(w)
  <2>1. \E m \in w.seen : w.read \subseteq Readable(m)
    BY <1>3, <1>4, <1>6, <1>8 DEF Fine
  <2>2. CASE stays
    <3>1. \E m \in w.seen : X \subseteq Let(m, "UPDATE", TRUE)
      <4>1. CASE t.at = "run"
        BY <1>3, <1>4, <1>8, <4>1 DEF Fine
      <4>2. CASE t.at # "run"
        <5>1. Fit(t, t.filter, "UPDATE", TRUE) /\ X \subseteq t.filter
          BY <1>1, <1>3, <1>8, <2>2, <4>2
        <5> QED
          BY <1>4, <5>1 DEF Fit
      <4> QED
        BY <4>1, <4>2
    <3>2. \E m \in w.seen : w.touched \subseteq Permitted(m, w)
      BY <1>4, <1>6, <2>2, <3>1
    <3>3. ASSUME NEW m \in w.seen, w.seen = {m} PROVE w.met \subseteq Permitted(m, w)
      <4>1. X \subseteq Let(m, "UPDATE", TRUE)
        BY <3>1, <3>3
      <4> QED
        BY <1>4, <1>6, <4>1
    <3> QED
      BY <1>4, <1>7, <2>1, <2>2, <3>2, <3>3 DEF Proper
  <2>3. CASE ~stays
    <3>1. \A m \in w.seen : w.seen = {m} => ~(w.met \subseteq Permitted(m, w))
      <4>1. \A m \in t.seen : t.seen = {m} => Let(m, "UPDATE", TRUE) \subseteq t.filter
        BY <1>1, <1>3, <1>8, <2>3 DEF Fit
      <4>2. w.seen = t.seen /\ w.met = X
        BY <1>4
      <4>3. ASSUME NEW m \in w.seen, w.seen = {m}, w.met \subseteq Permitted(m, w) PROVE FALSE
        <5>1. X \subseteq Let(m, "UPDATE", TRUE)
          BY <1>6, <4>2, <4>3
        <5>2. Let(m, "UPDATE", TRUE) \subseteq t.filter
          BY <4>1, <4>2, <4>3
        <5> QED
          BY <2>3, <5>1, <5>2
      <4> QED
        BY <4>3
    <3>2. \E m \in w.seen : w.touched \subseteq Permitted(m, w)
      BY <1>2, <1>4, <2>3
    <3> QED
      BY <1>4, <1>7, <2>1, <2>3, <3>1, <3>2 DEF Proper
  <2> QED
    BY <2>2, <2>3
<1>9. Proper(w)
  BY <1>5, <1>8 DEF Proper
<1> QED
  BY <1>4, <1>9 DEF EndsAs, Over

\* A statement that fails has changed nothing.
LEMMA FailedEnds ==
  ASSUME NEW v, NEW t \in Statement, Sound(t, v), NEW w, w = [t EXCEPT !.at = "failed"]
  PROVE  EndsAs(w)
<1>1. /\ w \in Statement /\ w.at = "failed" /\ w.op = t.op /\ w.seen = t.seen /\ w.disturbed = t.disturbed
      /\ w.touched = t.touched /\ w.read = t.read /\ w.lost = t.lost
  BY DEF Statement, Places, Over
<1>2. t.touched = {} /\ t.seen # {} /\ (~Excused(t) => Fine(t, t.read, "SELECT", FALSE))
  BY DEF Sound
<1>3. ~Excused(w) => \E m \in w.seen : w.read \subseteq Readable(m)
  BY <1>1, <1>2, PermittedIs DEF Fine, Excused
<1> QED
  BY <1>1, <1>2, <1>3 DEF EndsAs, Over, Proper

-----------------------------------------------------------------------------
(* The others' statements.                                                 *)

\* What a version says of security.
LEMMA SecurityTyped ==
  ASSUME NEW v \in TableVersion
  PROVE  Security(v) \in SecurityState
BY DEF Security, SecurityState, TableVersion

\* What was permitted at some moment still was, once another has come.
LEMMA SeenMore ==
  ASSUME NEW t, NEW u, NEW n, t.seen # {}, u.seen = t.seen \cup {n}, NEW X, NEW c, NEW k
  PROVE  (Fit(t, X, c, k) => Fit(u, X, c, k)) /\ (Fine(t, X, c, k) => Fine(u, X, c, k))
<1>1. \A m : u.seen = {m} => t.seen = {m}
  OBVIOUS
<1> QED
  BY <1>1 DEF Fit, Fine

\* A statement that runs meets a version that another session has committed: it stays
\* sound.
LEMMA MetSound ==
  ASSUME NEW t \in Statement, t.at \notin Over, Sound(t, db), NEW v \in TableVersion, v # db,
         NEW u, u = Meet(t, v)
  PROVE  u \in Statement /\ u.at \notin Over /\ Sound(u, v)
<1>1. PICK d \in BOOLEAN : d <=> \/ t.disturbed \/ v.standing.owner # db.standing.owner
                                 \/ (t.op = "INSERT SELECT" /\ v # db)
  OBVIOUS
<1>2. u = [t EXCEPT !.seen = t.seen \cup {Security(v)}, !.disturbed = d]
  BY <1>1 DEF Meet
<1>3. t.seen \cup {Security(v)} \in SUBSET SecurityState
  BY StatementTyped, SecurityTyped
<1>4. /\ u \in Statement /\ u.op = t.op /\ u.rows = t.rows /\ u.at = t.at /\ u.phase = t.phase
      /\ u.forced = t.forced /\ u.filter = t.filter /\ u.source = t.source /\ u.provided = t.provided
      /\ u.touched = t.touched /\ u.read = t.read
      /\ u.seen = t.seen \cup {Security(v)} /\ u.disturbed = d /\ u.lost = t.lost
  BY <1>2, <1>3 DEF Statement
<1>5. Shaped(t) /\ Security(db) \in t.seen /\ t.touched = {}
  BY DEF Sound
<1>6. Shaped(u) /\ Security(v) \in u.seen /\ u.touched = {}
  BY <1>4, <1>5 DEF Shaped
<1>7. ASSUME ~Excused(u)
      PROVE  /\ \A m \in u.seen : m.standing.owner = v.standing.owner
             /\ u.op # "INSERT SELECT"
             /\ HasAsked(u) /\ Expressed(u, v)
             /\ Fine(u, u.read, "SELECT", FALSE)
  <2>1. ~Excused(t) /\ v.standing.owner = db.standing.owner /\ t.op # "INSERT SELECT"
    BY <1>1, <1>4, <1>7 DEF Excused
  <2>2. /\ \A m \in t.seen : m.standing.owner = db.standing.owner
        /\ HasAsked(t) /\ Expressed(t, db) /\ Fine(t, t.read, "SELECT", FALSE)
    BY <2>1 DEF Sound
  <2>3. Security(v).standing.owner = v.standing.owner
    BY DEF Security
  <2>4. \A m : u.seen = {m} => t.seen = {m}
    BY <1>4, <1>5
  <2>5. HasAsked(u)
    BY <1>4, <2>2, <2>4 DEF HasAsked
  <2>6. NewRows(u, v) = NewRows(t, db)
    BY <1>4, <2>1 DEF NewRows
  <2>7. \A X, c, k : Fit(t, X, c, k) => Fit(u, X, c, k)
    BY <1>4, <1>5, SeenMore
  <2>8. \A X, c, k : Fine(t, X, c, k) => Fine(u, X, c, k)
    BY <1>4, <1>5, SeenMore
  <2>9. t.phase # "run source"
    BY <1>5, <2>1 DEF Shaped
  <2>10. Expressed(u, v)
    BY <1>4, <2>1, <2>2, <2>6, <2>7, <2>8, <2>9 DEF Expressed
  <2> QED
    BY <1>4, <2>1, <2>2, <2>3, <2>5, <2>8, <2>10
<1> QED
  BY <1>4, <1>6, <1>7 DEF Sound

-----------------------------------------------------------------------------
(* The steps.                                                              *)

\* What the invariant says of one session.
OfSession(x) ==
  IF Running(x) THEN x \in Subjects /\ Sound(stmt[x], View(x)) ELSE Proper(stmt[x])

\* The invariant, session by session.
LEMMA InvIs == RlsInv <=> RlsTyped /\ \A x \in Session : OfSession(x)
BY DEF RlsInv, OfSession

\* The version a session sees.
LEMMA ViewTyped ==
  ASSUME RlsTyped, NEW s \in Session
  PROVE  View(s) \in TableVersion
BY DEF RlsTyped, View

\* A session goes on with a statement that is sound or proper; the others see what they
\* saw, or what is committed now.
LEMMA GoesOnKeeps ==
  ASSUME RlsInv, NEW s \in Session, NEW t \in Statement, GoesOn(s, t),
         db' \in TableVersion, work' \in TableVersion, writer' \in Session \cup {NoSession},
         failed' \in BOOLEAN,
         NEW v, v = View(s)',
         t.at \in Over => Proper(t),
         t.at \notin Over => s \in Subjects /\ Sound(t, v),
         \A x \in Session \ {s} :
           /\ db' = db => View(x)' = View(x)
           /\ db' # db => View(x)' = db' /\ View(x) = db
  PROVE  RlsInv'
<1>1. stmt \in [Session -> Statement] /\ \A x \in Session : OfSession(x)
  BY InvIs DEF RlsTyped
<1>2. stmt' = [x \in Session |-> IF x = s THEN t ELSE IF db' = db THEN stmt[x] ELSE Meet(stmt[x], db')]
  BY DEF GoesOn
<1>3. stmt'[s] = t
  BY <1>2
<1>4. OfSession(s)'
  BY <1>3 DEF OfSession, Running
<1>5. ASSUME NEW x \in Session \ {s}
      PROVE  stmt'[x] \in Statement /\ OfSession(x)'
  <2>1. stmt[x] \in Statement /\ OfSession(x)
    BY <1>1
  <2>2. CASE db' = db
    <3>1. stmt'[x] = stmt[x] /\ View(x)' = View(x)
      BY <1>2, <2>2
    <3> QED
      BY <2>1, <3>1 DEF OfSession, Running
  <2>3. CASE db' # db /\ ~Running(x)
    <3>1. stmt'[x] = Meet(stmt[x], db')
      BY <1>2, <2>3
    <3>2. stmt'[x] = stmt[x]
      BY <2>3, <3>1 DEF Meet, Running
    <3> QED
      BY <2>1, <2>3, <3>2 DEF OfSession, Running
  <2>4. CASE db' # db /\ Running(x)
    <3>1. stmt'[x] = Meet(stmt[x], db')
      BY <1>2, <2>4
    <3>2. View(x)' = db' /\ View(x) = db
      BY <2>4
    <3>3. stmt[x].at \notin Over /\ Sound(stmt[x], db) /\ x \in Subjects
      BY <2>1, <2>4, <3>2 DEF OfSession, Running
    <3>4. PICK w \in TableVersion : w = db'
      OBVIOUS
    <3>5. PICK u : u = Meet(stmt[x], w)
      OBVIOUS
    <3>6. u \in Statement /\ u.at \notin Over /\ Sound(u, w)
      BY <2>1, <2>4, <3>3, <3>4, <3>5, MetSound
    <3>7. stmt'[x] = u /\ View(x)' = w
      BY <3>1, <3>2, <3>4, <3>5
    <3> QED
      BY <3>3, <3>6, <3>7 DEF OfSession, Running
  <2> QED
    BY <2>2, <2>3, <2>4
<1>6. stmt' \in [Session -> Statement]
  <2>1. \A x \in Session : stmt'[x] \in Statement
    BY <1>3, <1>5
  <2> QED
    BY <1>2, <2>1
<1>7. RlsTyped'
  BY <1>6 DEF RlsTyped
<1>8. \A x \in Session : OfSession(x)'
  BY <1>4, <1>5
<1> QED
  BY <1>7, <1>8 DEF RlsInv, OfSession

\* A session that reads only: the file stays as it is.
LEMMA ReadsKeeps ==
  ASSUME RlsInv, NEW s \in Session, NEW t \in Statement, UNCHANGED txVars,
         stmt' = [stmt EXCEPT ![s] = t] \/ GoesOn(s, t),
         t.at \in Over => Proper(t),
         t.at \notin Over => s \in Subjects /\ Sound(t, View(s))
  PROVE  RlsInv'
<1>1. RlsTyped /\ stmt \in [Session -> Statement]
  BY DEF RlsInv, RlsTyped
<1>2. db' = db /\ work' = work /\ writer' = writer /\ failed' = failed
  BY DEF txVars
<1>3. GoesOn(s, t)
  BY <1>1, <1>2 DEF GoesOn
<1>4. \A x \in Session : View(x)' = View(x)
  BY <1>2 DEF View
<1>5. PICK v : v = View(s)'
  OBVIOUS
<1>6. v = View(s)
  BY <1>4, <1>5
<1>7. /\ db' \in TableVersion /\ work' \in TableVersion /\ writer' \in Session \cup {NoSession}
      /\ failed' \in BOOLEAN
  BY <1>1, <1>2 DEF RlsTyped
<1> QED
  BY <1>2, <1>3, <1>4, <1>5, <1>6, <1>7, GoesOnKeeps

\* A session that is not running writes, or a statement ends with what it writes.
LEMMA WriteKeeps ==
  ASSUME RlsInv, NEW s \in Session, NEW v \in TableVersion, Write(s, v),
         NEW t \in Statement, GoesOn(s, t), t.at \in Over, Proper(t)
  PROVE  RlsInv'
<1>1. RlsTyped
  BY DEF RlsInv
<1>2. /\ db' \in TableVersion /\ work' \in TableVersion /\ writer' \in Session \cup {NoSession}
      /\ failed' \in BOOLEAN
  BY <1>1 DEF RlsTyped, Write
<1>3. \A x \in Session \ {s} : View(x) = db /\ View(x)' = db'
  BY ConnectionsAssumption DEF Write, MayWrite, View
<1>4. PICK w : w = View(s)'
  OBVIOUS
<1> QED
  BY <1>2, <1>3, <1>4, GoesOnKeeps

\* A session's statement fails.
LEMMA FailureKeeps ==
  ASSUME RlsInv, NEW s \in Session, Failure(s),
         NEW t \in Statement, GoesOn(s, t), t.at \in Over, Proper(t)
  PROVE  RlsInv'
<1>1. RlsTyped
  BY DEF RlsInv
<1>2. db' = db /\ work' = work /\ writer' = writer /\ failed' \in BOOLEAN
  BY <1>1 DEF RlsTyped, Failure
<1>3. \A x \in Session : View(x)' = View(x)
  BY <1>2 DEF View
<1>4. PICK w : w = View(s)'
  OBVIOUS
<1>5. db' \in TableVersion /\ work' \in TableVersion /\ writer' \in Session \cup {NoSession}
  BY <1>1, <1>2 DEF RlsTyped
<1> QED
  BY <1>2, <1>3, <1>4, <1>5, GoesOnKeeps

\* A query of a handler.
LEMMA QueryKeeps ==
  ASSUME RlsInv, NEW s \in Session, s \in Subjects, NEW a, NEW t, Query(s, a, t), GoesOnWith(t, View(s))
  PROVE  RlsInv'
BY ReadsKeeps DEF Query, GoesOnWith

\* What is known of a statement that runs.
LEMMA RunningSound ==
  ASSUME RlsInv, NEW s \in Session, stmt[s].at \notin Over
  PROVE  /\ s \in Subjects /\ stmt[s] \in Statement /\ Sound(stmt[s], View(s))
         /\ View(s) \in TableVersion
BY ViewTyped DEF RlsInv, RlsTyped, Running

\* And of one that does not.
LEMMA OverProper ==
  ASSUME RlsInv, NEW s \in Session, ~Running(s)
  PROVE  stmt[s] \in Statement /\ stmt[s].at \in Over /\ Proper(stmt[s])
BY DEF RlsInv, RlsTyped, Running

\* A statement is asked for.
LEMMA AskKeeps ==
  ASSUME RlsInv, NEW s \in Subjects, s \in Session, NEW op \in Inserts \cup Filtered, NEW rows \in Wheres,
         Ask(s, op, rows)
  PROVE  RlsInv'
<1>1. PICK v \in TableVersion : v = View(s)
  BY ViewTyped DEF RlsInv
<1>2. PICK p \in {"check", "filter"} : p = IF op \in Inserts THEN "check" ELSE "filter"
  OBVIOUS
<1>3. PICK t : t = [Idle EXCEPT !.op = op, !.rows = rows, !.at = "flags", !.phase = p,
                                !.filter = Row, !.source = Row, !.seen = {Security(v)}]
  OBVIOUS
<1>4. stmt' = [stmt EXCEPT ![s] = t] /\ UNCHANGED txVars
  BY <1>1, <1>2, <1>3 DEF Ask
<1>5. rows \in SUBSET Row /\ {Security(v)} \in SUBSET SecurityState
  BY RowSecurityAssumption, SecurityTyped
<1>6. Idle \in Statement
  BY DEF Idle, Statement, Places, Over, Phases
<1>7. /\ t \in Statement /\ t.op = op /\ t.rows = rows /\ t.at = "flags" /\ t.phase = p
      /\ t.touched = {} /\ t.read = {} /\ t.seen = {Security(v)}
  BY <1>3, <1>5, <1>6 DEF Idle, Statement, Places, Asking, Phases
<1>8. Shaped(t)
  BY <1>2, <1>7 DEF Shaped, Inserts, Listing, Filtered, Asking
<1>9. HasAsked(t) /\ Expressed(t, v)
  BY <1>2, <1>7 DEF HasAsked, Expressed
<1>10. Fine(t, t.read, "SELECT", FALSE)
  BY <1>7 DEF Fine
<1>11. \A m \in t.seen : m.standing.owner = v.standing.owner
  BY <1>7 DEF Security
<1>12. Sound(t, v)
  BY <1>7, <1>8, <1>9, <1>10, <1>11 DEF Sound
<1>13. t.at \notin Over
  BY <1>7 DEF Over
<1> QED
  BY <1>1, <1>4, <1>7, <1>12, <1>13, ReadsKeeps

\* The queries a handler starts with.
LEMMA AsksKeeps ==
  ASSUME RlsInv, NEW s \in Session,
         ReadFlags(s) \/ roleBypasses(s) \/ hasBypassRLS(s) \/ ownsTable(s) \/ ReadPolicies(s)
  PROVE  RlsInv'
<1> DEFINE t == stmt[s]
           v == View(s)
<1>1. ASSUME t.at \in Asking PROVE s \in Subjects /\ AsksAt(t, v)
  BY <1>1, RunningSound DEF AsksAt, Asking, Over
<1>2. CASE ReadFlags(s)
  <2>1. PICK w : w = IF \A x \in v.flags : ~x.enabled THEN Free(t)
                     ELSE [t EXCEPT !.at = "super", !.forced = \E x \in v.flags : x.forced]
    OBVIOUS
  <2>2. Query(s, "flags", w)
    BY <1>2, <2>1 DEF ReadFlags
  <2>3. t.at = "flags"
    BY <2>2 DEF Query
  <2>4. s \in Subjects /\ AsksAt(t, v)
    BY <1>1, <2>3 DEF Asking
  <2> HIDE DEF t, v
  <2>5. GoesOnWith(w, v)
    BY <2>1, <2>3, <2>4, FlagsAsked
  <2> QED
    BY <2>2, <2>4, <2>5, QueryKeeps DEF v
<1>3. CASE roleBypasses(s)
  <2>1. PICK w : w = IF v.standing.super THEN Free(t) ELSE [t EXCEPT !.at = "bypass"]
    OBVIOUS
  <2>2. Query(s, "super", w)
    BY <1>3, <2>1 DEF roleBypasses
  <2>3. t.at = "super"
    BY <2>2 DEF Query
  <2>4. s \in Subjects /\ AsksAt(t, v)
    BY <1>1, <2>3 DEF Asking
  <2> HIDE DEF t, v
  <2>5. GoesOnWith(w, v)
    BY <2>1, <2>3, <2>4, SuperAsked
  <2> QED
    BY <2>2, <2>4, <2>5, QueryKeeps DEF v
<1>4. CASE hasBypassRLS(s)
  <2>1. PICK w : w = IF v.standing.bypass THEN Free(t) ELSE NoBypass(t)
    OBVIOUS
  <2>2. Query(s, "bypass", w)
    BY <1>4, <2>1 DEF hasBypassRLS
  <2>3. t.at = "bypass"
    BY <2>2 DEF Query
  <2>4. s \in Subjects /\ AsksAt(t, v)
    BY <1>1, <2>3 DEF Asking
  <2> HIDE DEF t, v
  <2>5. GoesOnWith(w, v)
    BY <2>1, <2>3, <2>4, BypassAsked
  <2> QED
    BY <2>2, <2>4, <2>5, QueryKeeps DEF v
<1>5. CASE ownsTable(s)
  <2>1. PICK w : w = IF v.standing.owner THEN Free(t) ELSE [t EXCEPT !.at = "policies"]
    OBVIOUS
  <2>2. Query(s, "owner", w)
    BY <1>5, <2>1 DEF ownsTable
  <2>3. t.at = "owner"
    BY <2>2 DEF Query
  <2>4. s \in Subjects /\ AsksAt(t, v)
    BY <1>1, <2>3 DEF Asking
  <2> HIDE DEF t, v
  <2>5. GoesOnWith(w, v)
    BY <2>1, <2>3, <2>4, OwnerAsked
  <2> QED
    BY <2>2, <2>4, <2>5, QueryKeeps DEF v
<1>6. CASE ReadPolicies(s)
  <2>1. PICK w : w = Answered(t, combineRLS(gatherPolicies(v, Command(t)), Command(t) = "INSERT"), TRUE)
    OBVIOUS
  <2>2. Query(s, "policies", w)
    BY <1>6, <2>1 DEF ReadPolicies
  <2>3. t.at = "policies"
    BY <2>2 DEF Query
  <2>4. s \in Subjects /\ AsksAt(t, v)
    BY <1>1, <2>3 DEF Asking
  <2> HIDE DEF t, v
  <2>5. GoesOnWith(w, v)
    BY <2>1, <2>3, <2>4, PoliciesAsked
  <2> QED
    BY <2>2, <2>4, <2>5, QueryKeeps DEF v
<1> QED
  BY <1>2, <1>3, <1>4, <1>5, <1>6

\* The rows of an INSERT are counted, and how many pass.
LEMMA CountsKeeps ==
  ASSUME RlsInv, NEW s \in Session, CountProvided(s) \/ CountPassing(s) \/ GatherUpsert(s)
  PROVE  RlsInv'
<1> DEFINE t == stmt[s]
           v == View(s)
<1>1. ASSUME NEW a \in Places \ Over, t.at = a
      PROVE  s \in Subjects /\ WorksAt(t, v, a) /\ v \in TableVersion /\ t \in Statement
  BY <1>1, RunningSound DEF WorksAt
<1>2. CASE CountProvided(s)
  <2>1. PICK w : w = [t EXCEPT !.at = "pass", !.provided = Cardinality(NewRows(t, v))]
    OBVIOUS
  <2>2. Query(s, "provided", w)
    BY <1>2, <2>1 DEF CountProvided
  <2>3. t.at = "provided"
    BY <2>2 DEF Query
  <2>4. s \in Subjects /\ WorksAt(t, v, "provided")
    BY <1>1, <2>3 DEF Places, Over
  <2> HIDE DEF t, v
  <2>5. GoesOnWith(w, v)
    BY <2>1, <2>4, ProvidedCounted
  <2> QED
    BY <2>2, <2>4, <2>5, QueryKeeps DEF v
<1>3. CASE GatherUpsert(s)
  <2>1. PICK w : w = [t EXCEPT !.at = "check upsert",
                               !.filter = combineRLS(gatherPolicies(v, "UPDATE"), TRUE)]
    OBVIOUS
  <2>2. Query(s, "upsert", w)
    BY <1>3, <2>1 DEF GatherUpsert
  <2>3. t.at = "upsert"
    BY <2>2 DEF Query
  <2>4. s \in Subjects /\ WorksAt(t, v, "upsert")
    BY <1>1, <2>3 DEF Places, Over
  <2> HIDE DEF t, v
  <2>5. GoesOnWith(w, v)
    BY <2>1, <2>4, UpsertGathered
  <2> QED
    BY <2>2, <2>4, <2>5, QueryKeeps DEF v
<1>4. CASE CountPassing(s)
  <2> DEFINE fewer == t.op # "INSERT SOME COLUMNS" /\ Cardinality(NewRows(t, v) \cap t.filter) < t.provided
  <2>1. t.at = "pass"
    BY <1>4 DEF CountPassing
  <2>2. s \in Subjects /\ WorksAt(t, v, "pass") /\ t \in Statement
    BY <1>1, <2>1 DEF Places, Over
  <2>3. CASE fewer
    <3>1. PICK w : w = [t EXCEPT !.met = NewRows(t, v), !.read = SourceOf(t, v), !.at = "rejected"]
      OBVIOUS
    <3>2. Failure(s) /\ GoesOn(s, w)
      BY <1>4, <2>2, <2>3, <3>1 DEF CountPassing
    <3> HIDE DEF t, v
    <3>3. EndsAs(w)
      BY <2>2, <2>3, <3>1, Rejected
    <3> QED
      BY <3>2, <3>3, FailureKeeps DEF EndsAs
  <2>4. CASE ~fewer
    <3>1. PICK w : w = IF t.op = "INSERT SELECT"
                       THEN [t EXCEPT !.met = NewRows(t, v), !.read = SourceOf(t, v), !.at = "flags",
                                      !.phase = "run source"]
                       ELSE [t EXCEPT !.met = NewRows(t, v), !.read = SourceOf(t, v), !.at = "run"]
      OBVIOUS
    <3>2. UNCHANGED txVars /\ GoesOn(s, w)
      BY <1>4, <2>2, <2>4, <3>1 DEF CountPassing
    <3> HIDE DEF t, v
    <3>3. GoesOnWith(w, v)
      BY <2>2, <2>4, <3>1, Passed
    <3> QED
      BY <2>2, <3>2, <3>3, ReadsKeeps DEF GoesOnWith, v
  <2> QED
    BY <2>3, <2>4
<1> QED
  BY <1>2, <1>3, <1>4

\* The rows a statement leaves are rows.
LEMMA RowsWritten ==
  ASSUME NEW v \in TableVersion, NEW X \in SUBSET Row
  PROVE  [v EXCEPT !.rows = X] \in TableVersion
BY DEF TableVersion

\* The statement itself.
LEMMA RunKeeps ==
  ASSUME RlsInv, NEW s \in Session, Run(s)
  PROVE  RlsInv'
<1>1. stmt[s].at = "run" /\ stmt[s].op # "UPSERT"
  BY DEF Run
<1>2. PICK t \in Statement : t = stmt[s]
  BY <1>1, RunningSound DEF Over
<1>3. PICK v \in TableVersion : v = View(s)
  BY <1>1, RunningSound DEF Over
<1>4. WorksAt(t, v, "run")
  BY <1>1, <1>2, <1>3, RunningSound DEF WorksAt, Over
<1>5. PICK X : X = MetBy(t, v)
  OBVIOUS
<1>6. PICK H : H = HitBy(t, v)
  OBVIOUS
<1>7. PICK w : w = [t EXCEPT !.at = "done", !.met = X, !.touched = H, !.read = SourceOf(t, v)]
  OBVIOUS
<1>8. EndsAs(w)
  BY <1>1, <1>2, <1>4, <1>5, <1>6, <1>7, RunDone
<1>9. PICK kept : kept = CASE t.op = "SELECT" -> v.rows
                           [] t.op = "DELETE" -> v.rows \ H
                           [] t.op = "UPDATE" -> (v.rows \ H) \cup {Copy[r] : r \in H}
                           [] OTHER -> v.rows \cup H
  OBVIOUS
<1>10. /\ IF t.op = "SELECT" THEN UNCHANGED txVars ELSE Write(s, [v EXCEPT !.rows = kept])
       /\ GoesOn(s, w)
  BY <1>2, <1>3, <1>5, <1>6, <1>7, <1>9 DEF Run, MetBy, HitBy
<1>11. v.rows \in SUBSET Row
  BY DEF TableVersion
<1>12. H \in SUBSET Row
  <2>1. X \in SUBSET Row
    BY <1>5, <1>11, NewRowsTyped DEF MetBy
  <2> QED
    BY <1>5, <1>6, <2>1 DEF HitBy
<1>13. kept \in SUBSET Row
  <2>1. {Copy[r] : r \in H} \in SUBSET Row
    BY <1>12, RowSecurityAssumption
  <2>2. CASE t.op \in {"SELECT", "DELETE", "UPDATE"}
    BY <1>9, <1>11, <1>12, <2>1, <2>2
  <2>3. CASE t.op \notin {"SELECT", "DELETE", "UPDATE"}
    BY <1>9, <1>11, <1>12, <2>3
  <2> QED
    BY <2>2, <2>3
<1>14. CASE t.op = "SELECT"
  BY <1>8, <1>10, <1>14, ReadsKeeps DEF EndsAs
<1>15. CASE t.op # "SELECT"
  <2>1. PICK u \in TableVersion : u = [v EXCEPT !.rows = kept]
    BY <1>13, RowsWritten
  <2> QED
    BY <1>8, <1>10, <1>15, <2>1, WriteKeeps DEF EndsAs
<1> QED
  BY <1>14, <1>15

\* A handler goes on though a query of its own failed: nothing is claimed of its
\* statement any more.
LEMMA QueryFailsKeeps ==
  ASSUME RlsInv, NEW s \in Session, QueryFails(s)
  PROVE  RlsInv'
<1>1. PICK t : t = [stmt[s] EXCEPT !.lost = TRUE]
  OBVIOUS
<1>2. PICK v : v = View(s)
  OBVIOUS
<1>3. PICK k \in BOOLEAN : k = (Command(t) = "INSERT")
  OBVIOUS
<1>4. PICK u : u = IF t.op = "INSERT SELECT" THEN [t EXCEPT !.at = "flags", !.phase = "run source"]
                   ELSE [t EXCEPT !.at = "run"]
  OBVIOUS
<1>5. PICK a, w :
        /\ Query(s, a, w)
        /\ \/ a \in {"flags", "super"} /\ w = Free(t)
           \/ a = "bypass" /\ w = NoBypass(t)
           \/ a = "owner" /\ w = [t EXCEPT !.at = "policies"]
           \/ a = "policies" /\ \E P : w = Answered(t, combineRLS(P, k), TRUE)
           \/ a \in {"provided", "pass", "check upsert"} /\ w = u
           \/ a = "upsert" /\ w = [t EXCEPT !.at = "check upsert", !.filter = combineRLS({}, TRUE)]
  <2>1. CASE \E x \in {"flags", "super"} : Query(s, x, Free(t))
    BY <2>1
  <2>2. CASE Query(s, "bypass", NoBypass(t))
    BY <2>2
  <2>3. CASE Query(s, "owner", [t EXCEPT !.at = "policies"])
    BY <2>3
  <2>4. CASE \E P : Query(s, "policies", Answered(t, combineRLS(P, k), TRUE))
    BY <2>4
  <2>5. CASE \E x \in {"provided", "pass", "check upsert"} : Query(s, x, u)
    BY <2>5
  <2>6. CASE Query(s, "upsert", [t EXCEPT !.at = "check upsert", !.filter = combineRLS({}, TRUE)])
    BY <2>6
  <2> QED
    BY <1>1, <1>3, <1>4, <2>1, <2>2, <2>3, <2>4, <2>5, <2>6 DEF QueryFails
<1>6. stmt[s].at = a /\ a \notin Over
  BY <1>5 DEF Query, Over
<1>7. s \in Subjects /\ stmt[s] \in Statement /\ Sound(stmt[s], v)
  BY <1>2, <1>6, RunningSound
<1>8. /\ t \in Statement /\ t.at = a /\ Excused(t) /\ t.op = stmt[s].op /\ t.phase = stmt[s].phase
      /\ t.seen = stmt[s].seen /\ t.touched = stmt[s].touched
  BY <1>1, <1>6, <1>7 DEF Statement, Excused
<1>9. Shaped(t) /\ Security(v) \in t.seen /\ t.touched = {}
  BY <1>6, <1>7, <1>8 DEF Sound, Shaped
<1>10. Sound(t, v)
  BY <1>8, <1>9 DEF Sound
<1>11. \A P : combineRLS(P, k) \in SUBSET Row
  BY DEF combineRLS
<1>12. a \in Asking => AsksAt(t, v)
  BY <1>8, <1>10 DEF AsksAt
<1>13. CASE a \in {"flags", "super"}
  <2>1. w = Free(t)
    BY <1>5, <1>13
  <2>2. GoesOnWith(w, v)
    BY <1>8, <1>12, <1>13, <2>1, FreeSound DEF Asking
  <2> QED
    BY <1>2, <1>5, <1>7, <2>2, QueryKeeps
<1>14. CASE a \in {"bypass", "owner"}
  <2>1. PICK b \in {"policies", "owner"} : w = [t EXCEPT !.at = b]
    BY <1>5, <1>14 DEF NoBypass
  <2>2. b \in Places /\ b \in Asking
    BY DEF Places, Asking
  <2>3. w \in Statement /\ Same(t, w) /\ w.at = b /\ w.phase = t.phase /\ w.filter = t.filter
    BY <1>8, <2>1, <2>2 DEF Statement, Same
  <2>4. GoesOnWith(w, v)
    BY <1>8, <1>12, <1>14, <2>2, <2>3, AsksOn DEF Asking
  <2> QED
    BY <1>2, <1>5, <1>7, <2>4, QueryKeeps
<1>15. CASE a = "policies"
  <2>1. PICK P : w = Answered(t, combineRLS(P, k), TRUE)
    BY <1>5, <1>15
  <2>2. PICK e \in SUBSET Row : e = combineRLS(P, k)
    BY <1>11
  <2>3. w = Answered(t, e, TRUE)
    BY <2>1, <2>2
  <2>4. GoesOnWith(w, v)
    BY <1>8, <1>12, <1>15, <2>3, AnsweredSound DEF Asking
  <2> QED
    BY <1>2, <1>5, <1>7, <2>4, QueryKeeps
<1>16. CASE a \in {"provided", "pass", "check upsert"}
  <2>1. w = u
    BY <1>5, <1>16
  <2>2. w = [t EXCEPT !.at = "flags", !.phase = "run source"] \/ w = [t EXCEPT !.at = "run"]
    BY <1>4, <2>1
  <2>3. w \in Statement /\ Same(t, w)
    BY <1>8, <2>2 DEF Statement, Same, Places, Asking, Phases
  <2>4. /\ t.op = "INSERT SELECT" => w.at = "flags" /\ w.phase = "run source"
        /\ t.op # "INSERT SELECT" => w.at = "run" /\ w.phase = t.phase
    BY <1>4, <1>8, <2>1 DEF Statement
  <2>5. t.phase \in {"check", "count source"}
    BY <1>8, <1>9, <1>16, StatementTyped DEF Shaped, Phases, Asking
  <2>6. Shaped(w)
    <3>1. CASE t.op = "INSERT SELECT"
      BY <2>3, <2>4, <3>1 DEF Shaped, Same, Asking
    <3>2. CASE t.op # "INSERT SELECT"
      BY <1>8, <1>9, <1>16, <2>3, <2>4, <2>5, <3>2 DEF Shaped, Same, Asking
    <3> QED
      BY <3>1, <3>2
  <2>7. Sound(w, v)
    BY <1>8, <1>10, <2>3, <2>6, SameSound
  <2>8. GoesOnWith(w, v)
    BY <2>3, <2>4, <2>7 DEF GoesOnWith, Over
  <2> QED
    BY <1>2, <1>5, <1>7, <2>8, QueryKeeps
<1>17. CASE a = "upsert"
  <2>1. PICK e \in SUBSET Row : e = combineRLS({}, TRUE)
    BY DEF combineRLS
  <2>2. w = [t EXCEPT !.at = "check upsert", !.filter = e]
    BY <1>5, <1>17, <2>1
  <2>3. w \in Statement /\ Same(t, w) /\ w.at = "check upsert" /\ w.phase = t.phase
    BY <1>8, <2>2 DEF Statement, Same, Places
  <2>4. t.op = "UPSERT" /\ t.phase = "check"
    BY <1>8, <1>9, <1>17, StatementTyped DEF Shaped, Phases, Asking, Listing
  <2>5. Shaped(w)
    BY <2>3, <2>4 DEF Shaped, Same
  <2>6. Sound(w, v)
    BY <1>8, <1>10, <2>3, <2>5, SameSound
  <2>7. GoesOnWith(w, v)
    BY <2>3, <2>6 DEF GoesOnWith, Over
  <2> QED
    BY <1>2, <1>5, <1>7, <2>7, QueryKeeps
<1> QED
  BY <1>5, <1>13, <1>14, <1>15, <1>16, <1>17

\* An upsert, which is rolled back to its savepoint if a row may not stay.
LEMMA RunUpsertKeeps ==
  ASSUME RlsInv, NEW s \in Session, RunUpsert(s)
  PROVE  RlsInv'
<1> DEFINE t == stmt[s]
           v == View(s)
<1>1. t.at \in {"run", "check upsert"} /\ t.op = "UPSERT"
  BY DEF RunUpsert
<1>2. t \in Statement /\ v \in TableVersion
  BY <1>1, RunningSound DEF Over
<1>4. WorksAt(t, v, "run") \/ WorksAt(t, v, "check upsert")
  BY <1>1, <1>2, RunningSound DEF WorksAt, Over
<1>5. v.rows \in SUBSET Row /\ t.rows \in SUBSET Row
  BY <1>2, StatementTyped DEF TableVersion
<1>6. PICK taken \in SUBSET t.rows : \E old \in [taken -> v.rows] :
        LET added == t.rows \ taken
            met == added \cup {Copy[old[r]] : r \in taken}
            ended == [t EXCEPT !.met = met]
        IN IF t.at = "run" \/ met \subseteq t.filter
           THEN /\ Write(s, [v EXCEPT !.rows = (v.rows \ {old[r] : r \in taken}) \cup met])
                /\ GoesOn(s, [ended EXCEPT !.at = "done", !.touched = met])
           ELSE /\ Failure(s)
                /\ GoesOn(s, [ended EXCEPT !.at = "rejected"])
  BY DEF RunUpsert
<1> HIDE DEF t, v
<1>7. PICK old \in [taken -> v.rows] :
        LET added == t.rows \ taken
            met == added \cup {Copy[old[r]] : r \in taken}
            ended == [t EXCEPT !.met = met]
        IN IF t.at = "run" \/ met \subseteq t.filter
           THEN /\ Write(s, [v EXCEPT !.rows = (v.rows \ {old[r] : r \in taken}) \cup met])
                /\ GoesOn(s, [ended EXCEPT !.at = "done", !.touched = met])
           ELSE /\ Failure(s)
                /\ GoesOn(s, [ended EXCEPT !.at = "rejected"])
  BY <1>6
<1>8. PICK A \in SUBSET Row : A = t.rows \ taken
  BY <1>5
<1>9. {Copy[old[r]] : r \in taken} \in SUBSET Row
  <2>1. \A r \in taken : old[r] \in Row
    BY <1>5
  <2>2. \A r \in Row : Copy[r] \in Row
    BY RowSecurityAssumption
  <2> QED
    BY <2>1, <2>2
<1>10. PICK X \in SUBSET Row : X = A \cup {Copy[old[r]] : r \in taken}
  BY <1>9
<1>11. PICK kept \in SUBSET Row : kept = (v.rows \ {old[r] : r \in taken}) \cup X
  BY <1>5
<1>12. CASE t.at = "run" \/ X \subseteq t.filter
  <2>1. PICK w : w = [[t EXCEPT !.met = X] EXCEPT !.at = "done", !.touched = X]
    OBVIOUS
  <2>5. w = [t EXCEPT !.met = X, !.at = "done", !.touched = X]
    BY <2>1
  <2>2. PICK u \in TableVersion : u = [v EXCEPT !.rows = kept]
    BY <1>2, RowsWritten
  <2>3. Write(s, u) /\ GoesOn(s, w)
    BY <1>7, <1>8, <1>10, <1>11, <1>12, <2>1, <2>2
  <2>4. EndsAs(w)
    BY <1>1, <1>2, <1>4, <1>12, <2>5, UpsertDone
  <2> QED
    BY <2>3, <2>4, WriteKeeps DEF EndsAs
<1>13. CASE ~(t.at = "run" \/ X \subseteq t.filter)
  <2>1. PICK w : w = [[t EXCEPT !.met = X] EXCEPT !.at = "rejected"]
    OBVIOUS
  <2>4. w = [t EXCEPT !.met = X, !.at = "rejected"]
    BY <2>1
  <2>2. Failure(s) /\ GoesOn(s, w)
    BY <1>7, <1>8, <1>10, <1>13, <2>1
  <2>3. EndsAs(w)
    BY <1>1, <1>2, <1>4, <1>13, <2>4, UpsertDone
  <2> QED
    BY <2>2, <2>3, FailureKeeps DEF EndsAs
<1> QED
  BY <1>12, <1>13

\* A statement that cannot have the write lock.
LEMMA RunFailsKeeps ==
  ASSUME RlsInv, NEW s \in Session, RunFails(s)
  PROVE  RlsInv'
<1>1. stmt[s].at \notin Over
  BY DEF RunFails, Over
<1>2. PICK w : w = [stmt[s] EXCEPT !.at = "failed"]
  OBVIOUS
<1>3. Failure(s) /\ GoesOn(s, w)
  BY <1>2 DEF RunFails, Fails
<1>4. stmt[s] \in Statement /\ Sound(stmt[s], View(s))
  BY <1>1, RunningSound
<1>5. EndsAs(w)
  BY <1>2, <1>4, FailedEnds
<1> QED
  BY <1>3, <1>5, FailureKeeps DEF EndsAs

\* A superuser changes the table or the role.
LEMMA ChangeKeeps ==
  ASSUME RlsInv, NEW s \in Session, s \notin Subjects, NEW v \in TableVersion, Change(s, v)
  PROVE  RlsInv'
<1>1. ~Running(s)
  BY DEF RlsInv
<1>2. stmt[s] \in Statement /\ stmt[s].at \in Over /\ Proper(stmt[s])
  BY <1>1, OverProper
<1>3. PICK t : t = stmt[s]
  OBVIOUS
<1>4. Write(s, v) /\ GoesOn(s, t)
  BY <1>3 DEF Change
<1> QED
  BY <1>2, <1>3, <1>4, WriteKeeps

\* What it makes of them is a version.
LEMMA SuperKeeps ==
  ASSUME RlsInv, NEW s \in Session \ Subjects, SuperStep(s)
  PROVE  RlsInv'
<1>1. PICK v \in TableVersion : v = View(s)
  BY ViewTyped DEF RlsInv
<1>2. ASSUME NEW w \in TableVersion, Change(s, w) PROVE RlsInv'
  BY <1>2, ChangeKeeps
<1>3. CASE AddFlags(s)
  <2>1. [v EXCEPT !.flags = {NoFlags}] \in TableVersion
    <3>1. NoFlags \in [enabled : BOOLEAN, forced : BOOLEAN]
      BY DEF NoFlags
    <3>2. {NoFlags} \in SUBSET [enabled : BOOLEAN, forced : BOOLEAN]
      BY <3>1
    <3> QED
      BY <3>2 DEF TableVersion
  <2> QED
    BY <1>1, <1>2, <1>3, <2>1 DEF AddFlags
<1>4. ASSUME NEW flag \in {"enabled", "forced"}, NEW given \in BOOLEAN, alterTableRLS(s, flag, given)
      PROVE  RlsInv'
  <2>1. PICK F : F = {[f EXCEPT ![flag] = given] : f \in v.flags}
    OBVIOUS
  <2>2. v.flags \in SUBSET [enabled : BOOLEAN, forced : BOOLEAN]
    BY DEF TableVersion
  <2>3. \A f \in [enabled : BOOLEAN, forced : BOOLEAN] :
          [f EXCEPT ![flag] = given] \in [enabled : BOOLEAN, forced : BOOLEAN]
    OBVIOUS
  <2>4. F \in SUBSET [enabled : BOOLEAN, forced : BOOLEAN]
    BY <2>1, <2>2, <2>3
  <2>5. [v EXCEPT !.flags = F] \in TableVersion
    BY <2>4 DEF TableVersion
  <2>6. Change(s, [v EXCEPT !.flags = F])
    BY <1>1, <1>4, <2>1 DEF alterTableRLS
  <2> QED
    BY <1>2, <2>5, <2>6
<1>5. ASSUME NEW p \in Policy, createPolicy(s, p) PROVE RlsInv'
  <2>1. [v EXCEPT !.policies = v.policies \cup {p}] \in TableVersion
    BY DEF TableVersion
  <2>2. Change(s, [v EXCEPT !.policies = v.policies \cup {p}])
    BY <1>1, <1>5 DEF createPolicy
  <2> QED
    BY <1>2, <2>1, <2>2
<1>6. ASSUME NEW p \in Policy, dropPolicy(s, p) PROVE RlsInv'
  <2>1. [v EXCEPT !.policies = v.policies \ {p}] \in TableVersion
    BY DEF TableVersion
  <2>2. Change(s, [v EXCEPT !.policies = v.policies \ {p}])
    BY <1>1, <1>6 DEF dropPolicy
  <2> QED
    BY <1>2, <2>1, <2>2
<1>7. ASSUME NEW what \in {"super", "bypass", "owner"}, NEW given \in BOOLEAN, SetStanding(s, what, given)
      PROVE  RlsInv'
  <2>1. PICK S : S = [v.standing EXCEPT ![what] = given]
    OBVIOUS
  <2>2. S \in [super : BOOLEAN, bypass : BOOLEAN, owner : BOOLEAN]
    BY <2>1 DEF TableVersion
  <2>3. [v EXCEPT !.standing = S] \in TableVersion
    BY <2>2 DEF TableVersion
  <2>4. Change(s, [v EXCEPT !.standing = S])
    BY <1>1, <1>7, <2>1 DEF SetStanding
  <2> QED
    BY <1>2, <2>3, <2>4
<1>8. ASSUME NEW rows \in SUBSET Row, WriteRows(s, rows) PROVE RlsInv'
  <2>1. Change(s, [v EXCEPT !.rows = rows])
    BY <1>1, <1>8 DEF WriteRows
  <2> QED
    BY <1>2, <2>1, RowsWritten
<1> QED
  BY <1>3, <1>4, <1>5, <1>6, <1>7, <1>8 DEF SuperStep

\* The transactions.
LEMMA BeginKeeps ==
  ASSUME RlsInv, NEW s \in Session, Begin(s) \/ Rollback(s)
  PROVE  RlsInv'
<1>1. ~Running(s) /\ stmt' = stmt /\ (BeginTx(s) \/ RollbackTx(s))
  BY DEF Begin, Rollback
<1>2. RlsTyped
  BY DEF RlsInv
<1>3. /\ db' = db /\ work' \in TableVersion /\ writer' \in Session \cup {NoSession} /\ failed' \in BOOLEAN
  BY <1>1, <1>2 DEF RlsTyped, BeginTx, RollbackTx
<1>4. PICK t : t = stmt[s]
  OBVIOUS
<1>5. t \in Statement /\ t.at \in Over /\ Proper(t)
  BY <1>1, <1>4, OverProper
<1>6. GoesOn(s, t)
  BY <1>1, <1>2, <1>3, <1>4 DEF GoesOn, RlsTyped
<1>7. \A x \in Session \ {s} : View(x)' = View(x)
  BY <1>1, <1>3, ConnectionsAssumption DEF View, BeginTx, RollbackTx
<1>8. PICK v : v = View(s)'
  OBVIOUS
<1>9. db' \in TableVersion
  BY <1>2, <1>3 DEF RlsTyped
<1> QED
  BY <1>3, <1>5, <1>6, <1>7, <1>8, <1>9, GoesOnKeeps

\* COMMIT keeps it.
LEMMA CommitKeeps ==
  ASSUME RlsInv, NEW s \in Session, Commit(s)
  PROVE  RlsInv'
<1>1. ~Running(s) /\ CommitTx(s) /\ GoesOn(s, stmt[s])
  BY DEF Commit
<1>2. RlsTyped
  BY DEF RlsInv
<1>3. /\ db' \in TableVersion /\ work' \in TableVersion /\ writer' \in Session \cup {NoSession}
      /\ failed' \in BOOLEAN
  BY <1>1, <1>2 DEF RlsTyped, CommitTx
<1>4. PICK t : t = stmt[s]
  OBVIOUS
<1>5. t \in Statement /\ t.at \in Over /\ Proper(t) /\ GoesOn(s, t)
  BY <1>1, <1>4, OverProper
<1>6. \A x \in Session \ {s} : View(x) = db /\ View(x)' = db'
  BY <1>1, ConnectionsAssumption DEF View, CommitTx
<1>7. PICK v : v = View(s)'
  OBVIOUS
<1> QED
  BY <1>3, <1>5, <1>6, <1>7, GoesOnKeeps

-----------------------------------------------------------------------------
(* The theorems.                                                           *)

\* At first no statement runs, and none was permitted anything.
LEMMA RlsInitInv ==
  ASSUME RlsInit
  PROVE  RlsInv
<1>1. PICK v \in Starts : VersionsInit(v)
  BY DEF RlsInit
<1>2. v \in TableVersion
  BY RowSecurityAssumption
<1>3. Idle \in Statement /\ Idle.op = "none" /\ Idle.at \in Over
  BY DEF Idle, Statement, Places, Over, Phases
<1>4. stmt = [s \in Session |-> Idle]
  BY DEF RlsInit
<1>5. RlsTyped
  BY <1>1, <1>2, <1>3, <1>4 DEF RlsTyped, VersionsInit
<1>6. \A s \in Session : ~Running(s) /\ Proper(stmt[s])
  BY <1>3, <1>4 DEF Running, Proper
<1> QED
  BY <1>5, <1>6 DEF RlsInv

\* Every step keeps every statement sound while it runs, and proper once it is over:
\* what a session has found out about flags, role and policies stays true of some moment
\* whatever superusers do between its queries (rls.go:168-302, 401-542).
THEOREM RowSecurityInvariant == RlsSpec => []RlsInv
<1>1. RlsInit => RlsInv
  BY RlsInitInv
<1>2. RlsInv /\ [RlsNext]_rlsVars => RlsInv'
  <2>1. SUFFICES ASSUME RlsInv, [RlsNext]_rlsVars PROVE RlsInv'
    OBVIOUS
  <2>2. ASSUME NEW s \in Session, Begin(s) \/ Rollback(s) PROVE RlsInv'
    BY <2>1, <2>2, BeginKeeps
  <2>3. ASSUME NEW s \in Session, Commit(s) PROVE RlsInv'
    BY <2>1, <2>3, CommitKeeps
  <2>4. ASSUME NEW s \in Subjects, SubjectStep(s) PROVE RlsInv'
    <3>1. s \in Session
      BY RowSecurityAssumption
    <3>2. ASSUME NEW op \in Inserts \cup Filtered, NEW rows \in Wheres, Ask(s, op, rows) PROVE RlsInv'
      BY <2>1, <3>1, <3>2, AskKeeps
    <3>3. CASE ReadFlags(s) \/ roleBypasses(s) \/ hasBypassRLS(s) \/ ownsTable(s) \/ ReadPolicies(s)
      BY <2>1, <3>1, <3>3, AsksKeeps
    <3>4. CASE CountProvided(s) \/ CountPassing(s) \/ GatherUpsert(s)
      BY <2>1, <3>1, <3>4, CountsKeeps
    <3>5. CASE Run(s)
      BY <2>1, <3>1, <3>5, RunKeeps
    <3>6. CASE RunUpsert(s)
      BY <2>1, <3>1, <3>6, RunUpsertKeeps
    <3>7. CASE RunFails(s)
      BY <2>1, <3>1, <3>7, RunFailsKeeps
    <3>8. CASE QueryFails(s)
      BY <2>1, <3>1, <3>8, QueryFailsKeeps
    <3> QED
      BY <2>4, <3>2, <3>3, <3>4, <3>5, <3>6, <3>7, <3>8 DEF SubjectStep
  <2>5. ASSUME NEW s \in Session \ Subjects, SuperStep(s) PROVE RlsInv'
    BY <2>1, <2>5, SuperKeeps
  <2>6. CASE UNCHANGED rlsVars
    <3>1. UNCHANGED <<db, writer, work, failed, stmt>>
      BY <2>6 DEF rlsVars, txVars
    <3>2. \A s \in Session : View(s)' = View(s)
      BY <3>1 DEF View
    <3> QED
      BY <2>1, <3>1, <3>2 DEF RlsInv, RlsTyped, Running
  <2> QED
    BY <2>1, <2>2, <2>3, <2>4, <2>5, <2>6 DEF RlsNext
<1> QED
  BY <1>1, <1>2, PTL DEF RlsSpec

\* What the invariant tells of a statement that still runs.
LEMMA SoundProper ==
  ASSUME NEW t, NEW v, Sound(t, v), t.at \notin Over
  PROVE  Proper(t)
<1>1. t.touched = {} /\ t.seen # {} /\ (~Excused(t) => Fine(t, t.read, "SELECT", FALSE))
  BY DEF Sound
<1>2. ~Excused(t) => \E m \in t.seen : t.read \subseteq Readable(m)
  BY <1>1, PermittedIs DEF Fine
<1>3. t.at # "done" /\ t.at # "rejected"
  BY DEF Over
<1> QED
  BY <1>1, <1>2, <1>3 DEF Proper

\* What a statement read was permitted at some moment while it ran, and so was what it
\* updated, deleted or inserted and, by the policies for UPDATE, what an upsert left of
\* the rows it added or overwrote; if nothing was changed meanwhile, it took all that
\* was permitted and rejected only what was not (rls.go:168-302, 401-542).  It holds of
\* statements all of whose handler's queries were answered; that an upsert saw the rows
\* it overwrote, or could have inserted those it added, is not in it.
THEOREM StatementsStayPermitted == RlsSpec => []RowsPermitted
<1>1. RlsInv => RowsPermitted
  <2>1. SUFFICES ASSUME RlsInv PROVE \A s \in Subjects : Proper(stmt[s])
    BY DEF RowsPermitted, Proper, Excused
  <2>2. ASSUME NEW s \in Subjects PROVE Proper(stmt[s])
    <3>1. s \in Session
      BY RowSecurityAssumption
    <3>2. CASE Running(s)
      BY <2>1, <3>1, <3>2, SoundProper DEF RlsInv, Running
    <3>3. CASE ~Running(s)
      BY <2>1, <3>1, <3>3 DEF RlsInv
    <3> QED
      BY <3>2, <3>3
  <2> QED
    BY <2>2
<1> QED
  BY <1>1, RowSecurityInvariant, PTL

-----------------------------------------------------------------------------
(* Ranges. *)

\* Nothing, as a bound.
LEMMA NoBoundIs == R!NoBound.kind = "none" /\ R!NoBound.n = 0
  BY DEF R!NoBound

\* A bound that can be compared is nothing or a number.
LEMMA ComparableBound ==
  ASSUME NEW e \in R!Bound
  PROVE  /\ e.n \in Int
         /\ e.kind # "other" => e = R!NoBound \/ (e # R!NoBound /\ e.kind = "number")
  BY NoBoundIs DEF R!Bound

\* makeRange has the points between its bounds.
LEMMA MadeIsRight ==
  ASSUME NEW lo \in R!Bound, NEW hi \in R!Bound, NEW i \in BOOLEAN, NEW j \in BOOLEAN, Points \subseteq Int
  PROVE  R!MadeRight(lo, hi, i, j, Points)
<1> SUFFICES ASSUME lo # R!NoBound \/ hi # R!NoBound \/ (i /\ j), NEW p \in Points
             PROVE  R!Within(R!makeRange(lo, hi, i, j), p) <=> R!IsPoint(lo, hi, i, j, p)
  BY DEF R!MadeRight
<1>1. p \in Int /\ lo.n \in Int /\ hi.n \in Int
  BY ComparableBound
<1>2. CASE lo = hi /\ ~(i /\ j)
  <2>1. ~ R!Within(R!makeRange(lo, hi, i, j), p)
    BY <1>2 DEF R!makeRange, R!Within, R!EmptyText
  <2> QED BY <1>1, <1>2, <2>1 DEF R!IsPoint
<1>3. CASE R!ratPair(lo, hi) /\ lo.n > hi.n
  <2>1. ~ R!Within(R!makeRange(lo, hi, i, j), p)
    BY <1>3 DEF R!makeRange, R!Within, R!EmptyText
  <2>2. lo # R!NoBound /\ hi # R!NoBound
    BY <1>3, NoBoundIs DEF R!ratPair
  <2> QED BY <1>1, <1>3, <2>1, <2>2 DEF R!IsPoint
<1>4. CASE ~(lo = hi /\ ~(i /\ j)) /\ ~(R!ratPair(lo, hi) /\ lo.n > hi.n)
  BY <1>4 DEF R!makeRange, R!Within, R!RangeText
<1> QED BY <1>2, <1>3, <1>4

\* A range as the functions see it: each of its bounds is nothing or a number.
Plain(a) ==
  /\ a \in R!Range
  /\ a.lo = R!NoBound \/ (a.lo # R!NoBound /\ a.lo.kind = "number" /\ a.lo.n \in Int)
  /\ a.hi = R!NoBound \/ (a.hi # R!NoBound /\ a.hi.kind = "number" /\ a.hi.n \in Int)

\* A range that can be compared is one.
LEMMA ComparableIsPlain == \A a \in R!Range : R!Comparable(a) => Plain(a)
  BY ComparableBound DEF R!Range, R!Comparable, Plain

\* range @> element
LEMMA ContainsPoint ==
  ASSUME NEW a, Plain(a), NEW p \in Int
  PROVE  R!rangeContains(a, R!NumberText(p, "")) <=> R!Within(a, p)
<1>1. R!NumberText(p, "").kind = "number" /\ R!NumberText(p, "").n = p
  BY DEF R!NumberText
<1> HIDE DEF R!NumberText
<1> QED BY <1>1 DEF R!rangeContains, R!Within, R!IsPoint, Plain, R!Range

\* If the lower bound of b does not cover that of a, a point of b is below a.
LEMMA LowerCovers ==
  ASSUME NEW N, R!Dense(Points, N), NEW a, Plain(a), NEW b, Plain(b), ~a.empty, ~b.empty,
         a.lo = R!NoBound \/ a.lo.n \in N, b.lo = R!NoBound \/ b.lo.n \in N,
         NEW p \in Points, R!Within(b, p)
  PROVE  R!lowerCovers(a, b) <=> \A x \in Points : R!Within(b, x) => R!IsPoint(a.lo, R!NoBound, a.loInc, FALSE, x)
<1>0. Points \subseteq Int /\ N \subseteq Points
  BY DEF R!Dense
<1>1. CASE a.lo = R!NoBound
  BY <1>1 DEF R!lowerCovers, R!IsPoint
<1>2. CASE a.lo # R!NoBound /\ b.lo = R!NoBound
  <2>1. ~ R!lowerCovers(a, b)
    BY <1>2, NoBoundIs DEF R!lowerCovers, R!ratPair
  <2>2. PICK x \in Points : x < a.lo.n
    BY <1>2 DEF R!Dense
  <2>3. R!Within(b, x) \/ p <= x
    BY <1>0, <1>2 DEF R!Within, R!IsPoint, Plain
  <2> QED BY <1>0, <1>2, <2>1, <2>2, <2>3 DEF R!IsPoint, Plain
<1>3. CASE a.lo # R!NoBound /\ b.lo # R!NoBound
  <2>0. a.lo.n \in N /\ b.lo.n \in N /\ a.lo.n \in Int /\ b.lo.n \in Int
    BY <1>3 DEF Plain
  <2>1. R!lowerCovers(a, b) <=> a.lo.n < b.lo.n \/ (a.lo.n = b.lo.n /\ (a.loInc \/ ~b.loInc))
    BY <1>3 DEF R!lowerCovers, R!ratPair, Plain
  <2>2. CASE R!lowerCovers(a, b)
    BY <1>0, <1>3, <2>0, <2>1, <2>2 DEF R!Within, R!IsPoint, Plain, R!Range
  <2>3. CASE b.lo.n < a.lo.n
    <3>1. PICK x \in Points : b.lo.n < x /\ x < a.lo.n
      BY <2>0, <2>3 DEF R!Dense
    <3>2. R!Within(b, x) \/ p <= x
      BY <1>0, <1>3, <3>1 DEF R!Within, R!IsPoint, Plain
    <3> QED BY <1>0, <1>3, <2>0, <2>1, <2>3, <3>1, <3>2 DEF R!IsPoint, Plain
  <2>4. CASE b.lo.n = a.lo.n /\ b.loInc /\ ~a.loInc
    <3>1. b.lo.n \in Points
      BY <1>0, <2>0
    <3>2. R!Within(b, b.lo.n) 
      BY <1>0, <1>3, <2>0, <2>4 DEF R!Within, R!IsPoint, Plain
    <3> QED BY <1>0, <1>3, <2>0, <2>1, <2>4, <3>1, <3>2 DEF R!IsPoint, Plain
  <2>5. \/ R!lowerCovers(a, b) \/ b.lo.n < a.lo.n
        \/ b.lo.n = a.lo.n /\ b.loInc /\ ~a.loInc
    BY <2>0, <2>1
  <2> QED BY <2>2, <2>3, <2>4, <2>5
<1> QED BY <1>1, <1>2, <1>3

\* So with the upper bound.
LEMMA UpperCovers ==
  ASSUME NEW N, R!Dense(Points, N), NEW a, Plain(a), NEW b, Plain(b), ~a.empty, ~b.empty,
         a.hi = R!NoBound \/ a.hi.n \in N, b.hi = R!NoBound \/ b.hi.n \in N,
         NEW p \in Points, R!Within(b, p)
  PROVE  R!upperCovers(a, b) <=> \A x \in Points : R!Within(b, x) => R!IsPoint(R!NoBound, a.hi, FALSE, a.hiInc, x)
<1>0. Points \subseteq Int /\ N \subseteq Points
  BY DEF R!Dense
<1>1. CASE a.hi = R!NoBound
  BY <1>1 DEF R!upperCovers, R!IsPoint
<1>2. CASE a.hi # R!NoBound /\ b.hi = R!NoBound
  <2>1. ~ R!upperCovers(a, b)
    BY <1>2, NoBoundIs DEF R!upperCovers, R!ratPair
  <2>2. PICK x \in Points : a.hi.n < x
    BY <1>2 DEF R!Dense
  <2>3. R!Within(b, x) \/ x <= p
    BY <1>0, <1>2 DEF R!Within, R!IsPoint, Plain
  <2> QED BY <1>0, <1>2, <2>1, <2>2, <2>3 DEF R!IsPoint, Plain
<1>3. CASE a.hi # R!NoBound /\ b.hi # R!NoBound
  <2>0. a.hi.n \in N /\ b.hi.n \in N /\ a.hi.n \in Int /\ b.hi.n \in Int
    BY <1>3 DEF Plain
  <2>1. R!upperCovers(a, b) <=> a.hi.n > b.hi.n \/ (a.hi.n = b.hi.n /\ (a.hiInc \/ ~b.hiInc))
    BY <1>3 DEF R!upperCovers, R!ratPair, Plain
  <2>2. CASE R!upperCovers(a, b)
    BY <1>0, <1>3, <2>0, <2>1, <2>2 DEF R!Within, R!IsPoint, Plain, R!Range
  <2>3. CASE b.hi.n > a.hi.n
    <3>1. PICK x \in Points : a.hi.n < x /\ x < b.hi.n
      BY <2>0, <2>3 DEF R!Dense
    <3>2. R!Within(b, x) \/ x <= p
      BY <1>0, <1>3, <3>1 DEF R!Within, R!IsPoint, Plain
    <3>3. PICK y \in Points : R!Within(b, y) /\ a.hi.n < y
      BY <1>0, <2>0, <3>1, <3>2
    <3>4. ~ R!upperCovers(a, b)
      BY <2>0, <2>1, <2>3
    <3> QED BY <1>0, <1>3, <2>0, <3>3, <3>4 DEF R!IsPoint
  <2>4. CASE b.hi.n = a.hi.n /\ b.hiInc /\ ~a.hiInc
    <3>1. b.hi.n \in Points
      BY <1>0, <2>0
    <3>2. R!Within(b, b.hi.n)
      BY <1>0, <1>3, <2>0, <2>4 DEF R!Within, R!IsPoint, Plain
    <3> QED BY <1>0, <1>3, <2>0, <2>1, <2>4, <3>1, <3>2 DEF R!IsPoint, Plain
  <2>5. \/ R!upperCovers(a, b) \/ b.hi.n > a.hi.n
        \/ b.hi.n = a.hi.n /\ b.hiInc /\ ~a.hiInc
    BY <2>0, <2>1
  <2> QED BY <2>2, <2>3, <2>4, <2>5
<1> QED BY <1>1, <1>2, <1>3

\* A range's points are those above its lower bound and below its upper one.
LEMMA WithinBoth ==
  ASSUME NEW a, NEW x
  PROVE  R!Within(a, x) <=> /\ ~a.empty /\ R!IsPoint(a.lo, R!NoBound, a.loInc, FALSE, x)
                            /\ R!IsPoint(R!NoBound, a.hi, FALSE, a.hiInc, x)
  BY DEF R!Within, R!IsPoint

\* range @> range
LEMMA ContainsRange ==
  ASSUME NEW N, R!Dense(Points, N), NEW a, Plain(a), NEW b, Plain(b),
         R!SaysEmpty(a, Points), R!SaysEmpty(b, Points),
         \A e \in {a.lo, a.hi, b.lo, b.hi} : e = R!NoBound \/ e.n \in N
  PROVE  R!rangeContainsRange(a, b) <=> \A x \in Points : R!Within(b, x) => R!Within(a, x)
<1>1. CASE b.empty
  BY <1>1 DEF R!rangeContainsRange, R!Within
<1>2. CASE ~b.empty
  <2>1. PICK p \in Points : R!Within(b, p)
    BY <1>2 DEF R!SaysEmpty
  <2>2. CASE a.empty
    BY <1>2, <2>1, <2>2 DEF R!rangeContainsRange, R!Within
  <2>3. CASE ~a.empty
    <3>1. R!lowerCovers(a, b) <=>
            \A x \in Points : R!Within(b, x) => R!IsPoint(a.lo, R!NoBound, a.loInc, FALSE, x)
      BY <1>2, <2>1, <2>3, LowerCovers
    <3>2. R!upperCovers(a, b) <=>
            \A x \in Points : R!Within(b, x) => R!IsPoint(R!NoBound, a.hi, FALSE, a.hiInc, x)
      BY <1>2, <2>1, <2>3, UpperCovers
    <3> QED BY <1>2, <2>3, <3>1, <3>2, WithinBoth DEF R!rangeContainsRange
  <2> QED BY <2>2, <2>3
<1> QED BY <1>1, <1>2

\* startsBeforeEnd tells of a range with a point: its lower bound and the other's upper
\* one leave room.
LEMMA StartsBeforeEnd ==
  ASSUME NEW a, Plain(a), NEW b, Plain(b)
  PROVE  R!startsBeforeEnd(a, b) <=>
           \/ a.lo = R!NoBound \/ b.hi = R!NoBound
           \/ a.lo.n < b.hi.n \/ (a.lo.n = b.hi.n /\ a.loInc /\ b.hiInc)
  BY NoBoundIs DEF R!startsBeforeEnd, R!ratPair, Plain

\* A point of a below b and one of b that is none of a: if b starts before a ends they
\* have one in common.
LEMMA CommonPoint ==
  ASSUME NEW N, R!Dense(Points, N), NEW a, Plain(a), NEW b, Plain(b),
         \A e \in {a.lo, a.hi, b.lo, b.hi} : e = R!NoBound \/ e.n \in N,
         NEW p \in Points, R!Within(a, p), ~R!IsPoint(b.lo, R!NoBound, b.loInc, FALSE, p),
         NEW r \in Points, R!Within(b, r), ~R!Within(a, r),
         R!startsBeforeEnd(b, a)
  PROVE  \E x \in Points : R!Within(a, x) /\ R!Within(b, x)
<1>0. Points \subseteq Int /\ p \in Int /\ r \in Int /\ ~a.empty /\ ~b.empty
  BY DEF R!Dense, R!Within
<1>1. b.lo # R!NoBound /\ b.lo.n \in Int /\ p <= b.lo.n /\ b.lo.n <= r /\ p # r
  BY <1>0 DEF R!Within, R!IsPoint, Plain
<1>2. a.hi # R!NoBound /\ a.hi.n \in Int /\ a.hi.n <= r
  BY <1>0, <1>1 DEF R!Within, R!IsPoint, Plain
<1>3. \/ b.lo.n < a.hi.n
      \/ b.lo.n = a.hi.n /\ b.loInc /\ a.hiInc
  BY <1>1, <1>2, StartsBeforeEnd
<1>4. CASE b.lo.n < a.hi.n
  <2>1. PICK x \in Points : b.lo.n < x /\ x < a.hi.n
    BY <1>1, <1>2, <1>4 DEF R!Dense
  <2>2. x \in Int
    BY <1>0
  <2>3. R!Within(a, x)
    BY <1>0, <1>1, <1>2, <2>1, <2>2 DEF R!Within, R!IsPoint, Plain
  <2>4. R!Within(b, x)
    BY <1>0, <1>1, <1>2, <2>1, <2>2 DEF R!Within, R!IsPoint, Plain
  <2> QED BY <2>3, <2>4
<1>5. CASE b.lo.n = a.hi.n /\ b.loInc /\ a.hiInc
  <2>1. b.lo.n \in Points
    BY <1>1 DEF R!Dense
  <2>2. p < b.lo.n \/ R!Within(b, p)
    BY <1>0, <1>1, <1>5 DEF R!IsPoint
  <2>3. R!Within(a, b.lo.n)
    BY <1>0, <1>1, <1>2, <1>5 DEF R!Within, R!IsPoint, Plain
  <2>4. R!Within(b, b.lo.n)
    BY <1>0, <1>1, <1>2, <1>5 DEF R!Within, R!IsPoint, Plain
  <2> QED BY <2>1, <2>3, <2>4
<1> QED BY <1>3, <1>4, <1>5

\* range && range
LEMMA Overlaps ==
  ASSUME NEW N, R!Dense(Points, N), NEW a, Plain(a), NEW b, Plain(b),
         R!SaysEmpty(a, Points), R!SaysEmpty(b, Points),
         \A e \in {a.lo, a.hi, b.lo, b.hi} : e = R!NoBound \/ e.n \in N
  PROVE  R!rangeOverlaps(a, b) <=> \E x \in Points : R!Within(a, x) /\ R!Within(b, x)
<1>0. Points \subseteq Int /\ N \subseteq Points
  BY DEF R!Dense
<1>1. ASSUME NEW x \in Points, R!Within(a, x), R!Within(b, x)
      PROVE  R!rangeOverlaps(a, b)
  <2>1. ~a.empty /\ ~b.empty /\ x \in Int
    BY <1>0, <1>1 DEF R!Within
  <2>2. R!startsBeforeEnd(a, b)
    BY <1>1, <2>1, StartsBeforeEnd DEF R!Within, R!IsPoint, Plain
  <2>3. R!startsBeforeEnd(b, a)
    BY <1>1, <2>1, StartsBeforeEnd DEF R!Within, R!IsPoint, Plain
  <2> QED BY <2>1, <2>2, <2>3 DEF R!rangeOverlaps
<1>2. ASSUME R!rangeOverlaps(a, b) PROVE \E x \in Points : R!Within(a, x) /\ R!Within(b, x)
  <2>1. ~a.empty /\ ~b.empty /\ R!startsBeforeEnd(a, b) /\ R!startsBeforeEnd(b, a)
    BY <1>2 DEF R!rangeOverlaps
  <2>2. PICK p \in Points : R!Within(a, p)
    BY <2>1 DEF R!SaysEmpty
  <2>3. PICK r \in Points : R!Within(b, r)
    BY <2>1 DEF R!SaysEmpty
  <2>4. p \in Int /\ r \in Int
    BY <1>0
  <2>5. CASE R!Within(b, p) \/ R!Within(a, r)
    BY <2>2, <2>3, <2>5
  <2>6. CASE ~R!Within(b, p) /\ ~R!Within(a, r)
    <3>1. CASE ~R!IsPoint(b.lo, R!NoBound, b.loInc, FALSE, p)
      BY <2>1, <2>2, <2>3, <2>6, <3>1, CommonPoint
    <3>2. CASE ~R!IsPoint(R!NoBound, b.hi, FALSE, b.hiInc, p)
      <4>1. ~R!IsPoint(a.lo, R!NoBound, a.loInc, FALSE, r)
        BY <2>1, <2>2, <2>3, <2>4, <2>6, <3>2 DEF R!Within, R!IsPoint, Plain
      <4>2. \E x \in Points : R!Within(b, x) /\ R!Within(a, x)
        BY <2>1, <2>2, <2>3, <2>6, <4>1, CommonPoint
      <4> QED BY <4>2
    <3> QED BY <2>1, <2>6, <3>1, <3>2, WithinBoth
  <2> QED BY <2>5, <2>6
<1> QED BY <1>1, <1>2

\* The operators on ranges tell of their points (engine/ranges.go).
LEMMA RangesAreRight ==
  ASSUME NEW a \in Ranges, NEW b \in Ranges
  PROVE  R!RangesRight(a, b, Points)
<1> DEFINE N == {e.n : e \in RangeEnds}
<1>1. a \in R!Range /\ b \in R!Range /\ R!Dense(Points, N)
  BY ValuesAssumption
<1> SUFFICES ASSUME R!Comparable(a), R!Comparable(b), R!SaysEmpty(a, Points), R!SaysEmpty(b, Points)
             PROVE  /\ \A p \in Points : R!rangeContains(a, R!NumberText(p, "")) <=> R!Within(a, p)
                    /\ R!rangeContainsRange(a, b) <=> \A p \in Points : R!Within(b, p) => R!Within(a, p)
                    /\ R!rangeOverlaps(a, b) <=> \E p \in Points : R!Within(a, p) /\ R!Within(b, p)
  BY DEF R!RangesRight
<1>2. Plain(a) /\ Plain(b)
  BY <1>1, ComparableIsPlain
<1>3. \A e \in {a.lo, a.hi, b.lo, b.hi} : e = R!NoBound \/ e.n \in N
  BY <1>2 DEF RangeEnds, Plain
<1>4. Points \subseteq Int
  BY <1>1 DEF R!Dense
<1> HIDE DEF N
<1> QED BY <1>1, <1>2, <1>3, <1>4, ContainsPoint, ContainsRange, Overlaps

-----------------------------------------------------------------------------
(* Single numbers. *)

\* decCmp, by the order of its arguments.
LEMMA ComparisonIs ==
  ASSUME NEW a \in Cells, NEW b \in Cells
  PROVE  /\ a.n \in Int /\ b.n \in Int /\ decCmp(a, b) \in {-1, 0, 1}
         /\ decCmp(a, b) = -1 <=> (~parseDec(a) /\ parseDec(b)) \/ ((parseDec(a) <=> parseDec(b)) /\ a.n < b.n)
         /\ decCmp(a, b) = 0 <=> (parseDec(a) <=> parseDec(b)) /\ a.n = b.n
<1>1. a.n \in Int /\ b.n \in Int
  BY DecimalsAssumption
<1> QED BY <1>1 DEF decCmp

\* The collation orders the cells.
LEMMA OrderIsRight ==
  ASSUME NEW a \in Cells, NEW b \in Cells, NEW c \in Cells
  PROVE  OrderRight(a, b, c)
<1>1. decCmp(a, b) = -decCmp(b, a)
  BY ComparisonIs
<1>2. decCmp(a, b) <= 0 /\ decCmp(b, c) <= 0 => decCmp(a, c) <= 0
  BY ComparisonIs
<1>3. decCmp(a, b) = 0 /\ decCmp(b, c) = 0 => decCmp(a, c) = 0
  BY ComparisonIs
<1> QED BY <1>1, <1>2, <1>3 DEF OrderRight

\* The float is within half a part of the number, and the number itself if that is one.
LEMMA FloatIs ==
  ASSUME NEW X \in Int, NEW y \in Int, y = X * Grid, NEW f, f = SetRat(X, Unit)
  PROVE  /\ f \in Int /\ 2 * (f * 1000 - y) <= 1000 /\ 2 * (y - f * 1000) <= 1000
         /\ \A k \in Int : y = 1000 * k => f = k
<1> DEFINE low == y \div 1000
           rest == y % 1000
<1>1. low \in Int /\ rest \in 0..999 /\ y = 1000 * low + rest
  OBVIOUS
<1>2. f = IF 2 * rest < 1000 \/ (2 * rest = 1000 /\ low % 2 = 0) THEN low ELSE low + 1
  BY DEF SetRat, Unit
<1> HIDE DEF low, rest
<1>3. rest \in Nat /\ rest < 1000
  BY <1>1
<1>4. \/ f = low /\ 2 * rest <= 1000
      \/ f = low + 1 /\ 2 * rest >= 1000
  BY <1>1, <1>2
<1>5. ASSUME NEW k \in Int, y = 1000 * k PROVE f = k
  <2>1. rest = 0 /\ low = k
    BY <1>1, <1>3, <1>5
  <2> QED BY <1>4, <2>1
<1> QED BY <1>1, <1>3, <1>4, <1>5

\* Less than one part more than none is none.
LEMMA NoMore ==
  ASSUME NEW G \in Nat, NEW k \in Int, G * k < G
  PROVE  k <= 0
<1>1. SUFFICES ASSUME k >= 1 PROVE FALSE
  OBVIOUS
<1>2. G * k >= G * 1
  BY <1>1
<1> QED BY <1>2

\* The float and a half, cut to whole parts, is the nearest number, for those above zero.
LEMMA NearestUp ==
  ASSUME NEW G \in Nat, G > 1000, NEW H \in Nat, G = 2 * H, NEW X \in Int,
         NEW f \in Int, NEW y \in Int, y = X * G,
         2 * (f * 1000 - y) <= 1000, 2 * (y - f * 1000) <= 1000,
         \A k \in Int : y = 1000 * k => f = k,
         NEW d \in Int, G * d <= f + H, f + H < G * d + G
  PROVE  /\ 2 * (d * 1000 - X) <= 1000 /\ 2 * (X - d * 1000) < 1000
<1>1. PICK g \in Int : g = G * d
  OBVIOUS
<1>2. PICK k \in Int : k = 2000 * d - 2 * X - 1000
  OBVIOUS
<1>3. G * k = 2000 * g - 2 * y - 1000 * G
  <2>1. G * k = G * (2000 * d - 2 * X - 1000)
    BY <1>2
  <2>2. G * (2000 * d - 2 * X - 1000) = 2000 * (G * d) - 2 * (X * G) - 1000 * G
    OBVIOUS
  <2> QED BY <1>1, <2>1, <2>2
<1>4. g <= f + H /\ f + H < g + G
  BY <1>1
<1>5. G * k < G
  BY <1>3, <1>4
<1>6. k <= 0
  BY <1>5, NoMore
<1>7. PICK l \in Int : l = 2 * X - 2000 * d - 1000
  OBVIOUS
<1>8. G * l = 2 * y - 2000 * g - 1000 * G
  <2>1. G * l = G * (2 * X - 2000 * d - 1000)
    BY <1>7
  <2>2. G * (2 * X - 2000 * d - 1000) = 2 * (X * G) - 2000 * (G * d) - 1000 * G
    OBVIOUS
  <2> QED BY <1>1, <2>1, <2>2
<1>9. G * l < G
  BY <1>4, <1>8
<1>10. l <= 0
  BY <1>9, NoMore
<1>11. l # 0
  <2>1. SUFFICES ASSUME l = 0 PROVE FALSE
    OBVIOUS
  <2>2. G * l = 0
    BY <2>1
  <2>3. y = 1000 * (g + H)
    BY <1>8, <2>2
  <2>4. f = g + H
    BY <2>3
  <2> QED BY <1>4, <2>4
<1> QED BY <1>2, <1>6, <1>7, <1>10, <1>11

\* decRound goes to the nearest, if the float tells thousandths apart.
LEMMA RoundIsRight ==
  ASSUME NEW r \in Int, NEW shift \in Nat \ {0}, Grid > Unit
  PROVE  RoundRight(r, shift)
<1> DEFINE X == r * shift
           y == X * Grid
           f == SetRat(X, Unit)
           H == Grid \div 2
           half == IF f < 0 THEN -H ELSE H
           d == Truncated(f + half, Grid)
<1>1. X \in Int /\ (r < 0 => X < 0) /\ (r >= 0 => X >= 0) /\ (r > 0 <=> X > 0)
  OBVIOUS
<1>2. Grid \in Nat /\ Grid > 1000 /\ H \in Nat /\ Grid = 2 * H
  BY DecimalsAssumption DEF Unit
<1>3. decRound(r, shift) = d
  BY DEF decRound
<1>4. RoundRight(r, shift) <=> /\ 2 * (d * 1000 - X) <= 1000 /\ -2 * (d * 1000 - X) <= 1000
                               /\ 2 * (d * 1000 - X) \in {1000, -1000} => (d * 1000 - X > 0 <=> r > 0)
  BY <1>3 DEF RoundRight, Unit
<1>5. y \in Int
  BY <1>1, <1>2
<1> HIDE DEF X
<1>6. /\ f \in Int /\ 2 * (f * 1000 - y) <= 1000 /\ 2 * (y - f * 1000) <= 1000
      /\ \A k \in Int : y = 1000 * k => f = k
  BY <1>1, <1>5, FloatIs
<1>7. (X < 0 => y < 0) /\ (X >= 0 => y >= 0)
  BY <1>1, <1>2
<1> HIDE DEF f, y, H
<1>8. CASE X >= 0
  <2>1. f >= 0
    BY <1>5, <1>6, <1>7, <1>8
  <2> DEFINE q == (f + H) \div Grid
  <2>2. d = q
    BY <1>2, <1>6, <2>1 DEF Truncated
  <2>3. q \in Int /\ Grid * q <= f + H /\ f + H < Grid * q + Grid
    BY <1>2, <1>6
  <2> HIDE DEF d, q
  <2>4. 2 * (q * 1000 - X) <= 1000 /\ 2 * (X - q * 1000) < 1000
    BY <1>1, <1>2, <1>5, <1>6, <2>3, NearestUp DEF y
  <2>5. 2 * (q * 1000 - X) = 1000 => X > 0
    BY <1>1, <1>8, <2>3
  <2> QED BY <1>1, <1>4, <2>2, <2>3, <2>4, <2>5
<1>9. CASE X < 0
  <2> DEFINE Z == -X
             z == -y
             e == -f
  <2>1. Z \in Int /\ z \in Int /\ e \in Int /\ z = Z * Grid
    BY <1>1, <1>2, <1>5, <1>6 DEF y
  <2>2. /\ 2 * (e * 1000 - z) <= 1000 /\ 2 * (z - e * 1000) <= 1000
        /\ \A k \in Int : z = 1000 * k => e = k
    <3>1. 2 * (e * 1000 - z) <= 1000 /\ 2 * (z - e * 1000) <= 1000
      BY <1>5, <1>6
    <3>2. ASSUME NEW k \in Int, z = 1000 * k PROVE e = k
      <4>1. y = 1000 * (-k) /\ -k \in Int
        BY <1>5, <3>2
      <4>2. f = -k
        BY <1>6, <4>1
      <4> QED BY <4>2
    <3> QED BY <3>1, <3>2
  <2>3. f < 0
    <3>1. y <= -Grid
      <4>1. PICK m \in Nat : m = -X - 1
        BY <1>1, <1>9
      <4>2. y = -Grid - m * Grid /\ m * Grid >= 0
        BY <1>1, <1>2, <4>1 DEF y
      <4> QED BY <1>2, <1>5, <4>1, <4>2
    <3> QED BY <1>2, <1>5, <1>6, <3>1
  <2> DEFINE q == (e + H) \div Grid
  <2>4. d = -q
    <3>1. half = -H /\ f + half < 0 /\ -(f + half) = e + H
      BY <1>2, <1>6, <2>3
    <3> QED BY <3>1 DEF Truncated
  <2>5. q \in Int /\ Grid * q <= e + H /\ e + H < Grid * q + Grid
    BY <1>2, <2>1
  <2> HIDE DEF d, q, e, z, Z
  <2>6. 2 * (q * 1000 - Z) <= 1000 /\ 2 * (Z - q * 1000) < 1000
    BY <1>2, <2>1, <2>2, <2>5, NearestUp
  <2> QED BY <1>1, <1>4, <1>9, <2>4, <2>5, <2>6 DEF Z
<1> QED BY <1>1, <1>8, <1>9

-----------------------------------------------------------------------------
(* Type modifiers. *)

\* What a type may have in its parentheses.
LEMMA DeclaredAre ==
  ASSUME NEW d \in M!Declared
  PROVE  /\ d[1] \in {"varchar", "char", "numeric", "timestamp", "integer"} /\ d[2] \in Seq(Nat)
         /\ d[1] # "numeric" => Len(d[2]) <= 1
         /\ d[1] = "numeric" => Len(d[2]) <= 2 /\ (Len(d[2]) = 2 => d[2][2] < 65536)
  BY DEF M!Declared

\* Two numbers in one, and out of it.
Unpacks(a, b) == (a * 65536 + b) \div 65536 = a /\ (a * 65536 + b) % 65536 = b

\* They come out as they went in.
LEMMA Unpacked ==
  ASSUME NEW a \in Nat, NEW b \in Nat, b < 65536
  PROVE  Unpacks(a, b)
BY SMT DEF Unpacks

\* format_type has the numbers back.
LEMMA TypmodIsRight ==
  ASSUME NEW base, NEW nums \in Seq(Nat),
         base # "numeric" => Len(nums) <= 1,
         base = "numeric" => Len(nums) <= 2 /\ (Len(nums) = 2 => nums[2] < 65536)
  PROVE  M!TypmodRight(base, nums)
<1>1. PICK n \in Nat : n = Len(nums)
  OBVIOUS
<1>7. (base # "numeric" => n <= 1) /\ (base = "numeric" => n <= 2)
  BY <1>1
<1> DEFINE shown == M!formatTypeMod(base, M!typeAttTypmod(base, nums))
<1>2. base \in {"char", "integer"} => shown = <<>>
  BY DEF M!formatTypeMod
<1>3. nums = <<>> => shown = <<>>
  <2> SUFFICES ASSUME nums = <<>> PROVE shown = <<>>
    OBVIOUS
  <2>1. M!typeAttTypmod(base, nums) = -1
    BY DEF M!typeAttTypmod
  <2> QED BY <2>1 DEF M!formatTypeMod
<1>4. ASSUME base \in {"varchar", "timestamp"}, nums # <<>> PROVE shown = nums
  <2> DEFINE more == IF base = "varchar" THEN 4 ELSE 0
  <2>0. base # "integer" /\ base # "char" /\ base # "numeric"
    BY <1>4
  <2>1. Len(nums) = 1 /\ nums[1] \in Nat
    <3>1. n <= 1
      BY <1>7, <2>0
    <3>2. n # 0 /\ (n = 1 => nums[1] \in Nat)
      BY <1>1, <1>4
    <3> QED BY <1>1, <3>1, <3>2
  <2>2. M!typeAttTypmod(base, nums) = nums[1] + more
    BY <1>4, <2>0 DEF M!typeAttTypmod
  <2>3. more \in Nat /\ (nums[1] + more) - more = nums[1] /\ nums[1] + more >= 0
    BY <2>1
  <2>4. M!formatTypeMod(base, nums[1] + more) = <<(nums[1] + more) - more>>
    BY <2>0, <2>1, <2>3 DEF M!formatTypeMod
  <2>5. nums = <<nums[1]>>
    BY <2>1
  <2> HIDE DEF more
  <2> QED BY <2>2, <2>3, <2>4, <2>5
<1>5. ASSUME base = "numeric", nums # <<>> PROVE shown = <<nums[1], M!typeNumericScale(nums)>>
  <2> DEFINE scale == M!typeNumericScale(nums)
             t == nums[1] * 65536 + scale + 4
  <2>0. base # "integer" /\ base # "char"
    BY <1>5
  <2>1. nums[1] \in Nat
    BY <1>1, <1>5
  <2>2. scale \in Nat /\ scale < 65536
    <3>1. CASE n = 2
      <4>0. 2 \in 1..n
        BY <3>1
      <4>1. nums[2] \in Nat
        BY <1>1, <4>0
      <4>2. nums[2] < 65536
        BY <1>1, <1>5, <3>1
      <4>3. scale = nums[2]
        BY <1>1, <3>1 DEF M!typeNumericScale
      <4> QED BY <4>1, <4>2, <4>3
    <3>2. CASE n # 2
      <4>1. ~(n >= 2)
        BY <1>5, <1>7, <3>2
      <4>2. scale = 0
        BY <1>1, <4>1 DEF M!typeNumericScale
      <4> QED BY <4>2
    <3> QED BY <3>1, <3>2
  <2>3. M!typeAttTypmod(base, nums) = t
    BY <1>5, <2>0, <2>1 DEF M!typeAttTypmod, M!typeNumericScale
  <2> HIDE DEF scale
  <2>4. t \in Int /\ t >= 0 /\ t - 4 = nums[1] * 65536 + scale
    BY <2>1, <2>2
  <2>5. (nums[1] * 65536 + scale) \div 65536 = nums[1] /\ (nums[1] * 65536 + scale) % 65536 = scale
    <3>1. Unpacks(nums[1], scale)
      BY <2>1, <2>2, Unpacked, SMT
    <3> QED BY <3>1, SMT DEF Unpacks
  <2> HIDE DEF t
  <2>6. ~(t < 0)
    BY <2>4
  <2>7. M!formatTypeMod(base, t) = <<(t - 4) \div 65536, (t - 4) % 65536>>
    BY <1>5, <2>0, <2>6 DEF M!formatTypeMod
  <2>8. M!formatTypeMod(base, t) = <<nums[1], scale>>
    <3>1. (t - 4) \div 65536 = nums[1] /\ (t - 4) % 65536 = scale
      BY <2>4, <2>5
    <3> QED BY <2>7, <3>1
  <2> QED BY <2>3, <2>8 DEF scale
<1> HIDE DEF shown
<1>6. M!TypmodRight(base, nums) <=>
        /\ base \in {"char", "integer"} => shown = <<>>
        /\ base = "numeric" /\ nums # <<>> => shown = <<nums[1], M!typeNumericScale(nums)>>
        /\ base \in {"varchar", "timestamp"} \/ nums = <<>> => shown = nums
  BY DEF M!TypmodRight, shown
<1> QED BY <1>2, <1>3, <1>4, <1>5, <1>6

-----------------------------------------------------------------------------
(* The calendar. *)

\* The days before 1 January 2000, and its Julian day.
Epoch == 730120
Julian == 2451545

\* They are numbers.
LEMMA EpochIs == Epoch \in Int /\ Julian \in Int
  BY SMT DEF Epoch, Julian

\* The leap days of the years up to y.
Leaps(y) == y \div 4 - y \div 100 + y \div 400

\* The day before a year begins, and the days of the year before the month.
YearStart(y) == 365 * (y - 1) + Leaps(y - 1) - Epoch
InYear(y, m) == T!Before[m] + (IF m > 2 /\ T!Leap(y) THEN 1 ELSE 0)

\* The table of the months.
LEMMA BeforeIs ==
  /\ T!Before[1] = 0 /\ T!Before[2] = 31 /\ T!Before[3] = 59 /\ T!Before[4] = 90
  /\ T!Before[5] = 120 /\ T!Before[6] = 151 /\ T!Before[7] = 181 /\ T!Before[8] = 212
  /\ T!Before[9] = 243 /\ T!Before[10] = 273 /\ T!Before[11] = 304 /\ T!Before[12] = 334
  BY DEF T!Before

\* Every fourth year is a leap year, but not the centuries, but every fourth of those.
LEMMA LeapYears ==
  ASSUME NEW y \in Int
  PROVE  Leaps(y) \in Int /\ Leaps(y - 1) \in Int
         /\ Leaps(y) = Leaps(y - 1) + (IF T!Leap(y) THEN 1 ELSE 0)
<1>1. /\ y \div 4 = (y - 1) \div 4 + (IF y % 4 = 0 THEN 1 ELSE 0)
      /\ y \div 100 = (y - 1) \div 100 + (IF y % 100 = 0 THEN 1 ELSE 0)
      /\ y \div 400 = (y - 1) \div 400 + (IF y % 400 = 0 THEN 1 ELSE 0)
  OBVIOUS
<1>2. (y % 100 = 0 => y % 4 = 0) /\ (y % 400 = 0 => y % 100 = 0)
  OBVIOUS
<1> QED BY <1>1, <1>2 DEF Leaps, T!Leap

\* The days of a month.
LEMMA MonthDaysAre ==
  ASSUME NEW y \in Int, NEW m \in 1..12
  PROVE  /\ T!MonthDays(y, m) \in 28..31
         /\ m = 2 => T!MonthDays(y, m) = 28 + (IF T!Leap(y) THEN 1 ELSE 0)
         /\ m \in {4, 6, 9, 11} => T!MonthDays(y, m) = 30
         /\ m \in {1, 3, 5, 7, 8, 10, 12} => T!MonthDays(y, m) = 31
  BY DEF T!MonthDays

\* Years follow one another.
LEMMA YearsFollow ==
  ASSUME NEW y \in Int
  PROVE  /\ YearStart(y) \in Int /\ YearStart(y + 1) \in Int
         /\ YearStart(y + 1) = YearStart(y) + 365 + (IF T!Leap(y) THEN 1 ELSE 0)
<1>1. YearStart(y) = 365 * (y - 1) + Leaps(y - 1) - Epoch
  BY SMT DEF YearStart
<1>2. YearStart(y + 1) = 365 * y + Leaps(y) - Epoch
  <2>1. y + 1 - 1 = y
    OBVIOUS
  <2> QED BY <2>1, SMT DEF YearStart
<1> QED BY <1>1, <1>2, LeapYears, EpochIs, SMT

\* A month begins when the one before has ended.
LEMMA MonthsFollow ==
  ASSUME NEW y \in Int, NEW m \in 1..12
  PROVE  /\ InYear(y, m) \in Nat
         /\ m < 12 => InYear(y, m + 1) = InYear(y, m) + T!MonthDays(y, m)
         /\ m = 12 => InYear(y, m) + T!MonthDays(y, m) = 365 + (IF T!Leap(y) THEN 1 ELSE 0)
  BY BeforeIs, MonthDaysAre DEF InYear

\* The number of a day of a month there is.
LEMMA DayNumberIs ==
  ASSUME NEW y \in Int, NEW m \in 1..12, NEW d \in Int
  PROVE  /\ T!DayNumber(y, m, d) \in Int /\ YearStart(y) \in Int /\ InYear(y, m) \in Int
         /\ T!DayNumber(y, m, d) = YearStart(y) + InYear(y, m) + d
<1>1. (m - 1) \div 12 = 0 /\ (m - 1) % 12 = m - 1
  OBVIOUS
<1>2. y + 0 = y /\ m - 1 + 1 = m
  OBVIOUS
<1>3. PICK b : b = T!Before[m] + (IF m > 2 /\ T!Leap(y) THEN 1 ELSE 0)
  OBVIOUS
<1>4. b \in Int /\ InYear(y, m) = b /\ T!Before[m] \in Int
  BY <1>3, BeforeIs DEF InYear
<1>5. PICK l : l = Leaps(y - 1)
  OBVIOUS
<1>6. l \in Int /\ YearStart(y) = 365 * (y - 1) + l - Epoch
  BY <1>5, LeapYears, SMT DEF YearStart
<1>7. T!DayNumber(y, m, d) =
        365 * (y - 1) + (y - 1) \div 4 - (y - 1) \div 100 + (y - 1) \div 400 + T!Before[m]
          + (IF m > 2 /\ T!Leap(y) THEN 1 ELSE 0) + d - Epoch
  BY <1>1, <1>2, SMT DEF T!DayNumber, Epoch
<1>8. l = (y - 1) \div 4 - (y - 1) \div 100 + (y - 1) \div 400
  BY <1>5 DEF Leaps
<1>9. T!DayNumber(y, m, d) = 365 * (y - 1) + l + b + d - Epoch
  <2> DEFINE leap == IF m > 2 /\ T!Leap(y) THEN 1 ELSE 0
             y4 == (y - 1) \div 4
             y100 == (y - 1) \div 100
             y400 == (y - 1) \div 400
  <2>1. leap \in Int /\ y4 \in Int /\ y100 \in Int /\ y400 \in Int
    OBVIOUS
  <2>2. b = T!Before[m] + leap /\ l = y4 - y100 + y400
    BY <1>3, <1>8
  <2>3. T!DayNumber(y, m, d) = 365 * (y - 1) + y4 - y100 + y400 + T!Before[m] + leap + d - Epoch
    BY <1>7
  <2> HIDE DEF leap, y4, y100, y400
  <2> QED BY <1>4, <2>1, <2>2, <2>3, EpochIs, SMT
<1> QED BY <1>4, <1>6, <1>9, EpochIs, SMT

\* Months are carried over.
LEMMA Carried ==
  ASSUME NEW y \in Int, NEW m \in Int, NEW d \in Int,
         NEW y2 \in Int, NEW m2 \in Int, 12 * y + m = 12 * y2 + m2
  PROVE  T!DayNumber(y, m, d) = T!DayNumber(y2, m2, d)
<1>1. y + (m - 1) \div 12 = y2 + (m2 - 1) \div 12 /\ (m - 1) % 12 = (m2 - 1) % 12
  <2>1. m2 - 1 = (m - 1) + 12 * (y - y2)
    OBVIOUS
  <2>2. PICK k \in Int : k = y - y2
    OBVIOUS
  <2>3. ((m - 1) + 12 * k) \div 12 = (m - 1) \div 12 + k /\ ((m - 1) + 12 * k) % 12 = (m - 1) % 12
    BY <2>2
  <2> QED BY <2>1, <2>2, <2>3
<1> QED BY <1>1 DEF T!DayNumber

\* The same day of the next month.
LEMMA NextMonth ==
  ASSUME NEW y \in Int, NEW m \in 1..12, NEW d \in Int
  PROVE  T!DayNumber(y, m + 1, d) = T!DayNumber(y, m, d) + T!MonthDays(y, m)
<1>1. CASE m < 12
  <2>1. m + 1 \in 1..12
    BY <1>1
  <2>2. T!DayNumber(y, m + 1, d) = YearStart(y) + InYear(y, m + 1) + d
    BY <2>1, DayNumberIs
  <2>3. T!DayNumber(y, m, d) = YearStart(y) + InYear(y, m) + d /\ YearStart(y) \in Int /\ InYear(y, m) \in Int
    BY DayNumberIs
  <2>4. InYear(y, m + 1) = InYear(y, m) + T!MonthDays(y, m)
    BY <1>1, MonthsFollow
  <2>5. T!MonthDays(y, m) \in Int
    BY MonthDaysAre
  <2> QED BY <2>2, <2>3, <2>4, <2>5
<1>2. CASE m = 12
  <2>1. T!DayNumber(y, m + 1, d) = T!DayNumber(y + 1, 1, d)
    BY <1>2, Carried
  <2>2. InYear(y + 1, 1) = 0 /\ y + 1 \in Int
    BY BeforeIs DEF InYear
  <2>3. T!DayNumber(y + 1, 1, d) = YearStart(y + 1) + d
    BY <2>2, DayNumberIs, YearsFollow
  <2>4. T!DayNumber(y, m, d) = YearStart(y) + InYear(y, m) + d /\ InYear(y, m) \in Int
    BY DayNumberIs
  <2>5. InYear(y, m) + T!MonthDays(y, m) = 365 + (IF T!Leap(y) THEN 1 ELSE 0)
    BY <1>2, MonthsFollow
  <2>6. T!MonthDays(y, m) \in Int
    BY MonthDaysAre
  <2>7. YearStart(y + 1) = YearStart(y) + 365 + (IF T!Leap(y) THEN 1 ELSE 0) /\ YearStart(y) \in Int
    BY YearsFollow
  <2> QED BY <2>1, <2>3, <2>4, <2>5, <2>6, <2>7
<1> QED BY <1>1, <1>2

\* Later days of a month have greater numbers.
LEMMA DayAdds ==
  ASSUME NEW y \in Int, NEW m \in 1..12, NEW d \in Int
  PROVE  T!DayNumber(y, m, 0) \in Int /\ T!DayNumber(y, m, d) = T!DayNumber(y, m, 0) + d
<1>1. T!DayNumber(y, m, d) = YearStart(y) + InYear(y, m) + d
      /\ YearStart(y) \in Int /\ InYear(y, m) \in Int
  BY DayNumberIs
<1>2. T!DayNumber(y, m, 0) = YearStart(y) + InYear(y, m) + 0
  <2> HIDE <1>1
  <2>1. 0 \in Int
    OBVIOUS
  <2> QED BY <2>1, DayNumberIs
<1> QED BY <1>1, <1>2

-----------------------------------------------------------------------------
(* Times. *)

\* The fields of a time.
LEMMA TimesAre ==
  ASSUME NEW t \in T!Times
  PROVE  /\ t.y \in Nat /\ t.m \in 1..12 /\ t.d \in 1..31 /\ t.h \in 0..23 /\ t.mi \in 0..59 /\ t.s \in 0..59
         /\ t.d <= T!MonthDays(t.y, t.m)
         /\ t.y \in Int /\ t.m \in Int /\ t.d \in Int /\ t.d - 1 \in Int /\ t.d - 1 + 1 = t.d
         /\ T!DayOf(t) \in Int /\ T!DayOf(t) = T!DayNumber(t.y, t.m, t.d)
<1>1. /\ t.y \in Nat /\ t.m \in 1..12 /\ t.d \in 1..31 /\ t.h \in 0..23 /\ t.mi \in 0..59 /\ t.s \in 0..59
      /\ t.d <= T!MonthDays(t.y, t.m)
  BY DEF T!Times
<1>2. t.y \in Int /\ t.m \in Int /\ t.d \in Int /\ t.d - 1 \in Int /\ t.d - 1 + 1 = t.d
  BY <1>1
<1>3. T!DayNumber(t.y, t.m, t.d) \in Int
  BY <1>1, <1>2, DayNumberIs
<1> QED BY <1>1, <1>2, <1>3 DEF T!DayOf

\* The day after has the next number.
LEMMA NextDayIs ==
  ASSUME NEW t \in T!Times
  PROVE  /\ T!NextDay(t).y \in Nat /\ T!NextDay(t).m \in 1..12 /\ T!NextDay(t).d \in 1..31
         /\ T!NextDay(t).h = 0 /\ T!NextDay(t).mi = 0 /\ T!NextDay(t).s = 0
         /\ T!DayNumber(T!NextDay(t).y, T!NextDay(t).m, T!NextDay(t).d) = T!DayOf(t) + 1
<1>1. /\ t.y \in Int /\ t.y \in Nat /\ t.m \in 1..12 /\ t.d \in Int /\ t.d \in 1..31
      /\ t.d <= T!MonthDays(t.y, t.m) /\ T!DayOf(t) = T!DayNumber(t.y, t.m, t.d)
  BY TimesAre
<1>2. T!MonthDays(t.y, t.m) \in 28..31
  BY <1>1, MonthDaysAre
<1>3. PICK z \in Int : z = T!DayNumber(t.y, t.m, 0)
  BY <1>1, DayAdds
<1>4. T!DayOf(t) = z + t.d
  BY <1>1, <1>3, DayAdds
<1>5. ASSUME NEW y \in Nat, NEW m \in 1..12, NEW d \in 1..31, T!NextDay(t) = T!Date(y, m, d),
             T!DayNumber(y, m, d) = z + t.d + 1
      PROVE  /\ T!NextDay(t).y \in Nat /\ T!NextDay(t).m \in 1..12 /\ T!NextDay(t).d \in 1..31
             /\ T!NextDay(t).h = 0 /\ T!NextDay(t).mi = 0 /\ T!NextDay(t).s = 0
             /\ T!DayNumber(T!NextDay(t).y, T!NextDay(t).m, T!NextDay(t).d) = T!DayOf(t) + 1
  BY <1>4, <1>5 DEF T!Date, T!Time
<1>6. CASE t.d < T!MonthDays(t.y, t.m)
  <2>1. T!NextDay(t) = T!Date(t.y, t.m, t.d + 1)
    BY <1>6 DEF T!NextDay
  <2>2. t.d + 1 \in 1..31 /\ t.d + 1 \in Int
    BY <1>1, <1>2, <1>6
  <2>3. T!DayNumber(t.y, t.m, t.d + 1) = z + (t.d + 1)
    BY <1>1, <1>3, <2>2, DayAdds
  <2>4. z + (t.d + 1) = z + t.d + 1
    BY <1>1
  <2> QED BY <1>1, <1>5, <2>1, <2>2, <2>3, <2>4
<1>7. CASE t.d = T!MonthDays(t.y, t.m)
  <2>1. T!DayNumber(t.y, t.m, 1) = z + 1
    <3>1. 1 \in Int
      OBVIOUS
    <3> QED BY <1>1, <1>3, <3>1, DayAdds
  <2>2. T!DayNumber(t.y, t.m + 1, 1) = z + 1 + t.d
    <3>1. 1 \in Int
      OBVIOUS
    <3> QED BY <1>1, <1>7, <2>1, <3>1, NextMonth
  <2>3. z + 1 + t.d = z + t.d + 1 /\ 1 \in 1..31
    BY <1>1
  <2>4. CASE t.m < 12
    <3>1. T!NextDay(t) = T!Date(t.y, t.m + 1, 1)
      BY <1>1, <1>7, <2>4 DEF T!NextDay
    <3>2. t.m + 1 \in 1..12
      BY <1>1, <2>4
    <3> QED BY <1>1, <1>5, <2>2, <2>3, <3>1, <3>2
  <2>5. CASE t.m = 12
    <3>1. T!NextDay(t) = T!Date(t.y + 1, 1, 1)
      BY <1>1, <1>7, <2>5 DEF T!NextDay
    <3>2. t.y + 1 \in Nat /\ 1 \in 1..12 /\ t.y + 1 \in Int /\ t.m + 1 \in Int /\ 1 \in Int
          /\ 12 * t.y + (t.m + 1) = 12 * (t.y + 1) + 1
      BY <1>1, <2>5
    <3>3. T!DayNumber(t.y, t.m + 1, 1) = T!DayNumber(t.y + 1, 1, 1)
      <4> DEFINE y == t.y
                 m == t.m + 1
                 y2 == t.y + 1
      <4>1. y \in Int /\ m \in Int /\ y2 \in Int /\ 1 \in Int /\ 12 * y + m = 12 * y2 + 1
        BY <1>1, <3>2
      <4> HIDE DEF y, m, y2
      <4>2. T!DayNumber(y, m, 1) = T!DayNumber(y2, 1, 1)
        BY <4>1, Carried
      <4> QED BY <4>2 DEF y, m, y2
    <3> QED BY <1>5, <2>2, <2>3, <3>1, <3>2, <3>3
  <2> QED BY <1>1, <2>4, <2>5
<1> QED BY <1>1, <1>2, <1>6, <1>7

\* Julian days are the calendar's.
LEMMA JulianIs ==
  ASSUME NEW t, t.y \in Nat, t.m \in 1..12, t.d \in 1..31
  PROVE  T!julianDay(t) = T!DayNumber(t.y, t.m, t.d) + Julian
<1>13. PICK y \in Nat, m \in 1..12, d \in 1..31 : t.y = y /\ t.m = m /\ t.d = d
  OBVIOUS
<1> SUFFICES T!julianDay(t) = T!DayNumber(y, m, d) + Julian
  BY <1>13
<1> DEFINE a == (14 - m) \div 12
           yy == y + 4800 - a
           mm == m + 12 * a - 3
           j == (153 * mm + 2) \div 5
<1>1. a = (IF m <= 2 THEN 1 ELSE 0)
  BY SMT
<1>2. /\ yy \div 4 = (y - a) \div 4 + 1200 /\ yy \div 100 = (y - a) \div 100 + 48
      /\ yy \div 400 = (y - a) \div 400 + 12
  BY <1>1, SMT
<1>3. T!julianDay(t) = d + j + 365 * yy + yy \div 4 - yy \div 100 + yy \div 400 - 32045
  BY <1>13, SMT DEF T!julianDay
<1>4. j = IF m <= 2 THEN T!Before[m] + 306 ELSE T!Before[m] - 59
  BY <1>1, BeforeIs, SMT
<1>0. y \in Int /\ d \in Int
  BY SMT
<1>11. T!Before[m] \in Int
  BY BeforeIs
<1>12. T!DayNumber(y, m, d) = YearStart(y) + InYear(y, m) + d
  BY <1>0, DayNumberIs
<1>5. T!DayNumber(y, m, d) = YearStart(y) + InYear(y, m) + d /\ T!Before[m] \in Int
  BY <1>11, <1>12
<1>6. PICK l \in Int : l = Leaps(y - a)
  BY <1>1, LeapYears, SMT
<1>7. yy \div 4 - yy \div 100 + yy \div 400 = l + 1164
  BY <1>1, <1>2, <1>6, SMT DEF Leaps
<1>8. T!julianDay(t) = d + j + 365 * yy + l + 1164 - 32045 /\ j \in Int /\ yy \in Int
  <2>1. yy \in Int /\ j \in Int
    BY <1>1, <1>4, <1>5, SMT
  <2> HIDE DEF j, yy
  <2> QED BY <1>3, <1>6, <1>7, <2>1, SMT
<1>9. CASE m <= 2
  <2>1. a = 1 /\ yy = y + 4799 /\ j = T!Before[m] + 306 /\ InYear(y, m) = T!Before[m]
    BY <1>1, <1>4, <1>5, <1>9, SMT DEF InYear
  <2>2. YearStart(y) = 365 * (y - 1) + l - Epoch
    BY <1>6, <2>1, SMT DEF YearStart
  <2> HIDE DEF j, yy, a
  <2> QED BY <1>5, <1>8, <2>1, <2>2, SMT DEF Epoch, Julian
<1>10. CASE m > 2
  <2> DEFINE leap == IF T!Leap(y) THEN 1 ELSE 0
  <2>1. a = 0 /\ yy = y + 4800 /\ j = T!Before[m] - 59 /\ InYear(y, m) = T!Before[m] + leap /\ leap \in Int
    BY <1>1, <1>4, <1>5, <1>10, SMT DEF InYear
  <2>2. PICK k \in Int : k = Leaps(y - 1)
    BY LeapYears, SMT
  <2>3. y - 0 = y
    OBVIOUS
  <2>4. l = k + leap
    BY <1>6, <2>1, <2>2, <2>3, LeapYears, SMT
  <2>5. YearStart(y) = 365 * (y - 1) + k - Epoch
    BY <2>2, SMT DEF YearStart
  <2> HIDE DEF j, yy, a, leap
  <2> QED BY <1>5, <1>8, <2>1, <2>4, <2>5, SMT DEF Epoch, Julian
<1> QED BY <1>9, <1>10, SMT

\* julianDay counts the days.
LEMMA JulianIsRight ==
  ASSUME NEW t \in T!Times
  PROVE  T!JulianRight(t)
<1> DEFINE n == T!NextDay(t)
<1>1. T!julianDay(t) = T!DayNumber(t.y, t.m, t.d) + Julian
  BY TimesAre, JulianIs
<1>2. T!julianDay(n) = T!DayNumber(n.y, n.m, n.d) + Julian
  BY NextDayIs, JulianIs
<1>3. T!DayNumber(n.y, n.m, n.d) = T!DayNumber(t.y, t.m, t.d) + 1
  BY NextDayIs, TimesAre
<1> QED BY <1>1, <1>2, <1>3, TimesAre, EpochIs, SMT DEF T!JulianRight, Julian

-----------------------------------------------------------------------------
(* Truncation and fields. *)

\* The instant of a day's midnight.
LEMMA MidnightIs ==
  ASSUME NEW y \in Int, NEW m \in 1..12, NEW d \in Int
  PROVE  T!Instant(T!Date(y, m, d)) = T!DayNumber(y, m, d) * 86400
<1>1. T!DayNumber(y, m, d) \in Int
  BY DayNumberIs
<1> QED BY <1>1, SMT DEF T!Instant, T!DayOf, T!Date, T!Time

\* The month a quarter begins with.
LEMMA QuartersAre ==
  ASSUME NEW m \in 1..12
  PROVE  /\ ((m - 1) \div 3) * 3 + 1 \in 1..12 /\ (m - 1) \div 3 \in Int
         /\ m % 3 = 1 => ((m - 1) \div 3) * 3 + 1 = m
         /\ m % 3 # 1 => m > 1 /\ ((m - 1) \div 3) * 3 + 1 = ((m - 1 - 1) \div 3) * 3 + 1
  OBVIOUS

\* Fields of a time: the six are in their ranges, the day perhaps past the month's.
Fields(t) ==
  t.y \in Int /\ t.m \in 1..12 /\ t.d \in Int /\ t.h \in 0..23 /\ t.mi \in 0..59 /\ t.s \in 0..59

\* dateTrunc, unit by unit.
LEMMA TruncIs ==
  ASSUME NEW t, Fields(t)
  PROVE  /\ T!DayOf(t) \in Int
         /\ T!dateTrunc("year", t) = T!DayNumber(t.y, 1, 1) * 86400
         /\ T!dateTrunc("quarter", t) = T!DayNumber(t.y, ((t.m - 1) \div 3) * 3 + 1, 1) * 86400
         /\ T!dateTrunc("month", t) = T!DayNumber(t.y, t.m, 1) * 86400
         /\ T!dateTrunc("week", t) = (T!DayOf(t) - ((T!Weekday(T!DayOf(t)) + 6) % 7)) * 86400
         /\ T!dateTrunc("day", t) = T!DayOf(t) * 86400
         /\ T!dateTrunc("hour", t) = T!DayOf(t) * 86400 + t.h * 3600
         /\ T!dateTrunc("minute", t) = T!DayOf(t) * 86400 + t.h * 3600 + t.mi * 60
         /\ T!dateTrunc("second", t) = T!Instant(t)
         /\ T!Instant(t) = T!DayOf(t) * 86400 + t.h * 3600 + t.mi * 60 + t.s
<1>0. t.y \in Int /\ t.m \in 1..12 /\ t.d \in Int /\ t.h \in 0..23 /\ t.mi \in 0..59 /\ t.s \in 0..59
  BY DEF Fields
<1>1. T!DayOf(t) \in Int /\ T!DayOf(t) = T!DayNumber(t.y, t.m, t.d)
  BY <1>0, DayNumberIs DEF T!DayOf
<1>2. 1 \in 1..12 /\ 1 \in Int
  OBVIOUS
<1>3. T!dateTrunc("year", t) = T!DayNumber(t.y, 1, 1) * 86400
  BY <1>0, <1>2, MidnightIs, SMT DEF T!dateTrunc
<1>4. T!dateTrunc("quarter", t) = T!DayNumber(t.y, ((t.m - 1) \div 3) * 3 + 1, 1) * 86400
  <2> DEFINE q == ((t.m - 1) \div 3) * 3 + 1
  <2>1. q \in 1..12
    BY <1>0, QuartersAre
  <2>2. T!dateTrunc("quarter", t) = T!Instant(T!Date(t.y, q, 1))
    BY SMT DEF T!dateTrunc
  <2> HIDE DEF q
  <2> QED BY <1>0, <1>2, <2>1, <2>2, MidnightIs, SMT DEF q
<1>5. T!dateTrunc("month", t) = T!DayNumber(t.y, t.m, 1) * 86400
  BY <1>0, <1>2, MidnightIs, SMT DEF T!dateTrunc
<1>6. T!dateTrunc("week", t) = (T!DayOf(t) - ((T!Weekday(T!DayOf(t)) + 6) % 7)) * 86400
  BY SMT DEF T!dateTrunc
<1>7. T!dateTrunc("day", t) = T!DayOf(t) * 86400
  <2>1. T!dateTrunc("day", t) = T!Instant(T!Date(t.y, t.m, t.d))
    BY SMT DEF T!dateTrunc
  <2> QED BY <1>0, <1>1, <2>1, MidnightIs, SMT
<1>8. T!dateTrunc("hour", t) = T!DayOf(t) * 86400 + t.h * 3600
  <2>1. T!dateTrunc("hour", t) = T!Instant(T!Time(t.y, t.m, t.d, t.h, 0, 0))
    BY SMT DEF T!dateTrunc
  <2> QED BY <1>0, <1>1, <2>1, SMT DEF T!Instant, T!Time, T!DayOf
<1>9. T!dateTrunc("minute", t) = T!DayOf(t) * 86400 + t.h * 3600 + t.mi * 60
  <2>1. T!dateTrunc("minute", t) = T!Instant(T!Time(t.y, t.m, t.d, t.h, t.mi, 0))
    BY SMT DEF T!dateTrunc
  <2> QED BY <1>0, <1>1, <2>1, SMT DEF T!Instant, T!Time, T!DayOf
<1>10. T!dateTrunc("second", t) = T!Instant(t)
  BY SMT DEF T!dateTrunc
<1>11. T!Instant(t) = T!DayOf(t) * 86400 + t.h * 3600 + t.mi * 60 + t.s
  BY SMT DEF T!Instant
<1> QED BY <1>1, <1>3, <1>4, <1>5, <1>6, <1>7, <1>8, <1>9, <1>10, <1>11, SMT

\* What begins at a time.
LEMMA BeginsAre ==
  ASSUME NEW t
  PROVE  /\ "year" \in T!Begins(t) <=> t.h = 0 /\ t.mi = 0 /\ t.s = 0 /\ t.d = 1 /\ t.m = 1
         /\ "quarter" \in T!Begins(t) <=> t.h = 0 /\ t.mi = 0 /\ t.s = 0 /\ t.d = 1 /\ t.m % 3 = 1
         /\ "month" \in T!Begins(t) <=> t.h = 0 /\ t.mi = 0 /\ t.s = 0 /\ t.d = 1
         /\ "week" \in T!Begins(t) <=> t.h = 0 /\ t.mi = 0 /\ t.s = 0 /\ T!Weekday(T!DayOf(t)) = 1
         /\ "day" \in T!Begins(t) <=> t.h = 0 /\ t.mi = 0 /\ t.s = 0
         /\ "hour" \in T!Begins(t) <=> t.mi = 0 /\ t.s = 0
         /\ "minute" \in T!Begins(t) <=> t.s = 0
         /\ "second" \in T!Begins(t)
  BY DEF T!Begins, T!Units

\* The truncations of the same day are the same.
LEMMA SameDay ==
  ASSUME NEW t, Fields(t), NEW n, Fields(n), n.y = t.y, n.m = t.m, n.d = t.d
  PROVE  /\ T!DayOf(n) = T!DayOf(t)
         /\ T!dateTrunc("year", n) = T!dateTrunc("year", t)
         /\ T!dateTrunc("quarter", n) = T!dateTrunc("quarter", t)
         /\ T!dateTrunc("month", n) = T!dateTrunc("month", t)
         /\ T!dateTrunc("week", n) = T!dateTrunc("week", t)
         /\ T!dateTrunc("day", n) = T!dateTrunc("day", t)
<1>1. T!DayOf(n) = T!DayOf(t)
  BY DEF T!DayOf
<1> QED BY <1>1, TruncIs, SMT

\* What has to hold of a unit.
Follows(u, n, t) ==
  T!dateTrunc(u, n) = IF u \in T!Begins(n) THEN T!Instant(n) ELSE T!dateTrunc(u, t)

\* A second later on the same day.
LEMMA SecondsFollow ==
  ASSUME NEW t, Fields(t), NEW n, Fields(n), n.y = t.y, n.m = t.m, n.d = t.d,
         ~(n.h = 0 /\ n.mi = 0 /\ n.s = 0),
         (n.mi = 0 /\ n.s = 0) \/ n.h = t.h, n.s = 0 \/ n.mi = t.mi
  PROVE  \A u \in T!Units : Follows(u, n, t)
<1>1. Follows("year", n, t) /\ Follows("quarter", n, t) /\ Follows("month", n, t) /\ Follows("week", n, t)
      /\ Follows("day", n, t)
  BY SameDay, BeginsAre, SMT DEF Follows
<1>2. PICK D \in Int : D = T!DayOf(n) /\ D = T!DayOf(t)
  BY SameDay, TruncIs, SMT
<1>3. n.h \in 0..23 /\ n.mi \in 0..59 /\ n.s \in 0..59 /\ t.h \in 0..23 /\ t.mi \in 0..59
  BY DEF Fields
<1>8. /\ T!dateTrunc("hour", n) = T!DayOf(n) * 86400 + n.h * 3600
      /\ T!dateTrunc("hour", t) = T!DayOf(t) * 86400 + t.h * 3600
      /\ T!dateTrunc("minute", n) = T!DayOf(n) * 86400 + n.h * 3600 + n.mi * 60
      /\ T!dateTrunc("minute", t) = T!DayOf(t) * 86400 + t.h * 3600 + t.mi * 60
  <2>2. T!dateTrunc("hour", n) = T!DayOf(n) * 86400 + n.h * 3600
    BY TruncIs, SMT
  <2>3. T!dateTrunc("hour", t) = T!DayOf(t) * 86400 + t.h * 3600
    BY TruncIs, SMT
  <2>4. T!dateTrunc("minute", n) = T!DayOf(n) * 86400 + n.h * 3600 + n.mi * 60
    BY TruncIs, SMT
  <2>5. T!dateTrunc("minute", t) = T!DayOf(t) * 86400 + t.h * 3600 + t.mi * 60
    BY TruncIs, SMT
  <2> QED BY <2>2, <2>3, <2>4, <2>5
<1>4. T!Instant(n) = D * 86400 + n.h * 3600 + n.mi * 60 + n.s
  <2>1. T!Instant(n) = T!DayOf(n) * 86400 + n.h * 3600 + n.mi * 60 + n.s
    BY TruncIs, SMT
  <2>2. T!DayOf(n) = D
    BY <1>2
  <2> QED BY <2>1, <2>2, SMT
<1>5. Follows("hour", n, t)
  <2>1. T!dateTrunc("hour", n) = D * 86400 + n.h * 3600 /\ T!dateTrunc("hour", t) = D * 86400 + t.h * 3600
    BY <1>2, <1>8, SMT
  <2>2. "hour" \in T!Begins(n) <=> n.mi = 0 /\ n.s = 0
    BY BeginsAre, SMT
  <2> QED BY <1>3, <1>4, <2>1, <2>2, SMT DEF Follows
<1>6. Follows("minute", n, t)
  <2>1. T!dateTrunc("minute", n) = D * 86400 + n.h * 3600 + n.mi * 60
        /\ T!dateTrunc("minute", t) = D * 86400 + t.h * 3600 + t.mi * 60
    BY <1>2, <1>8, SMT
  <2>2. "minute" \in T!Begins(n) <=> n.s = 0
    BY BeginsAre, SMT
  <2>3. CASE n.s = 0
    BY <1>3, <1>4, <2>1, <2>2, <2>3, SMT DEF Follows
  <2>4. CASE n.s # 0
    BY <1>3, <1>4, <2>1, <2>2, <2>4, SMT DEF Follows
  <2> QED BY <2>3, <2>4
<1>7. Follows("second", n, t)
  BY TruncIs, BeginsAre, SMT DEF Follows
<1> QED BY <1>1, <1>5, <1>6, <1>7 DEF T!Units

\* What the next day is.
LEMMA NextDayFields ==
  ASSUME NEW t \in T!Times
  PROVE  \/ T!NextDay(t).y = t.y /\ T!NextDay(t).m = t.m /\ T!NextDay(t).d # 1
         \/ T!NextDay(t).y = t.y /\ t.m < 12 /\ T!NextDay(t).m = t.m + 1 /\ T!NextDay(t).d = 1
         \/ T!NextDay(t).m = 1 /\ T!NextDay(t).d = 1
<1>1. t.d \in 1..31 /\ t.m \in 1..12
  BY TimesAre
<1>2. t.d + 1 # 1
  BY <1>1
<1> QED BY <1>2 DEF T!NextDay, T!Date, T!Time

\* At midnight.
LEMMA DaysFollow ==
  ASSUME NEW t \in T!Times
  PROVE  \A u \in T!Units : Follows(u, T!NextDay(t), t)
<1>0. PICK n : n = T!NextDay(t)
  OBVIOUS
<1>1. /\ n.y \in Nat /\ n.m \in 1..12 /\ n.d \in 1..31 /\ n.h = 0 /\ n.mi = 0 /\ n.s = 0
      /\ T!DayNumber(n.y, n.m, n.d) = T!DayOf(t) + 1
  BY <1>0, NextDayIs
<1>2. \/ n.y = t.y /\ n.m = t.m /\ n.d # 1
      \/ n.y = t.y /\ t.m < 12 /\ n.m = t.m + 1 /\ n.d = 1
      \/ n.m = 1 /\ n.d = 1
  BY <1>0, NextDayFields
<1>3. Fields(n) /\ Fields(t) /\ t.m \in 1..12
  BY <1>1, TimesAre DEF Fields
<1>4. PICK D \in Int : D = T!DayOf(t)
  BY TimesAre
<1>5. T!DayOf(n) = D + 1 /\ T!Instant(n) = (D + 1) * 86400
  <2>1. T!DayOf(n) = D + 1
    BY <1>1, <1>4 DEF T!DayOf
  <2> QED BY <1>1, <1>3, <2>1, TruncIs, SMT
<1>6. Follows("day", n, t) /\ Follows("hour", n, t) /\ Follows("minute", n, t) /\ Follows("second", n, t)
  BY <1>1, <1>3, <1>5, TruncIs, BeginsAre, SMT DEF Follows
<1>7. Follows("year", n, t)
  <2>1. T!dateTrunc("year", n) = T!DayNumber(n.y, 1, 1) * 86400
        /\ T!dateTrunc("year", t) = T!DayNumber(t.y, 1, 1) * 86400
    BY <1>3, TruncIs, SMT
  <2>2. "year" \in T!Begins(n) <=> n.d = 1 /\ n.m = 1
    BY <1>1, BeginsAre, SMT
  <2>3. CASE n.d = 1 /\ n.m = 1
    BY <1>1, <1>4, <1>5, <2>1, <2>2, <2>3, SMT DEF Follows
  <2>4. CASE ~(n.d = 1 /\ n.m = 1)
    <3>1. n.y = t.y
      BY <1>2, <2>4
    <3> QED BY <2>1, <2>2, <2>4, <3>1, SMT DEF Follows
  <2> QED BY <2>3, <2>4
<1>8. Follows("month", n, t)
  <2>1. T!dateTrunc("month", n) = T!DayNumber(n.y, n.m, 1) * 86400
        /\ T!dateTrunc("month", t) = T!DayNumber(t.y, t.m, 1) * 86400
    BY <1>3, TruncIs, SMT
  <2>2. "month" \in T!Begins(n) <=> n.d = 1
    BY <1>1, BeginsAre, SMT
  <2>3. CASE n.d = 1
    BY <1>1, <1>4, <1>5, <2>1, <2>2, <2>3, SMT DEF Follows
  <2>4. CASE n.d # 1
    BY <1>2, <2>1, <2>2, <2>4, SMT DEF Follows
  <2> QED BY <2>3, <2>4
<1>9. Follows("quarter", n, t)
  <2>1. T!dateTrunc("quarter", n) = T!DayNumber(n.y, ((n.m - 1) \div 3) * 3 + 1, 1) * 86400
        /\ T!dateTrunc("quarter", t) = T!DayNumber(t.y, ((t.m - 1) \div 3) * 3 + 1, 1) * 86400
    BY <1>3, TruncIs, SMT
  <2>2. "quarter" \in T!Begins(n) <=> n.d = 1 /\ n.m % 3 = 1
    BY <1>1, BeginsAre, SMT
  <2>3. CASE n.d = 1 /\ n.m % 3 = 1
    <3>1. ((n.m - 1) \div 3) * 3 + 1 = n.m
      BY <1>1, <2>3, QuartersAre
    <3>2. T!DayNumber(n.y, ((n.m - 1) \div 3) * 3 + 1, 1) = T!DayNumber(n.y, n.m, n.d)
      BY <2>3, <3>1
    <3> HIDE <3>1
    <3> QED BY <1>1, <1>4, <1>5, <2>1, <2>2, <2>3, <3>2, SMT DEF Follows
  <2>4. CASE ~(n.d = 1 /\ n.m % 3 = 1)
    <3>1. n.y = t.y /\ ((n.m - 1) \div 3) * 3 + 1 = ((t.m - 1) \div 3) * 3 + 1
      <4>1. CASE n.y = t.y /\ n.m = t.m
        BY <4>1
      <4>2. CASE n.y = t.y /\ t.m < 12 /\ n.m = t.m + 1 /\ n.d = 1
        <5>1. n.m % 3 # 1 /\ n.m - 1 - 1 = t.m - 1
          BY <1>3, <2>4, <4>2
        <5> QED BY <1>1, <4>2, <5>1, QuartersAre
      <4>3. CASE n.m = 1 /\ n.d = 1
        BY <2>4, <4>3
      <4> QED BY <1>2, <4>1, <4>2, <4>3
    <3>2. T!DayNumber(n.y, ((n.m - 1) \div 3) * 3 + 1, 1) = T!DayNumber(t.y, ((t.m - 1) \div 3) * 3 + 1, 1)
      BY <3>1
    <3> HIDE <3>1
    <3> QED BY <2>1, <2>2, <2>4, <3>2, SMT DEF Follows
  <2> QED BY <2>3, <2>4
<1>10. Follows("week", n, t)
  <2>1. T!dateTrunc("week", n) = (D + 1 - (((((D + 1) + 6) % 7) + 6) % 7)) * 86400
        /\ T!dateTrunc("week", t) = (D - ((((D + 6) % 7) + 6) % 7)) * 86400
    BY <1>3, <1>4, <1>5, TruncIs, SMT DEF T!Weekday
  <2>2. "week" \in T!Begins(n) <=> ((D + 1) + 6) % 7 = 1
    BY <1>1, <1>5, BeginsAre, SMT DEF T!Weekday
  <2>3. ((D + 1) + 6) % 7 = 1 => ((((D + 1) + 6) % 7) + 6) % 7 = 0
    BY <1>4
  <2>4. ((D + 1) + 6) % 7 # 1 => ((((D + 1) + 6) % 7) + 6) % 7 = ((((D + 6) % 7) + 6) % 7) + 1
    BY <1>4
  <2> DEFINE w == ((((D + 1) + 6) % 7) + 6) % 7
             v == (((D + 6) % 7) + 6) % 7
  <2>5. w \in Int /\ v \in Int
    BY <1>4
  <2>6. CASE ((D + 1) + 6) % 7 = 1
    <3>1. T!dateTrunc("week", n) = (D + 1 - 0) * 86400
      BY <2>1, <2>3, <2>6, SMT
    <3> QED BY <1>4, <1>5, <2>2, <2>6, <3>1, SMT DEF Follows
  <2>7. CASE ((D + 1) + 6) % 7 # 1
    <3>1. w = v + 1
      BY <2>4, <2>7
    <3>2. T!dateTrunc("week", n) = (D + 1 - w) * 86400 /\ T!dateTrunc("week", t) = (D - v) * 86400
      BY <2>1, SMT
    <3>3. "week" \notin T!Begins(n)
      BY <2>2, <2>7, SMT
    <3> HIDE DEF w, v
    <3>4. D + 1 - w = D - v
      BY <1>4, <2>5, <3>1
    <3> QED BY <3>2, <3>3, <3>4, SMT DEF Follows
  <2> QED BY <2>6, <2>7
<1> QED BY <1>0, <1>6, <1>7, <1>8, <1>9, <1>10 DEF T!Units

\* dateTrunc goes back to where the unit began.
LEMMA TruncIsRight ==
  ASSUME NEW t \in T!Times
  PROVE  T!TruncRight(t)
<1>1. Fields(t) /\ t.y \in Nat /\ t.m \in 1..12 /\ t.d \in 1..31 /\ t.h \in 0..23 /\ t.mi \in 0..59 /\ t.s \in 0..59
  BY TimesAre DEF Fields
<1>2. \A u \in T!Units : Follows(u, T!NextSecond(t), t)
  <2>0. t \in [y : Nat, m : 1..12, d : 1..31, h : 0..23, mi : 0..59, s : 0..59]
    BY DEF T!Times
  <2>1. CASE t.s < 59
    <3>1. PICK n : n = [t EXCEPT !.s = t.s + 1]
      OBVIOUS
    <3>2. T!NextSecond(t) = n
      BY <2>1, <3>1 DEF T!NextSecond
    <3>3. n.y = t.y /\ n.m = t.m /\ n.d = t.d /\ n.h = t.h /\ n.mi = t.mi /\ n.s = t.s + 1
      BY <2>0, <3>1
    <3>4. Fields(n) /\ n.s # 0
      BY <1>1, <2>1, <3>3 DEF Fields
    <3> QED BY <1>1, <3>2, <3>3, <3>4, SecondsFollow
  <2>2. CASE ~(t.s < 59) /\ t.mi < 59
    <3>1. PICK n : n = [t EXCEPT !.mi = t.mi + 1, !.s = 0]
      OBVIOUS
    <3>2. T!NextSecond(t) = n
      BY <2>2, <3>1 DEF T!NextSecond
    <3>3. n.y = t.y /\ n.m = t.m /\ n.d = t.d /\ n.h = t.h /\ n.mi = t.mi + 1 /\ n.s = 0
      BY <2>0, <3>1
    <3>4. Fields(n) /\ n.mi # 0
      BY <1>1, <2>2, <3>3 DEF Fields
    <3> QED BY <1>1, <3>2, <3>3, <3>4, SecondsFollow
  <2>3. CASE ~(t.s < 59) /\ ~(t.mi < 59) /\ t.h < 23
    <3>1. PICK n : n = [t EXCEPT !.h = t.h + 1, !.mi = 0, !.s = 0]
      OBVIOUS
    <3>2. T!NextSecond(t) = n
      BY <2>3, <3>1 DEF T!NextSecond
    <3>3. n.y = t.y /\ n.m = t.m /\ n.d = t.d /\ n.h = t.h + 1 /\ n.mi = 0 /\ n.s = 0
      BY <2>0, <3>1
    <3>4. Fields(n) /\ n.h # 0
      BY <1>1, <2>3, <3>3 DEF Fields
    <3> QED BY <1>1, <3>2, <3>3, <3>4, SecondsFollow
  <2>4. CASE ~(t.s < 59) /\ ~(t.mi < 59) /\ ~(t.h < 23)
    <3>1. T!NextSecond(t) = T!NextDay(t)
      BY <2>4 DEF T!NextSecond
    <3> QED BY <3>1, DaysFollow
  <2> QED BY <2>1, <2>2, <2>3, <2>4
<1> QED BY <1>2 DEF T!TruncRight, Follows

\* datePart counts the units.
LEMMA PartIsRight ==
  ASSUME NEW t \in T!Times
  PROVE  T!PartRight(t)
<1>1. Fields(t) /\ t.y \in Nat /\ t.m \in 1..12 /\ t.d \in 1..31 /\ t.h \in 0..23
  BY TimesAre DEF Fields
<1>2. PICK D \in Int : D = T!DayOf(t)
  BY TimesAre
<1>3. PICK J \in Int : J = T!DayNumber(t.y, 1, 1)
  <2>1. 1 \in 1..12 /\ 1 \in Int /\ t.y \in Int
    BY <1>1
  <2> QED BY <2>1, DayNumberIs
<1>4. /\ T!dateTrunc("day", t) = D * 86400 /\ T!dateTrunc("year", t) = J * 86400
      /\ T!dateTrunc("week", t) = (D - ((T!Weekday(D) + 6) % 7)) * 86400
  BY <1>1, <1>2, <1>3, TruncIs, SMT
<1>5. T!datePart("doy", t) = D - J + 1 /\ (D * 86400 - J * 86400) \div 86400 = D - J
  BY <1>2, <1>3, SMT DEF T!datePart
<1>6. PICK w \in 0..6 : w = T!Weekday(D)
  BY <1>2 DEF T!Weekday
<1>7. T!datePart("isodow", t) = ((w + 6) % 7) + 1 /\ T!datePart("dow", t) = w
  <2>1. T!datePart("isodow", t) = (IF w = 0 THEN 7 ELSE w) /\ T!datePart("dow", t) = w
    BY <1>2, <1>6, SMT DEF T!datePart, T!tcISODow
  <2> QED BY <1>6, <2>1
<1>8. PICK v \in 0..6 : v = (w + 6) % 7
  BY <1>6
<1>9. (D * 86400 - (D - v) * 86400) \div 86400 = v /\ (v + 1) % 7 = w
  BY <1>6, <1>8, SMT
<1>10. T!dateTrunc("quarter", t) = T!Instant(T!Date(t.y, 3 * T!datePart("quarter", t) - 2, 1))
  <2>1. PICK k \in Int : k = (t.m - 1) \div 3
    BY <1>1
  <2>2. T!datePart("quarter", t) = k + 1
    BY <2>1 DEF T!datePart
  <2>3. 3 * (k + 1) - 2 = k * 3 + 1
    BY <2>1
  <2> QED BY <2>1, <2>2, <2>3, SMT DEF T!dateTrunc
<1>11. LET c == T!datePart("century", t) IN 100 * (c - 1) < t.y /\ t.y <= 100 * c
  BY <1>1 DEF T!datePart
<1>12. t.h = (T!tc12(t) % 12) + (IF T!tcMeridiem(t) = "pm" THEN 12 ELSE 0)
  BY <1>1 DEF T!tc12, T!tcMeridiem
<1>13. T!datePart("doy", t) = (T!dateTrunc("day", t) - T!dateTrunc("year", t)) \div 86400 + 1
  BY <1>4, <1>5, SMT
<1>14. T!datePart("isodow", t) = (T!dateTrunc("day", t) - T!dateTrunc("week", t)) \div 86400 + 1
  BY <1>4, <1>6, <1>7, <1>8, <1>9, SMT
<1>15. T!datePart("dow", t) = T!datePart("isodow", t) % 7
  BY <1>7, <1>8, <1>9, SMT
<1> QED BY <1>10, <1>11, <1>12, <1>13, <1>14, <1>15, SMT DEF T!PartRight

-----------------------------------------------------------------------------
(* Ages. *)

\* The second of the day.
Clock(t) == t.h * 3600 + t.mi * 60 + t.s

\* It is one.
LEMMA ClockIs ==
  ASSUME NEW t, Fields(t)
  PROVE  Clock(t) \in Nat /\ Clock(t) < 86400 /\ T!DayOf(t) \in Int /\ T!Instant(t) = T!DayOf(t) * 86400 + Clock(t)
<1>1. t.h \in 0..23 /\ t.mi \in 0..59 /\ t.s \in 0..59
  BY DEF Fields
<1>2. Clock(t) \in Nat /\ Clock(t) < 86400
  <2>1. t.h \in Nat /\ t.h <= 23
    BY <1>1
  <2>2. t.mi \in Nat /\ t.mi <= 59
    BY <1>1
  <2>3. t.s \in Nat /\ t.s <= 59
    BY <1>1
  <2> QED BY <2>1, <2>2, <2>3, SMT DEF Clock
<1>3. T!DayOf(t) \in Int
  BY TruncIs, SMT
<1>4. T!Instant(t) = T!DayOf(t) * 86400 + t.h * 3600 + t.mi * 60 + t.s
  BY SMT DEF T!Instant
<1>5. T!Instant(t) = T!DayOf(t) * 86400 + Clock(t)
  <2>1. PICK D \in Int : D = T!DayOf(t)
    BY <1>3
  <2>2. PICK h \in Int : h = t.h
    BY <1>1
  <2>3. PICK mi \in Int : mi = t.mi
    BY <1>1
  <2>4. PICK s \in Int : s = t.s
    BY <1>1
  <2>5. T!Instant(t) = D * 86400 + h * 3600 + mi * 60 + s
    BY <1>4, <2>1, <2>2, <2>3, <2>4, SMT
  <2>6. Clock(t) = h * 3600 + mi * 60 + s
    BY <2>2, <2>3, <2>4, SMT DEF Clock
  <2>7. D * 86400 + h * 3600 + mi * 60 + s = D * 86400 + (h * 3600 + mi * 60 + s)
    BY SMT
  <2> QED BY <2>1, <2>5, <2>6, <2>7, SMT
<1> QED BY <1>2, <1>3, <1>5

\* A year ends before a later one begins.
LEMMA YearsOrdered ==
  ASSUME NEW y \in Int, NEW z \in Int, y < z
  PROVE  YearStart(y + 1) <= YearStart(z)
<1>1. CASE z = y + 1
  BY <1>1, YearsFollow
<1>2. CASE z > y + 1
  <2> DEFINE a == y \div 4
             b == y \div 100
             c == y \div 400
             d == (z - 1) \div 4
             e == (z - 1) \div 100
             f == (z - 1) \div 400
  <2>1. /\ a \in Int /\ b \in Int /\ c \in Int /\ d \in Int /\ e \in Int /\ f \in Int
        /\ 4 * a <= y /\ y < 4 * a + 4 /\ 100 * b <= y /\ y < 100 * b + 100 /\ 400 * c <= y /\ y < 400 * c + 400
        /\ 4 * d <= z - 1 /\ z - 1 < 4 * d + 4 /\ 100 * e <= z - 1 /\ z - 1 < 100 * e + 100
        /\ 400 * f <= z - 1 /\ z - 1 < 400 * f + 400
    BY SMT
  <2>2. Leaps(y) = a - b + c /\ Leaps(z - 1) = d - e + f
    BY DEF Leaps
  <2>3. y + 1 - 1 = y
    OBVIOUS
  <2>4. YearStart(y + 1) = 365 * y + Leaps(y) - Epoch /\ YearStart(z) = 365 * (z - 1) + Leaps(z - 1) - Epoch
    BY <2>3 DEF YearStart
  <2> HIDE DEF a, b, c, d, e, f
  <2> QED BY <1>2, <2>1, <2>2, <2>4, EpochIs, SMT
<1> QED BY <1>1, <1>2

\* A month ends before a later one begins, and with the year at last.
LEMMA MonthsOrdered ==
  ASSUME NEW y \in Int, NEW m \in 1..12, NEW k \in 1..12
  PROVE  /\ m < k => InYear(y, m) + T!MonthDays(y, m) <= InYear(y, k)
         /\ InYear(y, m) + T!MonthDays(y, m) <= 365 + (IF T!Leap(y) THEN 1 ELSE 0)
<1> DEFINE l == IF T!Leap(y) THEN 1 ELSE 0
<1>1. /\ InYear(y, m) = T!Before[m] + (IF m > 2 THEN l ELSE 0)
      /\ InYear(y, k) = T!Before[k] + (IF k > 2 THEN l ELSE 0)
  BY DEF InYear
<1>2. l \in {0, 1}
  OBVIOUS
<1>3. /\ T!MonthDays(y, m) \in 28..31
      /\ m = 2 => T!MonthDays(y, m) = 28 + l
      /\ m \in {4, 6, 9, 11} => T!MonthDays(y, m) = 30
      /\ m \in {1, 3, 5, 7, 8, 10, 12} => T!MonthDays(y, m) = 31
  BY MonthDaysAre
<1> HIDE DEF l
<1>4. m < k => InYear(y, m) + T!MonthDays(y, m) <= InYear(y, k)
  BY <1>1, <1>2, <1>3, BeforeIs
<1>5. InYear(y, m) + T!MonthDays(y, m) <= 365 + l
  BY <1>1, <1>2, <1>3, BeforeIs
<1> QED BY <1>4, <1>5 DEF l

\* Days are in the order of their years, months and days of the month.
LEMMA DaysOrdered ==
  ASSUME NEW t \in T!Times, NEW u \in T!Times
  PROVE  /\ t.y < u.y => T!DayOf(t) < T!DayOf(u)
         /\ t.y = u.y /\ t.m < u.m => T!DayOf(t) < T!DayOf(u)
         /\ t.y = u.y /\ t.m = u.m => T!DayOf(u) - T!DayOf(t) = u.d - t.d
<1>1. /\ t.y \in Int /\ t.m \in 1..12 /\ t.d \in Int /\ t.d >= 1 /\ t.d <= T!MonthDays(t.y, t.m)
      /\ T!DayOf(t) = T!DayNumber(t.y, t.m, t.d)
  BY TimesAre
<1>2. u.y \in Int /\ u.m \in 1..12 /\ u.d \in Int /\ u.d >= 1 /\ T!DayOf(u) = T!DayNumber(u.y, u.m, u.d)
  BY TimesAre
<1>3. /\ T!DayOf(t) = YearStart(t.y) + InYear(t.y, t.m) + t.d
      /\ YearStart(t.y) \in Int /\ InYear(t.y, t.m) \in Int
  BY <1>1, DayNumberIs
<1>4. /\ T!DayOf(u) = YearStart(u.y) + InYear(u.y, u.m) + u.d
      /\ YearStart(u.y) \in Int /\ InYear(u.y, u.m) \in Int
  BY <1>2, DayNumberIs
<1>5. T!MonthDays(t.y, t.m) \in Int
  BY <1>1, MonthDaysAre
<1>6. ASSUME t.y < u.y PROVE T!DayOf(t) < T!DayOf(u)
  <2>1. YearStart(t.y + 1) <= YearStart(u.y)
    BY <1>1, <1>2, <1>6, YearsOrdered
  <2>2. YearStart(t.y + 1) = YearStart(t.y) + 365 + (IF T!Leap(t.y) THEN 1 ELSE 0)
    BY <1>1, YearsFollow
  <2>3. InYear(t.y, t.m) + T!MonthDays(t.y, t.m) <= 365 + (IF T!Leap(t.y) THEN 1 ELSE 0)
    <3>1. 12 \in 1..12
      OBVIOUS
    <3> QED BY <1>1, <3>1, MonthsOrdered
  <2>5. InYear(u.y, u.m) \in Nat
    BY <1>2, MonthsFollow
  <2>4. InYear(u.y, u.m) >= 0
    BY <2>5
  <2> QED BY <1>1, <1>2, <1>3, <1>4, <1>5, <2>1, <2>2, <2>3, <2>4
<1>7. ASSUME t.y = u.y, t.m < u.m PROVE T!DayOf(t) < T!DayOf(u)
  <2>1. InYear(t.y, t.m) + T!MonthDays(t.y, t.m) <= InYear(t.y, u.m)
    BY <1>1, <1>2, <1>7, MonthsOrdered
  <2> QED BY <1>1, <1>2, <1>3, <1>4, <1>5, <1>7, <2>1
<1>8. ASSUME t.y = u.y, t.m = u.m PROVE T!DayOf(u) - T!DayOf(t) = u.d - t.d
  BY <1>1, <1>2, <1>3, <1>4, <1>8
<1> QED BY <1>6, <1>7, <1>8

\* Instants are in the order of days and seconds.
LEMMA ClocksOrdered ==
  ASSUME NEW D \in Int, NEW c \in Nat, NEW E \in Int, NEW e \in Nat, c < 86400, e < 86400
  PROVE  D * 86400 + c >= E * 86400 + e <=> D > E \/ (D = E /\ c >= e)
  BY SMT

\* The later of two times is on the later day, or at the later second of the day.
LEMMA LaterOf ==
  ASSUME NEW a \in T!Times, NEW b \in T!Times, T!Instant(a) >= T!Instant(b)
  PROVE  T!DayOf(a) > T!DayOf(b) \/ (T!DayOf(a) = T!DayOf(b) /\ Clock(a) >= Clock(b))
<1>1. Fields(a) /\ Fields(b)
  BY TimesAre DEF Fields
<1>2. Clock(a) \in Nat /\ Clock(a) < 86400 /\ T!DayOf(a) \in Int /\ T!Instant(a) = T!DayOf(a) * 86400 + Clock(a)
  BY <1>1, ClockIs
<1>3. Clock(b) \in Nat /\ Clock(b) < 86400 /\ T!DayOf(b) \in Int /\ T!Instant(b) = T!DayOf(b) * 86400 + Clock(b)
  BY <1>1, ClockIs
<1> QED BY <1>2, <1>3, ClocksOrdered

\* The second of the day tells hour, minute and second.
LEMMA ClockDiffers ==
  ASSUME NEW h \in Nat, NEW i \in Nat, NEW s \in Nat, NEW j \in Nat, NEW k \in Nat, NEW u \in Nat,
         i < 60, s < 60, k < 60, u < 60, h * 3600 + i * 60 + s = j * 3600 + k * 60 + u
  PROVE  h = j /\ i = k /\ s = u
<1>1. PICK v \in Int : v = h - j
  OBVIOUS
<1>2. PICK w \in Int : w = i - k
  OBVIOUS
<1>3. v * 3600 + w * 60 = u - s
  BY <1>1, <1>2
<1>4. (v * 60 + w) * 60 = v * 3600 + w * 60
  OBVIOUS
<1>5. v * 60 + w = 0
  BY <1>3, <1>4
<1>6. v = 0
  BY <1>2, <1>5
<1> QED BY <1>1, <1>2, <1>3, <1>5, <1>6

\* Times are in the order of their fields.
LEMMA InstantsOrdered ==
  ASSUME NEW a \in T!Times, NEW b \in T!Times, T!Instant(a) >= T!Instant(b)
  PROVE  /\ a.y >= b.y
         /\ a.y = b.y => a.m >= b.m
         /\ a.y = b.y /\ a.m = b.m => a.d >= b.d
         /\ a.y = b.y /\ a.m = b.m /\ a.d = b.d => Clock(a) >= Clock(b)
<1>1. Fields(a) /\ Fields(b) /\ a.y \in Int /\ b.y \in Int /\ a.m \in Int /\ b.m \in Int /\ a.d \in Int /\ b.d \in Int
  BY TimesAre DEF Fields
<1>2. Clock(a) \in Nat /\ Clock(a) < 86400 /\ T!DayOf(a) \in Int /\ T!Instant(a) = T!DayOf(a) * 86400 + Clock(a)
  BY <1>1, ClockIs
<1>7. Clock(b) \in Nat /\ Clock(b) < 86400 /\ T!DayOf(b) \in Int /\ T!Instant(b) = T!DayOf(b) * 86400 + Clock(b)
  BY <1>1, ClockIs
<1>3. T!DayOf(a) > T!DayOf(b) \/ (T!DayOf(a) = T!DayOf(b) /\ Clock(a) >= Clock(b))
  BY LaterOf
<1>8. Clock(a) \in Int /\ Clock(b) \in Int
  BY <1>2, <1>7
<1>4. /\ a.y < b.y => T!DayOf(a) < T!DayOf(b)
      /\ a.y = b.y /\ a.m < b.m => T!DayOf(a) < T!DayOf(b)
      /\ a.y = b.y /\ a.m = b.m => T!DayOf(b) - T!DayOf(a) = b.d - a.d
  BY DaysOrdered
<1> HIDE DEF Clock
<1> QED BY <1>1, <1>2, <1>3, <1>4, <1>7, <1>8

\* No two times are one instant.
LEMMA InstantsDiffer ==
  ASSUME NEW a \in T!Times, NEW b \in T!Times, T!Instant(a) = T!Instant(b)
  PROVE  a = b
<1>1. Fields(a) /\ Fields(b) /\ a.y \in Int /\ b.y \in Int /\ a.m \in Int /\ b.m \in Int /\ a.d \in Int /\ b.d \in Int
  BY TimesAre DEF Fields
<1>0. /\ a.h \in Nat /\ a.mi \in Nat /\ a.mi < 60 /\ a.s \in Nat /\ a.s < 60
      /\ b.h \in Nat /\ b.mi \in Nat /\ b.mi < 60 /\ b.s \in Nat /\ b.s < 60
  BY TimesAre
<1>2. Clock(a) \in Nat /\ Clock(a) < 86400 /\ T!DayOf(a) \in Int /\ T!Instant(a) = T!DayOf(a) * 86400 + Clock(a)
  BY <1>1, ClockIs
<1>7. Clock(b) \in Nat /\ Clock(b) < 86400 /\ T!DayOf(b) \in Int /\ T!Instant(b) = T!DayOf(b) * 86400 + Clock(b)
  BY <1>1, ClockIs
<1>3. T!DayOf(a) = T!DayOf(b) /\ Clock(a) = Clock(b)
  <2>1. T!Instant(a) \in Int /\ T!Instant(b) \in Int
    BY <1>2, <1>7, SMT
  <2>2. T!Instant(a) >= T!Instant(b) /\ T!Instant(b) >= T!Instant(a)
    BY <2>1
  <2>3. T!DayOf(a) > T!DayOf(b) \/ (T!DayOf(a) = T!DayOf(b) /\ Clock(a) >= Clock(b))
    BY <2>2, LaterOf
  <2>4. T!DayOf(b) > T!DayOf(a) \/ (T!DayOf(a) = T!DayOf(b) /\ Clock(b) >= Clock(a))
    BY <2>2, LaterOf
  <2>5. Clock(a) \in Int /\ Clock(b) \in Int /\ T!DayOf(a) \in Int /\ T!DayOf(b) \in Int
    BY <1>2, <1>7
  <2> HIDE DEF Clock
  <2> QED BY <2>3, <2>4, <2>5
<1>8. /\ a.y < b.y => T!DayOf(a) < T!DayOf(b)
      /\ a.y = b.y /\ a.m < b.m => T!DayOf(a) < T!DayOf(b)
      /\ a.y = b.y /\ a.m = b.m => T!DayOf(b) - T!DayOf(a) = b.d - a.d
  BY DaysOrdered
<1>9. /\ b.y < a.y => T!DayOf(b) < T!DayOf(a)
      /\ b.y = a.y /\ b.m < a.m => T!DayOf(b) < T!DayOf(a)
  BY DaysOrdered
<1>4. a.y = b.y /\ a.m = b.m /\ a.d = b.d
  <2>1. T!DayOf(a) \in Int /\ ~(T!DayOf(a) < T!DayOf(b)) /\ ~(T!DayOf(b) < T!DayOf(a))
    BY <1>2, <1>3
  <2>2. a.y = b.y
    BY <1>1, <1>8, <1>9, <2>1
  <2>3. a.m = b.m
    BY <1>1, <1>8, <1>9, <2>1, <2>2
  <2>4. b.d - a.d = 0
    BY <1>2, <1>3, <1>8, <2>2, <2>3
  <2>5. b.d = a.d
    BY <1>1, <2>4
  <2> QED BY <2>2, <2>3, <2>5
<1>5. a.h = b.h /\ a.mi = b.mi /\ a.s = b.s
  <2>1. a.h * 3600 + a.mi * 60 + a.s = b.h * 3600 + b.mi * 60 + b.s
    BY <1>3 DEF Clock
  <2> QED BY <1>0, <2>1, ClockDiffers
<1>6. /\ a \in [y : Nat, m : 1..12, d : 1..31, h : 0..23, mi : 0..59, s : 0..59]
      /\ b \in [y : Nat, m : 1..12, d : 1..31, h : 0..23, mi : 0..59, s : 0..59]
  BY DEF T!Times
<1> QED BY <1>4, <1>5, <1>6

\* A day too far back is in the month before.
LEMMA Borrowed ==
  ASSUME NEW y \in Int, NEW m \in 1..12, NEW d \in Int
  PROVE  /\ T!daysInMonth(y, m - 1) \in Int
         /\ T!DayNumber(y, m - 1, d + T!daysInMonth(y, m - 1)) = T!DayNumber(y, m, d)
<1>1. CASE m > 1
  <2>1. PICK k \in 1..12 : k = m - 1
    BY <1>1
  <2>2. (k - 1) \div 12 = 0 /\ ((k - 1) % 12) + 1 = k /\ y + 0 = y /\ k + 1 = m
    BY <2>1
  <2>3. T!daysInMonth(y, k) = T!MonthDays(y, k) /\ T!MonthDays(y, k) \in Int
    BY <2>2, MonthDaysAre DEF T!daysInMonth
  <2>4. PICK e \in Int : e = d + T!MonthDays(y, k)
    BY <2>3
  <2>5. T!DayNumber(y, k, e) = T!DayNumber(y, k, 0) + e /\ T!DayNumber(y, k, 0) \in Int
        /\ T!DayNumber(y, k, d) = T!DayNumber(y, k, 0) + d
    BY DayAdds
  <2>6. T!DayNumber(y, k + 1, d) = T!DayNumber(y, k, d) + T!MonthDays(y, k)
    BY NextMonth
  <2>7. T!DayNumber(y, k, e) = T!DayNumber(y, m, d)
    BY <2>2, <2>3, <2>4, <2>5, <2>6
  <2> QED BY <2>1, <2>3, <2>4, <2>7
<1>2. CASE m = 1
  <2>1. PICK z \in Int : z = y - 1
    OBVIOUS
  <2>11. (0 - 1) \div 12 = -1 /\ (0 - 1) % 12 = 11
    <3>1. PICK k \in Int : k = 0 - 1
      OBVIOUS
    <3>2. k >= -12 /\ k < 0 /\ k = -1
      BY <3>1
    <3>3. k \div 12 = -1
      <4>1. PICK q \in Int : q = k \div 12 /\ 12 * q <= k /\ k < 12 * q + 12
        OBVIOUS
      <4>2. q = -1
        BY <3>1, <4>1
      <4> QED BY <4>1, <4>2
    <3>4. k % 12 = k - 12 * (k \div 12)
      OBVIOUS
    <3>5. k % 12 = 11
      BY <3>2, <3>3, <3>4
    <3> QED BY <3>1, <3>3, <3>5
  <2>12. 0 - 1 = -1 /\ 11 + 1 = 12 /\ y + (-1) = z
    BY <2>1
  <2>2. (0 - 1) \div 12 = -1 /\ ((0 - 1) % 12) + 1 = 12 /\ y + (-1) = z /\ 12 \in 1..12 /\ m - 1 = 0
    BY <1>2, <2>11, <2>12
  <2>3. T!daysInMonth(y, 0) = T!MonthDays(z, 12) /\ T!MonthDays(z, 12) \in Int
    BY <2>2, MonthDaysAre DEF T!daysInMonth
  <2>4. PICK e \in Int : e = d + T!MonthDays(z, 12)
    BY <2>3
  <2>5. T!DayNumber(z, 12, e) = T!DayNumber(z, 12, 0) + e /\ T!DayNumber(z, 12, 0) \in Int
        /\ T!DayNumber(z, 12, d) = T!DayNumber(z, 12, 0) + d
    BY <2>2, DayAdds
  <2>6. T!DayNumber(z, 12 + 1, d) = T!DayNumber(z, 12, d) + T!MonthDays(z, 12)
    BY <2>2, NextMonth
  <2>7. T!DayNumber(z, 12, e) = T!DayNumber(y, 0, e)
    <3>1. 12 \in Int /\ 0 \in Int /\ 12 * z + 12 = 12 * y + 0
      BY <2>1
    <3> QED BY <3>1, Carried
  <2>8. T!DayNumber(z, 13, d) = T!DayNumber(y, 1, d)
    <3>1. 13 \in Int /\ 1 \in Int /\ 12 * z + 13 = 12 * y + 1
      BY <2>1
    <3> QED BY <3>1, Carried
  <2>9. 12 + 1 = 13
    OBVIOUS
  <2>10. T!DayNumber(y, 0, e) = T!DayNumber(y, 1, d)
    BY <2>3, <2>4, <2>5, <2>6, <2>7, <2>8, <2>9
  <2> QED BY <1>2, <2>2, <2>3, <2>4, <2>10
<1> QED BY <1>1, <1>2

-----------------------------------------------------------------------------
(* Ages. *)

\* The months may be counted from the year 0.
LEMMA OfMonth ==
  ASSUME NEW y \in Int, NEW m \in Int, NEW d \in Int
  PROVE  T!DayNumber(y, m, d) = T!DayNumber(0, 12 * y + m, d)
<1>1. ((m - 1) + 12 * y) \div 12 = (m - 1) \div 12 + y /\ ((m - 1) + 12 * y) % 12 = (m - 1) % 12
  OBVIOUS
<1>2. (12 * y + m) - 1 = (m - 1) + 12 * y
  OBVIOUS
<1>3. y + (m - 1) \div 12 = 0 + ((m - 1) \div 12 + y)
  OBVIOUS
<1>4. 0 + ((12 * y + m) - 1) \div 12 = y + (m - 1) \div 12 /\ ((12 * y + m) - 1) % 12 = (m - 1) % 12
  BY <1>1, <1>2, <1>3
<1> QED BY <1>4 DEF T!DayNumber

\* What is borrowed from the days: one, if the later time has the smaller clock.
Day0(a, b) == a.d - b.d - (IF Clock(a) < Clock(b) THEN 1 ELSE 0)
Month0(a, b) == a.m - b.m - (IF Day0(a, b) < 0 THEN 1 ELSE 0)

\* The fields of an age, as borrowing leaves them.
Borrowing(a, b, e) ==
  /\ e \in [year : Int, month : Int, day : Int, hour : Int, min : Int, sec : Int]
  /\ e.hour \in 0..23 /\ e.min \in 0..59 /\ e.sec \in 0..59
  /\ e.hour * 3600 + e.min * 60 + e.sec = Clock(a) - Clock(b) + (IF Clock(a) < Clock(b) THEN 86400 ELSE 0)
  /\ e.day = IF Day0(a, b) < 0 THEN Day0(a, b) + T!daysInMonth(a.y, a.m - 1) ELSE Day0(a, b)
  /\ e.month = (IF Month0(a, b) < 0 THEN Month0(a, b) + 12 ELSE Month0(a, b))
  /\ e.year = a.y - b.y - (IF Month0(a, b) < 0 THEN 1 ELSE 0)

\* The fields that are printed the other way round: minutes and seconds keep their sign.
Mirrored(e) ==
  [year |-> -e.year, month |-> -e.month, day |-> -e.day, hour |-> -e.hour, min |-> e.min, sec |-> e.sec]

\* Twice the other way is the age.
LEMMA NegatedTwice ==
  ASSUME NEW e \in [year : Int, month : Int, day : Int, hour : Int, min : Int, sec : Int]
  PROVE  Mirrored(Mirrored(e)) = e
<1>1. -(-e.year) = e.year /\ -(-e.month) = e.month /\ -(-e.day) = e.day /\ -(-e.hour) = e.hour
  OBVIOUS
<1>2. e = [year |-> e.year, month |-> e.month, day |-> e.day, hour |-> e.hour, min |-> e.min, sec |-> e.sec]
  OBVIOUS
<1> QED BY <1>1, <1>2 DEF Mirrored

\* Time that has elapsed is so counted, and the sign is that of all but minutes and seconds.
LEMMA ElapsedIs ==
  ASSUME NEW a \in T!Times, NEW b \in T!Times
  PROVE  /\ Borrowing(a, b, T!elapsed(a, b, 1))
         /\ T!elapsed(a, b, -1) = Mirrored(T!elapsed(a, b, 1))
<1>0. PICK e : e = T!elapsed(a, b, 1)
  OBVIOUS
<1> DEFINE sec == a.s - b.s
           min == a.mi - b.mi - (IF sec < 0 THEN 1 ELSE 0)
           hour == a.h - b.h - (IF min < 0 THEN 1 ELSE 0)
           day == a.d - b.d - (IF hour < 0 THEN 1 ELSE 0)
           month == a.m - b.m - (IF day < 0 THEN 1 ELSE 0)
           year == a.y - b.y - (IF month < 0 THEN 1 ELSE 0)
           moons == IF month < 0 THEN month + 12 ELSE month
           days == IF day < 0 THEN day + T!daysInMonth(a.y, a.m - 1) ELSE day
           hours == IF hour < 0 THEN hour + 24 ELSE hour
           mins == IF min < 0 THEN min + 60 ELSE min
           secs == IF sec < 0 THEN sec + 60 ELSE sec
<1>1. /\ e = [year |-> 1 * year, month |-> 1 * moons, day |-> 1 * days, hour |-> 1 * hours,
               min |-> mins, sec |-> secs]
      /\ T!elapsed(a, b, -1) =
           [year |-> (-1) * year, month |-> (-1) * moons, day |-> (-1) * days, hour |-> (-1) * hours,
            min |-> mins, sec |-> secs]
  BY <1>0 DEF T!elapsed
<1>2. /\ a.h \in 0..23 /\ a.mi \in 0..59 /\ a.s \in 0..59 /\ a.d \in Int /\ a.m \in 1..12 /\ a.y \in Int
      /\ b.h \in 0..23 /\ b.mi \in 0..59 /\ b.s \in 0..59 /\ b.d \in Int /\ b.m \in Int /\ b.y \in Int
  BY TimesAre
<1>21. /\ a.h \in Nat /\ a.h <= 23 /\ b.h \in Nat /\ b.h <= 23
       /\ a.mi \in Nat /\ a.mi <= 59 /\ b.mi \in Nat /\ b.mi <= 59
       /\ a.s \in Nat /\ a.s <= 59 /\ b.s \in Nat /\ b.s <= 59
  BY <1>2
<1>3. sec \in Int /\ sec > -60 /\ sec < 60
  BY <1>21
<1> HIDE DEF sec
<1>4. min \in Int /\ min >= -60 /\ min < 60
  BY <1>21, <1>3
<1> HIDE DEF min
<1>5. hour \in Int /\ hour >= -24 /\ hour < 24
  BY <1>21, <1>4
<1> HIDE DEF hour
<1>6. hours \in 0..23 /\ mins \in 0..59 /\ secs \in 0..59
  BY <1>3, <1>4, <1>5
<1>7. hour * 3600 + mins * 60 + secs = Clock(a) - Clock(b)
  <2>1. PICK S \in Int : S = IF sec < 0 THEN 1 ELSE 0
    OBVIOUS
  <2>2. PICK N \in Int : N = IF min < 0 THEN 1 ELSE 0
    OBVIOUS
  <2>3. secs = sec + 60 * S /\ mins = min + 60 * N
    BY <1>3, <1>4, <2>1, <2>2
  <2>4. min = a.mi - b.mi - S /\ hour = a.h - b.h - N /\ sec = a.s - b.s
    BY <2>1, <2>2 DEF min, hour, sec
  <2>5. PICK h \in Int : h = a.h - b.h
    BY <1>2
  <2>6. PICK i \in Int : i = a.mi - b.mi
    BY <1>2
  <2>7. Clock(a) - Clock(b) = h * 3600 + i * 60 + sec
    <3>1. a.h \in Int /\ a.mi \in Int /\ a.s \in Int /\ b.h \in Int /\ b.mi \in Int /\ b.s \in Int
      BY <1>2
    <3>2. sec = a.s - b.s
      BY <2>4
    <3> HIDE DEF secs, mins, hours
    <3>3. Clock(a) = a.h * 3600 + a.mi * 60 + a.s /\ Clock(b) = b.h * 3600 + b.mi * 60 + b.s
      BY DEF Clock
    <3> QED BY <2>5, <2>6, <3>1, <3>2, <3>3, SMT
  <2>8. (h - N) * 3600 + ((i - S) + 60 * N) * 60 + (sec + 60 * S) = h * 3600 + i * 60 + sec
    BY <1>3, SMT
  <2> HIDE DEF mins, secs
  <2> QED BY <2>3, <2>4, <2>5, <2>6, <2>7, <2>8
<1>8. Clock(a) \in Int /\ Clock(b) \in Int
  <2>1. Fields(a) /\ Fields(b)
    BY TimesAre DEF Fields
  <2> QED BY <2>1, ClockIs
<1>9. hour < 0 <=> Clock(a) < Clock(b)
  <2>1. mins \in Int /\ secs \in Int /\ 0 <= mins * 60 + secs /\ mins * 60 + secs < 3600
    BY <1>6
  <2> HIDE DEF mins, secs
  <2> QED BY <1>5, <1>7, <1>8, <2>1, SMT
<1>10. hours * 3600 + mins * 60 + secs = Clock(a) - Clock(b) + (IF Clock(a) < Clock(b) THEN 86400 ELSE 0)
  <2>1. mins \in Int /\ secs \in Int
    BY <1>6
  <2> HIDE DEF mins, secs
  <2>2. CASE hour < 0
    <3>1. hours = hour + 24
      BY <2>2
    <3> QED BY <1>5, <1>7, <1>8, <1>9, <2>1, <2>2, <3>1, SMT
  <2>3. CASE ~(hour < 0)
    <3>1. hours = hour
      BY <2>3
    <3> QED BY <1>5, <1>7, <1>8, <1>9, <2>1, <2>3, <3>1, SMT
  <2> QED BY <2>2, <2>3
<1>11. day = Day0(a, b) /\ day \in Int
  BY <1>2, <1>9 DEF Day0
<1> HIDE DEF day, hours, mins, secs
<1>12. month = Month0(a, b) /\ month \in Int
  BY <1>2, <1>11 DEF Month0
<1> HIDE DEF month
<1>13. days \in Int /\ days = (IF Day0(a, b) < 0 THEN Day0(a, b) + T!daysInMonth(a.y, a.m - 1) ELSE Day0(a, b))
  <2>1. PICK x \in Int : x = T!daysInMonth(a.y, a.m - 1)
    BY <1>2, Borrowed
  <2> HIDE DEF day
  <2> QED BY <1>11, <2>1 DEF days
<1>14. moons \in Int /\ moons = (IF Month0(a, b) < 0 THEN Month0(a, b) + 12 ELSE Month0(a, b))
  BY <1>12
<1>15. year \in Int /\ year = a.y - b.y - (IF Month0(a, b) < 0 THEN 1 ELSE 0)
  BY <1>2, <1>12
<1> HIDE DEF days, moons, year
<1>16. hours \in Int
  BY <1>6
<1>17. e = [year |-> year, month |-> moons, day |-> days, hour |-> hours, min |-> mins, sec |-> secs]
  <2>1. 1 * year = year /\ 1 * moons = moons /\ 1 * days = days /\ 1 * hours = hours
    BY <1>13, <1>14, <1>15, <1>16
  <2> QED BY <1>1, <2>1
<1>19. e \in [year : Int, month : Int, day : Int, hour : Int, min : Int, sec : Int]
  <2>1. mins \in Int /\ secs \in Int
    BY <1>6
  <2> QED BY <1>13, <1>14, <1>15, <1>16, <1>17, <2>1
<1>18. T!elapsed(a, b, -1) = Mirrored(e)
  <2>1. (-1) * year = -year /\ (-1) * moons = -moons /\ (-1) * days = -days /\ (-1) * hours = -hours
    BY <1>13, <1>14, <1>15, <1>16
  <2>2. T!elapsed(a, b, -1) =
          [year |-> -year, month |-> -moons, day |-> -days, hour |-> -hours, min |-> mins, sec |-> secs]
    BY <1>1, <2>1
  <2>3. /\ e.hour = hours /\ e.min = mins /\ e.sec = secs /\ e.day = days /\ e.month = moons
        /\ e.year = year
    BY <1>17
  <2>4. Mirrored(e) =
          [year |-> -e.year, month |-> -e.month, day |-> -e.day, hour |-> -e.hour, min |-> e.min, sec |-> e.sec]
    BY DEF Mirrored
  <2> QED BY <2>2, <2>3, <2>4
<1>20. /\ e.hour = hours /\ e.min = mins /\ e.sec = secs /\ e.day = days /\ e.month = moons
       /\ e.year = year
  BY <1>17
<1> HIDE DEF Clock, Day0, Month0
<1>22. Borrowing(a, b, e)
  BY <1>6, <1>10, <1>13, <1>14, <1>15, <1>19, <1>20 DEF Borrowing
<1> QED BY <1>0, <1>18, <1>22

\* Adding the age gives the later time; its days are negative only if the month before is
\* too short.
LEMMA AgeAdds ==
  ASSUME NEW a \in T!Times, NEW b \in T!Times, T!Instant(a) >= T!Instant(b), NEW v, v = T!elapsed(a, b, 1)
  PROVE  /\ T!DayNumber(b.y + v.year, b.m + v.month, b.d + v.day) * 86400
            + (b.h + v.hour) * 3600 + (b.mi + v.min) * 60 + b.s + v.sec = T!Instant(a)
         /\ v.year >= 0 /\ v.month \in 0..11 /\ v.hour \in 0..23 /\ v.min \in 0..59 /\ v.sec \in 0..59
         /\ v.day < 0 => b.d > T!daysInMonth(a.y, a.m - 1)
<1> DEFINE D == Day0(a, b)
           mo == Month0(a, b)
           k == IF Clock(a) < Clock(b) THEN 1 ELSE 0
           l == IF D < 0 THEN 1 ELSE 0
<1>1. /\ v.hour \in 0..23 /\ v.min \in 0..59 /\ v.sec \in 0..59
      /\ v.hour * 3600 + v.min * 60 + v.sec =
           Clock(a) - Clock(b) + (IF Clock(a) < Clock(b) THEN 86400 ELSE 0)
      /\ v.day = IF D < 0 THEN D + T!daysInMonth(a.y, a.m - 1) ELSE D
      /\ v.month = (IF mo < 0 THEN mo + 12 ELSE mo)
      /\ v.year = a.y - b.y - (IF mo < 0 THEN 1 ELSE 0)
  <2>1. Borrowing(a, b, v)
    BY ElapsedIs
  <2> QED BY <2>1 DEF Borrowing
<1>2. /\ a.y \in Int /\ a.m \in 1..12 /\ a.d \in Int /\ b.y \in Int /\ b.m \in 1..12 /\ b.d \in Int
      /\ b.h \in Int /\ b.mi \in Int /\ b.s \in Int /\ T!DayOf(a) = T!DayNumber(a.y, a.m, a.d)
  BY TimesAre
<1>3. /\ Clock(a) \in Int /\ Clock(b) \in Int /\ T!DayOf(a) \in Int
      /\ T!Instant(a) = T!DayOf(a) * 86400 + Clock(a)
  <2>1. Fields(a) /\ Fields(b)
    BY TimesAre DEF Fields
  <2> QED BY <2>1, ClockIs
<1>4. D = a.d - b.d - k /\ mo = a.m - b.m - l /\ D \in Int /\ mo \in Int /\ k \in {0, 1} /\ l \in {0, 1}
  BY <1>2 DEF Day0, Month0
<1>5. v.month \in 0..11
  BY <1>1, <1>2, <1>4
<1>6. /\ a.y >= b.y
      /\ a.y = b.y => a.m >= b.m
      /\ a.y = b.y /\ a.m = b.m => a.d >= b.d
      /\ a.y = b.y /\ a.m = b.m /\ a.d = b.d => Clock(a) >= Clock(b)
  BY InstantsOrdered
<1>7. a.y = b.y /\ a.m = b.m => D >= 0
  <2>1. a.y = b.y /\ a.m = b.m /\ a.d = b.d => k = 0
    BY <1>3, <1>6
  <2> HIDE DEF k, D
  <2> QED BY <1>2, <1>4, <1>6, <2>1
<1>8. a.y = b.y => mo >= 0
  <2>1. D >= 0 => l = 0
    BY <1>4
  <2> HIDE DEF k, D, mo, l
  <2> QED BY <1>2, <1>4, <1>6, <1>7, <2>1
<1>9. v.year >= 0 /\ v.year \in Int /\ v.month \in Int /\ v.day \in Int
  <2>1. T!daysInMonth(a.y, a.m - 1) \in Int
    BY <1>2, Borrowed
  <2> HIDE DEF D, mo
  <2> QED BY <1>1, <1>2, <1>4, <1>5, <1>6, <1>8, <2>1
<1>10. T!DayNumber(b.y + v.year, b.m + v.month, b.d + v.day) = T!DayOf(a) - k
  <2>1. 12 * (b.y + v.year) + (b.m + v.month) = 12 * a.y + (a.m - l)
    <3> HIDE DEF D, mo, l, k
    <3> QED BY <1>1, <1>2, <1>4, <1>9
  <2>2. b.y + v.year \in Int /\ b.m + v.month \in Int /\ b.d + v.day \in Int /\ a.m - l \in Int
    BY <1>2, <1>4, <1>9
  <2>3. T!DayNumber(b.y + v.year, b.m + v.month, b.d + v.day) = T!DayNumber(a.y, a.m - l, b.d + v.day)
    <3> DEFINE y == b.y + v.year
               m == b.m + v.month
               d == b.d + v.day
               n == a.m - l
               z == a.y
    <3>1. y \in Int /\ m \in Int /\ d \in Int /\ n \in Int /\ z \in Int /\ 12 * y + m = 12 * z + n
      BY <1>2, <2>1, <2>2
    <3> HIDE DEF y, m, d, n, z
    <3>2. T!DayNumber(y, m, d) = T!DayNumber(z, n, d)
      <4>1. T!DayNumber(y, m, d) = T!DayNumber(0, 12 * y + m, d)
        BY <3>1, OfMonth
      <4>2. T!DayNumber(z, n, d) = T!DayNumber(0, 12 * z + n, d)
        BY <3>1, OfMonth
      <4> QED BY <3>1, <4>1, <4>2
    <3> QED BY <3>2 DEF y, m, d, n, z
  <2>4. T!DayNumber(a.y, a.m, b.d + D) = T!DayOf(a) - k
    <3>1. b.d + D = a.d - k /\ a.d - k \in Int
      BY <1>2, <1>4
    <3>2. PICK z \in Int : z = T!DayNumber(a.y, a.m, 0)
      BY <1>2, DayAdds
    <3>3. T!DayNumber(a.y, a.m, a.d - k) = z + (a.d - k)
      BY <1>2, <3>1, <3>2, DayAdds
    <3>4. T!DayOf(a) = z + a.d
      BY <1>2, <3>2, DayAdds
    <3> HIDE DEF D, k
    <3> QED BY <1>2, <1>4, <3>1, <3>3, <3>4
  <2>5. CASE D < 0
    <3>1. l = 1 /\ v.day = D + T!daysInMonth(a.y, a.m - 1)
      BY <1>1, <2>5
    <3>2. PICK x \in Int : x = T!daysInMonth(a.y, a.m - 1)
      BY <1>2, Borrowed
    <3>3. PICK f \in Int : f = b.d + D
      BY <1>2, <1>4
    <3>4. b.d + v.day = f + x
      BY <1>2, <1>4, <3>1, <3>2, <3>3
    <3>5. T!DayNumber(a.y, a.m - 1, f + x) = T!DayNumber(a.y, a.m, f)
      BY <1>2, <3>2, Borrowed
    <3> HIDE DEF D, k, l
    <3> QED BY <2>3, <2>4, <3>1, <3>3, <3>4, <3>5
  <2>6. CASE ~(D < 0)
    <3>1. l = 0 /\ v.day = D /\ a.m - 0 = a.m
      BY <1>1, <1>2, <2>6
    <3> HIDE DEF D, k, l
    <3> QED BY <2>3, <2>4, <3>1
  <2> QED BY <2>5, <2>6
<1>11. (b.h + v.hour) * 3600 + (b.mi + v.min) * 60 + b.s + v.sec = Clock(a) + 86400 * k
  <2>1. PICK h \in Int : h = v.hour
    BY <1>1
  <2>2. PICK i \in Int : i = v.min
    BY <1>1
  <2>3. PICK s \in Int : s = v.sec
    BY <1>1
  <2>4. Clock(b) = b.h * 3600 + b.mi * 60 + b.s
    BY DEF Clock
  <2>5. h * 3600 + i * 60 + s = Clock(a) - Clock(b) + 86400 * k
    BY <1>1, <1>3, <2>1, <2>2, <2>3, SMT
  <2> HIDE DEF k
  <2> QED BY <1>2, <1>3, <1>4, <2>1, <2>2, <2>3, <2>4, <2>5, SMT
<1>12. PICK N \in Int : N = T!DayNumber(b.y + v.year, b.m + v.month, b.d + v.day) /\ N = T!DayOf(a) - k
  BY <1>3, <1>4, <1>10
<1>13. N * 86400 + (b.h + v.hour) * 3600 + (b.mi + v.min) * 60 + b.s + v.sec = T!Instant(a)
  <2>0. v.hour \in Int /\ v.min \in Int /\ v.sec \in Int
    BY <1>1
  <2>1. N * 86400 + (b.h + v.hour) * 3600 + (b.mi + v.min) * 60 + b.s + v.sec =
          N * 86400 + ((b.h + v.hour) * 3600 + (b.mi + v.min) * 60 + b.s + v.sec)
    BY <1>2, <2>0, SMT
  <2>2. N * 86400 = T!DayOf(a) * 86400 - 86400 * k
    BY <1>3, <1>4, <1>12, SMT
  <2> HIDE DEF k
  <2> QED BY <1>3, <1>4, <1>11, <2>1, <2>2, SMT
<1>14. ASSUME v.day < 0 PROVE b.d > T!daysInMonth(a.y, a.m - 1)
  <2>1. PICK x \in Int : x = T!daysInMonth(a.y, a.m - 1)
    BY <1>2, Borrowed
  <2>2. D < 0 /\ v.day = D + x
    BY <1>1, <1>4, <1>14, <2>1
  <2>3. a.d >= 1 /\ D = a.d - b.d - k /\ k <= 1
    <3>1. a.d >= 1
      BY DEF T!Times
    <3> QED BY <3>1, <1>4
  <2> HIDE DEF D, k
  <2> QED BY <1>2, <1>4, <1>14, <2>1, <2>2, <2>3
<1> QED BY <1>1, <1>5, <1>9, <1>12, <1>13, <1>14, SMT

\* The age of a time since itself is nothing.
LEMMA NoAge ==
  ASSUME NEW a \in T!Times
  PROVE  Mirrored(T!elapsed(a, a, 1)) = T!elapsed(a, a, 1)
<1>1. a.y \in Int /\ a.m \in Int /\ a.d \in Int /\ Clock(a) \in Int
  <2>1. Fields(a)
    BY TimesAre DEF Fields
  <2> QED BY <2>1, TimesAre, ClockIs
<1>2. Day0(a, a) = 0 /\ Month0(a, a) = 0
  <2>1. Day0(a, a) = 0
    BY <1>1 DEF Day0
  <2> QED BY <1>1, <2>1 DEF Month0
<1>3. PICK e : e = T!elapsed(a, a, 1)
  OBVIOUS
<1>8. e \in [year : Int, month : Int, day : Int, hour : Int, min : Int, sec : Int]
      /\ e.hour \in 0..23 /\ e.min \in 0..59 /\ e.sec \in 0..59
  BY <1>3, ElapsedIs DEF Borrowing
<1>9. e.hour * 3600 + e.min * 60 + e.sec = Clock(a) - Clock(a) + (IF Clock(a) < Clock(a) THEN 86400 ELSE 0)
  BY <1>3, ElapsedIs DEF Borrowing
<1>4. /\ e.day = IF Day0(a, a) < 0 THEN Day0(a, a) + T!daysInMonth(a.y, a.m - 1) ELSE Day0(a, a)
      /\ e.month = (IF Month0(a, a) < 0 THEN Month0(a, a) + 12 ELSE Month0(a, a))
      /\ e.year = a.y - a.y - (IF Month0(a, a) < 0 THEN 1 ELSE 0)
  <2>1. Borrowing(a, a, e)
    BY <1>3, ElapsedIs
  <2> QED BY <2>1 DEF Borrowing
<1>5. e.day = 0 /\ e.month = 0 /\ e.year = 0
  BY <1>1, <1>2, <1>4
<1>6. e.hour = 0
  <2>1. e.hour \in Nat /\ e.min \in Nat /\ e.sec \in Nat
    BY <1>8
  <2>2. e.hour * 3600 + e.min * 60 + e.sec = 0
    BY <1>1, <1>9
  <2>3. PICK h \in Nat : h = e.hour
    BY <2>1
  <2>4. PICK i \in Nat : i = e.min
    BY <2>1
  <2>5. PICK s \in Nat : s = e.sec
    BY <2>1
  <2>6. h * 3600 + i * 60 + s = 0
    BY <2>2, <2>3, <2>4, <2>5
  <2>7. h = 0
    BY <2>6
  <2> QED BY <2>3, <2>7
<1>7. Mirrored(e) = e
  <2>1. -e.year = e.year /\ -e.month = e.month /\ -e.day = e.day /\ -e.hour = e.hour
    <3>1. PICK z \in Int : z = 0
      OBVIOUS
    <3>2. z + z = 0
      BY <3>1
    <3> HIDE <3>1
    <3>3. -z = z
      BY <3>2
    <3>4. e.year = z /\ e.month = z /\ e.day = z /\ e.hour = z
      BY <1>5, <1>6, <3>1
    <3> QED BY <3>3, <3>4
  <2>2. e \in [year : Int, month : Int, day : Int, hour : Int, min : Int, sec : Int]
    BY <1>8
  <2>3. e = [year |-> e.year, month |-> e.month, day |-> e.day, hour |-> e.hour, min |-> e.min, sec |-> e.sec]
    BY <2>2
  <2> QED BY <2>1, <2>3 DEF Mirrored
<1> QED BY <1>3, <1>7

\* What the mirrored fields say: the opposite, but for the sign of less than an hour.
LEMMA MirrorSays ==
  ASSUME NEW e \in [year : Int, month : Int, day : Int, hour : Int, min : Int, sec : Int],
         e.min \in 0..59, e.sec \in 0..59,
         NEW v, v = T!Said(e)
  PROVE  T!Said(Mirrored(e)) =
           IF v.clock > -3600 /\ v.clock < 3600 THEN [T!Opposite(v) EXCEPT !.clock = v.clock] ELSE T!Opposite(v)
<1>1. PICK h \in Int : h = e.hour
  OBVIOUS
<1>2. PICK x \in Int : x = e.min * 60 + e.sec /\ 0 <= x /\ x < 3600
  <2>1. e.min \in Nat /\ e.min <= 59 /\ e.sec \in Nat /\ e.sec <= 59
    OBVIOUS
  <2> QED BY <2>1
<1>3. PICK c \in Int : c = h * 3600 + (IF h < 0 THEN -x ELSE x)
  OBVIOUS
<1>4. PICK d \in Int : d = (-h) * 3600 + (IF -h < 0 THEN -x ELSE x)
  OBVIOUS
<1>5. v = [year |-> e.year, month |-> e.month, day |-> e.day, clock |-> c]
  BY <1>1, <1>2, <1>3 DEF T!Said
<1>6. T!Said(Mirrored(e)) = [year |-> -e.year, month |-> -e.month, day |-> -e.day, clock |-> d]
  <2>1. PICK m : m = Mirrored(e)
    OBVIOUS
  <2>2. /\ m.year = -e.year /\ m.month = -e.month /\ m.day = -e.day /\ m.hour = -h
        /\ m.min = e.min /\ m.sec = e.sec
    BY <1>1, <2>1 DEF Mirrored
  <2>3. T!Said(m) =
          [year |-> m.year, month |-> m.month, day |-> m.day,
           clock |-> m.hour * 3600 + (IF m.hour < 0 THEN -(m.min * 60 + m.sec) ELSE m.min * 60 + m.sec)]
    BY DEF T!Said
  <2>4. m.hour * 3600 + (IF m.hour < 0 THEN -(m.min * 60 + m.sec) ELSE m.min * 60 + m.sec) = d
    BY <1>2, <1>4, <2>2
  <2>5. T!Said(m) = [year |-> -e.year, month |-> -e.month, day |-> -e.day, clock |-> d]
    BY <2>2, <2>3, <2>4
  <2> QED BY <2>1, <2>5
<1>7. T!Opposite(v) = [year |-> -e.year, month |-> -e.month, day |-> -e.day, clock |-> -c]
  BY <1>5 DEF T!Opposite
<1>8. v.clock = c
  BY <1>5
<1>9. CASE c > -3600 /\ c < 3600
  <2>1. h = 0
    BY <1>2, <1>3, <1>9
  <2>2. d = c
    BY <1>2, <1>3, <1>4, <2>1
  <2>3. [T!Opposite(v) EXCEPT !.clock = v.clock] =
          [year |-> -e.year, month |-> -e.month, day |-> -e.day, clock |-> c]
    BY <1>7, <1>8
  <2> QED BY <1>6, <1>8, <1>9, <2>2, <2>3
<1>10. CASE ~(c > -3600 /\ c < 3600)
  <2>1. h # 0
    BY <1>2, <1>3, <1>10
  <2>2. d = -c
    BY <1>2, <1>3, <1>4, <2>1
  <2>3. T!Opposite(v) = [year |-> -e.year, month |-> -e.month, day |-> -e.day, clock |-> d]
    BY <1>7, <2>2
  <2> QED BY <1>6, <1>8, <1>10, <2>3
<1> QED BY <1>9, <1>10

\* Adding the age of a since b to b gives a, its fields are within their ranges, but for
\* days where the month before a's is too short; and the age the other way round says the
\* opposite, but for the sign of less than an hour (datefuncs.go:377-444).
THEOREM AgeIsRight ==
  ASSUME NEW a \in T!Times, NEW b \in T!Times
  PROVE  T!AgeRight(a, b)
<1>1. T!Instant(a) \in Int /\ T!Instant(b) \in Int
  <2>1. Fields(a) /\ Fields(b)
    BY TimesAre DEF Fields
  <2>2. Clock(a) \in Int /\ T!DayOf(a) \in Int /\ T!Instant(a) = T!DayOf(a) * 86400 + Clock(a)
    BY <2>1, ClockIs
  <2>3. Clock(b) \in Int /\ T!DayOf(b) \in Int /\ T!Instant(b) = T!DayOf(b) * 86400 + Clock(b)
    BY <2>1, ClockIs
  <2> QED BY <2>2, <2>3, SMT
<1> DEFINE v == T!ageInterval(a, b)
           w == T!ageInterval(b, a)
           said == T!Said(v)
           Adds == /\ T!DayNumber(b.y + v.year, b.m + v.month, b.d + v.day) * 86400
                      + (b.h + v.hour) * 3600 + (b.mi + v.min) * 60 + b.s + v.sec = T!Instant(a)
                   /\ v.year >= 0 /\ v.month \in 0..11 /\ v.hour \in 0..23 /\ v.min \in 0..59 /\ v.sec \in 0..59
                   /\ v.day < 0 => b.d > T!daysInMonth(a.y, a.m - 1)
<1>2. ASSUME T!Instant(a) >= T!Instant(b)
      PROVE  Adds
  <2>1. v = T!elapsed(a, b, 1)
    BY <1>1, <1>2 DEF T!ageInterval
  <2> HIDE DEF v
  <2> QED BY <1>2, <2>1, AgeAdds
<1>3. /\ w = Mirrored(v)
      /\ v \in [year : Int, month : Int, day : Int, hour : Int, min : Int, sec : Int]
      /\ v.min \in 0..59 /\ v.sec \in 0..59
  <2>1. CASE T!Instant(a) > T!Instant(b)
    <3>1. v = T!elapsed(a, b, 1) /\ w = T!elapsed(a, b, -1)
      BY <1>1, <2>1 DEF T!ageInterval
    <3> HIDE DEF v, w
    <3> QED BY <3>1, ElapsedIs DEF Borrowing
  <2>2. CASE T!Instant(a) < T!Instant(b)
    <3>1. v = T!elapsed(b, a, -1) /\ w = T!elapsed(b, a, 1)
      BY <1>1, <2>2 DEF T!ageInterval
    <3> HIDE DEF v, w
    <3>2. v = Mirrored(w)
      BY <3>1, ElapsedIs
    <3>3. /\ w \in [year : Int, month : Int, day : Int, hour : Int, min : Int, sec : Int]
          /\ w.min \in 0..59 /\ w.sec \in 0..59
      BY <3>1, ElapsedIs DEF Borrowing
    <3>4. /\ v \in [year : Int, month : Int, day : Int, hour : Int, min : Int, sec : Int]
          /\ v.min = w.min /\ v.sec = w.sec
      BY <3>2, <3>3 DEF Mirrored
    <3> QED BY <3>2, <3>3, <3>4, NegatedTwice
  <2>3. CASE T!Instant(a) = T!Instant(b)
    <3>1. a = b
      BY <2>3, InstantsDiffer
    <3>2. v = T!elapsed(a, a, 1) /\ w = v
      BY <1>1, <2>3, <3>1 DEF T!ageInterval
    <3> HIDE DEF v, w
    <3>3. v = Mirrored(v)
      BY <3>2, NoAge
    <3>4. /\ v \in [year : Int, month : Int, day : Int, hour : Int, min : Int, sec : Int]
          /\ v.min \in 0..59 /\ v.sec \in 0..59
      BY <3>2, ElapsedIs DEF Borrowing
    <3> QED BY <3>2, <3>3, <3>4
  <2> QED BY <1>1, <2>1, <2>2, <2>3
<1> HIDE DEF v, w
<1>4. T!Said(w) = IF said.clock > -3600 /\ said.clock < 3600
                  THEN [T!Opposite(said) EXCEPT !.clock = said.clock] ELSE T!Opposite(said)
  BY <1>3, MirrorSays
<1> HIDE DEF said, Adds
<1>5. T!AgeRight(a, b) <=>
        /\ T!Instant(a) >= T!Instant(b) => Adds
        /\ T!Said(w) = IF said.clock > -3600 /\ said.clock < 3600
                       THEN [T!Opposite(said) EXCEPT !.clock = said.clock] ELSE T!Opposite(said)
  BY DEF T!AgeRight, v, w, said, Adds
<1> QED BY <1>2, <1>4, <1>5

-----------------------------------------------------------------------------
(* Sums. *)

\* The sum of a column's cells, and the element the fold takes next.
SumOver(col, S) == MapThenSumSet(LAMBDA i : col[i].n, S)
Picked(s) == CHOOSE x \in s : TRUE

\* What the fold computes, on a set D of sets.
Solves(g, col, D) ==
  g = [s \in D |-> IF s = {} THEN 0 ELSE col[Picked(s)].n + g[s \ {Picked(s)}]]

\* What it computes, on the subsets of S.
Folds(g, col, S) == Solves(g, col, SUBSET S)

\* The sum is a value of the fold.
LEMMA SumIs ==
  ASSUME NEW col, NEW S, NEW h, Folds(h, col, S)
  PROVE  \E g : Folds(g, col, S) /\ SumOver(col, S) = g[S]
<1> DEFINE iter == CHOOSE g : g = [s \in SUBSET S |-> IF s = {} THEN 0 ELSE
                                     col[CHOOSE x \in s : TRUE].n + g[s \ {CHOOSE x \in s : TRUE}]]
<1>1. SumOver(col, S) = iter[S]
  BY DEF SumOver, MapThenSumSet, MapThenFoldSet
<1>2. \E g : g = [s \in SUBSET S |-> IF s = {} THEN 0 ELSE
                    col[CHOOSE x \in s : TRUE].n + g[s \ {CHOOSE x \in s : TRUE}]]
  BY DEF Folds, Solves, Picked
<1>3. iter = [s \in SUBSET S |-> IF s = {} THEN 0 ELSE
                col[CHOOSE x \in s : TRUE].n + iter[s \ {CHOOSE x \in s : TRUE}]]
  BY <1>2
<1> HIDE DEF iter
<1>4. Folds(iter, col, S)
  BY <1>3, Zenon DEF Folds, Solves, Picked
<1> QED BY <1>1, <1>4

\* A set of the subsets of S: those of up to n elements.
Small(S, n) == {s \in SUBSET S : Cardinality(s) <= n}

\* A smaller set.
LEMMA SetShrinks ==
  ASSUME NEW S, IsFiniteSet(S), NEW s \in SUBSET S, s # {}
  PROVE  /\ IsFiniteSet(s) /\ Picked(s) \in s /\ s \ {Picked(s)} \in SUBSET S
         /\ Cardinality(s) \in Nat \ {0} /\ Cardinality(s \ {Picked(s)}) = Cardinality(s) - 1
<1>1. IsFiniteSet(s)
  BY FS_Subset
<1>2. Picked(s) \in s
  BY DEF Picked
<1>3. Cardinality(s) \in Nat /\ Cardinality(s) # 0
  BY <1>1, FS_CardinalityType, FS_EmptySet
<1>4. Cardinality(s \ {Picked(s)}) = Cardinality(s) - 1
  BY <1>1, <1>2, FS_RemoveElement
<1> QED BY <1>1, <1>2, <1>3, <1>4

\* The fold is defined on the sets of up to n elements.
LEMMA FoldGrows ==
  ASSUME NEW col, NEW S, IsFiniteSet(S), NEW n \in Nat
  PROVE  \E g : Solves(g, col, Small(S, n))
<1> DEFINE Bad == {k \in Nat : ~\E g : Solves(g, col, Small(S, k))}
<1>1. SUFFICES Bad = {}
  BY <1>1
<1>2. SUFFICES ASSUME Bad # {} PROVE FALSE
  BY <1>2
<1>3. PICK k \in Bad : \A j \in Bad : k <= j
  <2>1. Bad \subseteq Nat
    OBVIOUS
  <2> HIDE DEF Bad
  <2> QED BY <1>2, <2>1, LeastOne
<1>4. k \in Nat /\ ~\E g : Solves(g, col, Small(S, k))
  OBVIOUS
<1>5. CASE k = 0
  <2>1. ASSUME NEW s \in Small(S, 0) PROVE s = {}
    <3>1. s \in SUBSET S /\ Cardinality(s) <= 0
      BY <2>1 DEF Small
    <3>2. ASSUME s # {} PROVE FALSE
      <4>1. Cardinality(s) \in Nat \ {0}
        BY <3>1, <3>2, SetShrinks, Zenon
      <4> QED BY <3>1, <4>1
    <3> QED BY <3>2
  <2> DEFINE g == [s \in Small(S, 0) |-> 0]
  <2>2. Solves(g, col, Small(S, 0))
    BY <2>1 DEF Solves
  <2> QED BY <1>4, <1>5, <2>2
<1>6. CASE k > 0
  <2>1. PICK j \in Nat : j = k - 1
    BY <1>4, <1>6
  <2>2. j \notin Bad
    BY <1>3, <1>4, <2>1
  <2>3. PICK g : Solves(g, col, Small(S, j))
    BY <2>2
  <2> DEFINE h == [s \in Small(S, k) |-> IF s \in Small(S, j) THEN g[s]
                                          ELSE col[Picked(s)].n + g[s \ {Picked(s)}]]
  <2>4. ASSUME NEW s \in Small(S, k)
        PROVE  h[s] = IF s = {} THEN 0 ELSE col[Picked(s)].n + h[s \ {Picked(s)}]
    <3>1. CASE s = {}
      <4>1. s \in Small(S, j)
        BY <2>1, <3>1, FS_EmptySet DEF Small
      <4>2. g[s] = 0
        BY <2>3, <3>1, <4>1 DEF Solves
      <4> QED BY <3>1, <4>1, <4>2
    <3>2. CASE s # {}
      <4>0. s \in SUBSET S /\ Cardinality(s) <= k
        BY DEF Small
      <4>1. PICK t : t = s \ {Picked(s)}
        OBVIOUS
      <4>2. t \in SUBSET S /\ Cardinality(s) \in Nat \ {0} /\ Cardinality(t) = Cardinality(s) - 1
        BY <3>2, <4>0, <4>1, SetShrinks
      <4>3. t \in Small(S, j) /\ t \in Small(S, k)
        BY <1>4, <2>1, <4>0, <4>2 DEF Small
      <4>4. h[t] = g[t]
        BY <4>3
      <4>5. CASE s \in Small(S, j)
        <5>1. g[s] = col[Picked(s)].n + g[t]
          BY <2>3, <3>2, <4>1, <4>5 DEF Solves
        <5> QED BY <3>2, <4>1, <4>4, <4>5, <5>1
      <4>6. CASE s \notin Small(S, j)
        BY <3>2, <4>1, <4>4, <4>6
      <4> QED BY <4>5, <4>6
    <3> QED BY <3>1, <3>2
  <2>5. Solves(h, col, Small(S, k))
    <3>1. h = [s \in Small(S, k) |-> h[s]]
      OBVIOUS
    <3> HIDE DEF h
    <3> QED BY <2>4, <3>1, Zenon DEF Solves
  <2> QED BY <1>4, <2>5
<1> QED BY <1>4, <1>5, <1>6

\* The fold is defined on the subsets of a finite set.
LEMMA FoldIs ==
  ASSUME NEW col, NEW S, IsFiniteSet(S)
  PROVE  \E g : Folds(g, col, S) /\ SumOver(col, S) = g[S]
<1>1. Cardinality(S) \in Nat
  BY FS_CardinalityType
<1>2. \A s \in SUBSET S : Cardinality(s) <= Cardinality(S)
  BY FS_Subset
<1>3. Small(S, Cardinality(S)) = SUBSET S
  BY <1>2 DEF Small
<1>4. \E g : Solves(g, col, Small(S, Cardinality(S)))
  BY <1>1, FoldGrows, Zenon
<1>5. PICK g : Folds(g, col, S)
  BY <1>3, <1>4, Zenon DEF Folds
<1> QED BY <1>5, SumIs, Zenon

\* Two folds have one value for Sub.
Agree(g, h, Sub) == g[Sub] = h[Sub]

\* It does not depend on the set it is defined for.
LEMMA FoldAgrees ==
  ASSUME NEW col, NEW S, NEW g, NEW Sub, NEW h,
         Folds(g, col, S), Folds(h, col, Sub), IsFiniteSet(S), Sub \subseteq S
  PROVE  Agree(g, h, Sub)
<1> DEFINE Bad == {Cardinality(t) : t \in {s \in SUBSET Sub : g[s] # h[s]}}
<1>1. ASSUME g[Sub] # h[Sub] PROVE FALSE
  <2>1. Bad \subseteq Nat
    <3>1. ASSUME NEW t \in SUBSET Sub PROVE Cardinality(t) \in Nat
      BY FS_Subset, FS_CardinalityType
    <3> QED BY <3>1
  <2>2. Bad # {}
    BY <1>1
  <2>3. PICK k \in Bad : \A j \in Bad : k <= j
    <3> HIDE DEF Bad
    <3> QED BY <2>1, <2>2, LeastOne
  <2>4. PICK t \in SUBSET Sub : k = Cardinality(t) /\ g[t] # h[t]
    OBVIOUS
  <2>5. t # {}
    BY <2>4 DEF Folds, Solves
  <2>6. PICK u : u = t \ {Picked(t)}
    OBVIOUS
  <2>7. u \in SUBSET Sub /\ Cardinality(t) \in Nat \ {0} /\ Cardinality(u) = Cardinality(t) - 1
    BY <2>5, <2>6, SetShrinks
  <2>8. g[u] = h[u]
    <3>1. Cardinality(u) \notin Bad
      <4> HIDE DEF Bad
      <4> QED BY <2>3, <2>4, <2>7
    <3> QED BY <2>7, <3>1
  <2>9. g[t] = col[Picked(t)].n + g[u] /\ h[t] = col[Picked(t)].n + h[u]
    BY <2>5, <2>6 DEF Folds, Solves
  <2> QED BY <2>4, <2>8, <2>9
<1> QED BY <1>1 DEF Agree

\* The sum takes an element off.
LEMMA SumUnfolds ==
  ASSUME NEW col, NEW S, IsFiniteSet(S)
  PROVE  SumOver(col, S) = IF S = {} THEN 0 ELSE col[Picked(S)].n + SumOver(col, S \ {Picked(S)})
<1>1. PICK g : Folds(g, col, S) /\ SumOver(col, S) = g[S]
  BY FoldIs
<1>2. CASE S = {}
  BY <1>1, <1>2 DEF Folds, Solves
<1>3. CASE S # {}
  <2>1. PICK Sub : Sub = S \ {Picked(S)}
    OBVIOUS
  <2>2. Sub \in SUBSET S /\ IsFiniteSet(Sub)
    BY <2>1, FS_Subset
  <2>3. PICK h : Folds(h, col, Sub) /\ SumOver(col, Sub) = h[Sub]
    BY <2>2, FoldIs
  <2>4. g[Sub] = h[Sub]
    <3>1. Sub \subseteq S
      BY <2>2
    <3>2. Folds(g, col, S) /\ Folds(h, col, Sub)
      BY <1>1, <2>3
    <3>3. Agree(g, h, Sub)
      BY <3>1, <3>2, FoldAgrees, Zenon
    <3> QED BY <3>3 DEF Agree
  <2>5. g[S] = col[Picked(S)].n + g[Sub]
    BY <1>1, <1>3, <2>1 DEF Folds, Solves
  <2> QED BY <1>1, <1>3, <2>1, <2>3, <2>4, <2>5
<1> QED BY <1>2, <1>3

\* A sum is a number, whichever element is taken off first.
Splits(col, S) ==
  /\ SumOver(col, S) \in Int
  /\ \A x \in S : SumOver(col, S) = col[x].n + SumOver(col, S \ {x})

\* The sum of numbers is a number, whichever element is taken off first.
LEMMA SumSplits ==
  ASSUME NEW col, NEW U, IsFiniteSet(U), \A i \in U : col[i].n \in Int
  PROVE  Splits(col, U)
<1> DEFINE Bad == {Cardinality(t) : t \in {s \in SUBSET U : ~Splits(col, s)}}
<1>1. ASSUME ~Splits(col, U) PROVE FALSE
  <2>1. Bad \subseteq Nat
    <3>1. ASSUME NEW t \in SUBSET U PROVE Cardinality(t) \in Nat
      BY FS_Subset, FS_CardinalityType
    <3> QED BY <3>1
  <2>2. Bad # {}
    BY <1>1
  <2>3. PICK k \in Bad : \A j \in Bad : k <= j
    <3> HIDE DEF Bad
    <3> QED BY <2>1, <2>2, LeastOne
  <2>4. PICK S \in SUBSET U : k = Cardinality(S) /\ ~Splits(col, S)
    OBVIOUS
  <2>5. IsFiniteSet(S) /\ Cardinality(S) \in Nat
    BY FS_Subset, FS_CardinalityType
  <2>6. ASSUME NEW x \in S PROVE Splits(col, S \ {x})
    <3>1. Cardinality(S \ {x}) = Cardinality(S) - 1
      BY <2>5, FS_RemoveElement
    <3>2. Cardinality(S \ {x}) \notin Bad
      <4> HIDE DEF Bad
      <4> QED BY <2>3, <2>4, <2>5, <3>1
    <3>3. S \ {x} \in SUBSET U
      OBVIOUS
    <3> QED BY <3>2, <3>3
  <2>7. CASE S = {}
    <3>1. SumOver(col, S) = 0
      BY <2>5, <2>7, SumUnfolds, Zenon
    <3>2. SumOver(col, S) \in Int
      BY <3>1
    <3>3. \A x \in S : SumOver(col, S) = col[x].n + SumOver(col, S \ {x})
      BY <2>7
    <3> QED BY <2>4, <3>2, <3>3 DEF Splits
  <2>8. CASE S # {}
    <3>1. PICK p : p = Picked(S) /\ p \in S
      BY <2>5, <2>8, SetShrinks
    <3>2. SumOver(col, S) = col[p].n + SumOver(col, S \ {p})
      BY <2>5, <2>8, <3>1, SumUnfolds
    <3>3. SumOver(col, S \ {p}) \in Int /\ col[p].n \in Int
      BY <2>6, <3>1 DEF Splits
    <3>4. SumOver(col, S) \in Int
      BY <3>2, <3>3
    <3>5. ASSUME NEW x \in S PROVE SumOver(col, S) = col[x].n + SumOver(col, S \ {x})
      <4>1. CASE x = p
        BY <3>2, <4>1
      <4>2. CASE x # p
        <5>1. PICK V : V = (S \ {p}) \ {x} /\ V = (S \ {x}) \ {p}
          OBVIOUS
        <5>2. SumOver(col, S \ {p}) = col[x].n + SumOver(col, V)
          <6>1. x \in S \ {p}
            BY <4>2
          <6> QED BY <2>6, <3>1, <5>1, <6>1 DEF Splits
        <5>3. SumOver(col, S \ {x}) = col[p].n + SumOver(col, V)
          <6>1. p \in S \ {x}
            BY <3>1, <4>2
          <6> QED BY <2>6, <5>1, <6>1 DEF Splits
        <5>4. SumOver(col, V) \in Int
          <6>1. V \in SUBSET U /\ IsFiniteSet(S \ {p}) /\ x \in S \ {p}
            BY <2>5, <3>1, <4>2, <5>1, FS_RemoveElement
          <6>5. Cardinality(S \ {p}) = Cardinality(S) - 1
            BY <2>5, <3>1, FS_RemoveElement
          <6>6. Cardinality((S \ {p}) \ {x}) = Cardinality(S \ {p}) - 1
            BY <6>1, FS_RemoveElement
          <6>7. Cardinality(S) # 0
            BY <2>5, <2>8, FS_EmptySet
          <6>2. Cardinality(V) \in Nat /\ Cardinality(V) < Cardinality(S)
            <7>1. V = (S \ {p}) \ {x}
              BY <5>1
            <7>2. Cardinality(V) \in Nat
              BY <2>5, <6>1, FS_Subset, FS_CardinalityType
            <7> QED BY <2>5, <6>5, <6>6, <7>1, <7>2
          <6>3. Cardinality(V) \notin Bad
            <7> HIDE DEF Bad
            <7> QED BY <2>3, <2>4, <2>5, <6>2
          <6>4. Splits(col, V)
            BY <6>1, <6>3
          <6> QED BY <6>4 DEF Splits
        <5>5. col[x].n \in Int
          OBVIOUS
        <5> QED BY <3>2, <3>3, <5>2, <5>3, <5>4, <5>5
      <4> QED BY <4>1, <4>2
    <3> QED BY <2>4, <3>4, <3>5 DEF Splits
  <2> QED BY <2>7, <2>8
<1> QED BY <1>1

-----------------------------------------------------------------------------
(* The window. *)

\* The rows of a frame that count, of any column.
FrameOf(col, l, e) == {i \in l + 1..e : parseDec(col[i])}

\* The fields of an aggregate.
AggFields == [any : BOOLEAN, acc : Int, n : Nat, sawStr : BOOLEAN, sawFloat : BOOLEAN]

\* The rows that have entered: one counts, one is a text, one is a float, those that
\* count are integers.
AnyCounts(col, e) == \E i \in 1..e : parseDec(col[i])
AnyText(col, e) == \E i \in 1..e : col[i].kind \in {"text", "word"}
AnyFloat(col, e) == \E i \in 1..e : col[i].kind = "float"
OnlyInts(col, e) == \A i \in 1..e : parseDec(col[i]) => col[i].kind = "int"

\* What an aggregate is after the rows that entered and those that left.
WindowBounds(col, l, e) == col \in Seq(Cells) /\ l \in Nat /\ e \in Nat /\ l <= e /\ e <= Len(col)
Remembers(col, e, a) ==
  /\ a.any <=> AnyCounts(col, e)
  /\ a.sawStr <=> AnyText(col, e)
  /\ a.sawFloat <=> AnyFloat(col, e)
SumsUp(col, l, e, a) ==
  /\ a.n = Cardinality(FrameOf(col, l, e))
  /\ a.acc = SumOver(col, FrameOf(col, l, e))
  /\ OnlyInts(col, e) => a.acc % 10 = 0
WindowIs(col, l, e, a) ==
  WindowBounds(col, l, e) /\ a \in AggFields /\ Remembers(col, e, a) /\ SumsUp(col, l, e, a)

\* A row of a column.
LEMMA CellAt ==
  ASSUME NEW col \in Seq(Cells), NEW i \in 1..Len(col)
  PROVE  /\ col[i].n \in Int /\ col[i].kind \in Numeric \cup {"null", "word"}
         /\ col[i].kind = "int" => col[i].n % 10 = 0
<1>1. col[i] \in Cells
  OBVIOUS
<1> QED BY <1>1, DecimalsAssumption

\* The rows of a frame are finite in number, and their cells are numbers.
LEMMA FrameIsFinite ==
  ASSUME NEW col, NEW l, NEW e, WindowBounds(col, l, e)
  PROVE  /\ IsFiniteSet(FrameOf(col, l, e)) /\ FrameOf(col, l, e) \subseteq 1..Len(col)
         /\ \A i \in FrameOf(col, l, e) : col[i].n \in Int
<1>1. FrameOf(col, l, e) \subseteq l + 1..e
  BY DEF FrameOf
<1>2. IsFiniteSet(l + 1..e)
  <2>1. l + 1 \in Int /\ e \in Int
    BY DEF WindowBounds
  <2> QED BY <2>1, FS_Interval
<1>3. IsFiniteSet(FrameOf(col, l, e))
  BY <1>1, <1>2, FS_Subset
<1>4. col \in Seq(Cells)
  BY DEF WindowBounds
<1>5. FrameOf(col, l, e) \subseteq 1..Len(col)
  <2>1. PICK n \in Nat : n = Len(col)
    BY <1>4
  <2>2. l \in Nat /\ e \in Nat /\ e <= n
    BY <2>1 DEF WindowBounds
  <2>3. l + 1..e \subseteq 1..n
    BY <2>2
  <2> QED BY <1>1, <2>1, <2>3
<1>6. \A i \in 1..Len(col) : col[i].n \in Int
  BY <1>4, CellAt
<1> QED BY <1>3, <1>5, <1>6

\* One row more.
LEMMA OneMore ==
  ASSUME NEW col, NEW S, NEW x, IsFiniteSet(S), x \notin S,
         \A i \in S \cup {x} : col[i].n \in Int
  PROVE  /\ Cardinality(S) \in Nat /\ Cardinality(S \cup {x}) = Cardinality(S) + 1
         /\ SumOver(col, S) \in Int /\ SumOver(col, S \cup {x}) = SumOver(col, S) + col[x].n
<1>1. Cardinality(S) \in Nat /\ Cardinality(S \cup {x}) = Cardinality(S) + 1
  BY FS_CardinalityType, FS_AddElement
<1>2. PICK U : U = S \cup {x}
  OBVIOUS
<1>3. IsFiniteSet(U) /\ (\A i \in U : col[i].n \in Int) /\ x \in U
  BY <1>2, FS_AddElement
<1>4. Splits(col, U)
  BY <1>3, SumSplits
<1>5. Splits(col, S)
  <2>1. \A i \in S : col[i].n \in Int
    OBVIOUS
  <2> QED BY <2>1, SumSplits
<1>6. U \ {x} = S
  BY <1>2
<1>7. SumOver(col, U) = col[x].n + SumOver(col, U \ {x})
  BY <1>3, <1>4 DEF Splits
<1>8. SumOver(col, S) \in Int /\ col[x].n \in Int
  BY <1>3, <1>5 DEF Splits
<1>9. SumOver(col, U) = SumOver(col, S) + col[x].n
  <2>1. SumOver(col, U) = col[x].n + SumOver(col, S)
    BY <1>6, <1>7
  <2> QED BY <1>8, <2>1
<1> QED BY <1>1, <1>2, <1>8, <1>9
-----------------------------------------------------------------------------

\* The aggregate after a row that enters, and after one that leaves.
Entering(a, c) ==
  LET b == [a EXCEPT !.sawStr = @ \/ c.kind \in {"text", "word"}, !.sawFloat = @ \/ c.kind = "float"]
  IN IF parseDec(c) THEN Added(b, c) ELSE b
Leaving(a, c) == IF parseDec(c) /\ a.any THEN [a EXCEPT !.acc = @ - c.n, !.n = @ - 1] ELSE a

\* The fields of the first.
LEMMA EnteringIs ==
  ASSUME NEW a \in AggFields, NEW c, c.n \in Int
  PROVE  /\ Entering(a, c) \in AggFields
         /\ Entering(a, c).any <=> (a.any \/ parseDec(c))
         /\ Entering(a, c).sawStr <=> (a.sawStr \/ c.kind \in {"text", "word"})
         /\ Entering(a, c).sawFloat <=> (a.sawFloat \/ c.kind = "float")
         /\ parseDec(c) => Entering(a, c).acc = a.acc + c.n /\ Entering(a, c).n = a.n + 1
         /\ ~parseDec(c) => Entering(a, c).acc = a.acc /\ Entering(a, c).n = a.n
<1>1. PICK b : b = [a EXCEPT !.sawStr = @ \/ c.kind \in {"text", "word"}, !.sawFloat = @ \/ c.kind = "float"]
  OBVIOUS
<1>2. /\ b \in AggFields /\ b.any = a.any /\ b.acc = a.acc /\ b.n = a.n
      /\ b.sawStr <=> (a.sawStr \/ c.kind \in {"text", "word"})
      /\ b.sawFloat <=> (a.sawFloat \/ c.kind = "float")
  BY <1>1 DEF AggFields
<1>3. Entering(a, c) = IF parseDec(c) THEN Added(b, c) ELSE b
  BY <1>1 DEF Entering
<1>4. CASE parseDec(c)
  <2>1. PICK d : d = Added(b, c)
    OBVIOUS
  <2>2. /\ d \in AggFields /\ d.any /\ d.acc = b.acc + c.n /\ d.n = b.n + 1
        /\ d.sawStr = b.sawStr /\ d.sawFloat = b.sawFloat
    <3>1. d = [any |-> TRUE, acc |-> b.acc + c.n, n |-> b.n + 1, sawStr |-> b.sawStr, sawFloat |-> b.sawFloat]
      BY <1>2, <2>1 DEF AggFields, Added
    <3>2. b.acc + c.n \in Int /\ b.n + 1 \in Nat /\ b.sawStr \in BOOLEAN /\ b.sawFloat \in BOOLEAN
      BY <1>2 DEF AggFields
    <3> QED BY <3>1, <3>2 DEF AggFields
  <2>3. Entering(a, c) = d
    BY <1>3, <1>4, <2>1
  <2> QED BY <1>2, <1>4, <2>2, <2>3
<1>5. CASE ~parseDec(c)
  <2>1. Entering(a, c) = b
    BY <1>3, <1>5
  <2> QED BY <1>2, <1>5, <2>1
<1> QED BY <1>4, <1>5

\* A row that enters.
LEMMA RowEnters ==
  ASSUME NEW col, NEW l, NEW e, NEW a, WindowIs(col, l, e, a), e < Len(col), NEW f, f = e + 1
  PROVE  WindowIs(col, l, f, Entering(a, col[f]))
<1>1. /\ col \in Seq(Cells) /\ l \in Nat /\ e \in Nat /\ l <= e /\ a \in AggFields
  BY DEF WindowIs, WindowBounds
<1>2. PICK n \in Nat : n = Len(col)
  BY <1>1
<1>3. f \in Nat /\ l <= f /\ f <= n /\ f \in 1..n /\ 1..f = 1..e \cup {f} /\ f \notin 1..e
  BY <1>1, <1>2
<1>4. WindowBounds(col, l, f)
  BY <1>1, <1>2, <1>3 DEF WindowBounds
<1>5. PICK c : c = col[f]
  OBVIOUS
<1>6. c.n \in Int /\ (c.kind = "int" => c.n % 10 = 0)
  BY <1>1, <1>2, <1>3, <1>5, CellAt
<1>7. PICK b : b = Entering(a, c)
  OBVIOUS
<1>8. /\ b \in AggFields
      /\ b.any <=> (a.any \/ parseDec(c))
      /\ b.sawStr <=> (a.sawStr \/ c.kind \in {"text", "word"})
      /\ b.sawFloat <=> (a.sawFloat \/ c.kind = "float")
      /\ parseDec(c) => b.acc = a.acc + c.n /\ b.n = a.n + 1
      /\ ~parseDec(c) => b.acc = a.acc /\ b.n = a.n
  BY <1>1, <1>6, <1>7, EnteringIs
<1>9. Remembers(col, f, b)
  <2>1. AnyCounts(col, f) <=> (AnyCounts(col, e) \/ parseDec(c))
    BY <1>3, <1>5 DEF AnyCounts
  <2>2. AnyText(col, f) <=> (AnyText(col, e) \/ c.kind \in {"text", "word"})
    BY <1>3, <1>5 DEF AnyText
  <2>3. AnyFloat(col, f) <=> (AnyFloat(col, e) \/ c.kind = "float")
    BY <1>3, <1>5 DEF AnyFloat
  <2>4. Remembers(col, e, a)
    BY DEF WindowIs
  <2> QED BY <1>8, <2>1, <2>2, <2>3, <2>4 DEF Remembers
<1>10. SumsUp(col, l, f, b)
  <2>1. PICK S : S = FrameOf(col, l, e)
    OBVIOUS
  <2>2. IsFiniteSet(S) /\ (\A i \in S : col[i].n \in Int) /\ f \notin S
    <3>1. WindowBounds(col, l, e)
      BY DEF WindowIs
    <3>2. f \notin S
      BY <1>1, <1>3, <2>1 DEF FrameOf
    <3> QED BY <2>1, <3>1, <3>2, FrameIsFinite
  <2>3. a.n = Cardinality(S) /\ a.acc = SumOver(col, S) /\ (OnlyInts(col, e) => a.acc % 10 = 0)
    BY <2>1 DEF WindowIs, SumsUp
  <2>4. a.n \in Nat /\ a.acc \in Int
    BY <1>1 DEF AggFields
  <2>5. OnlyInts(col, f) <=> (OnlyInts(col, e) /\ (parseDec(c) => c.kind = "int"))
    BY <1>3, <1>5 DEF OnlyInts
  <2>6. CASE parseDec(c)
    <3>1. FrameOf(col, l, f) = S \cup {f}
      <4>1. l + 1..f = (l + 1..e) \cup {f}
        BY <1>1, <1>3
      <4> QED BY <1>5, <2>1, <2>6, <4>1 DEF FrameOf
    <3>2. Cardinality(S \cup {f}) = Cardinality(S) + 1 /\ SumOver(col, S \cup {f}) = SumOver(col, S) + c.n
      <4>1. \A i \in S \cup {f} : col[i].n \in Int
        BY <1>5, <1>6, <2>2
      <4> QED BY <1>5, <2>2, <4>1, OneMore
    <3>3. b.n = Cardinality(FrameOf(col, l, f)) /\ b.acc = SumOver(col, FrameOf(col, l, f))
      BY <1>8, <2>3, <2>6, <3>1, <3>2
    <3>4. OnlyInts(col, f) => b.acc % 10 = 0
      <4>1. ASSUME OnlyInts(col, f) PROVE b.acc % 10 = 0
        <5>1. a.acc % 10 = 0 /\ c.n % 10 = 0
          BY <1>6, <2>3, <2>5, <2>6, <4>1
        <5>2. b.acc = a.acc + c.n
          BY <1>8, <2>6
        <5> QED BY <1>6, <2>4, <5>1, <5>2
      <4> QED BY <4>1
    <3> QED BY <3>3, <3>4 DEF SumsUp
  <2>7. CASE ~parseDec(c)
    <3>1. FrameOf(col, l, f) = S
      <4>1. l + 1..f = (l + 1..e) \cup {f}
        BY <1>1, <1>3
      <4> QED BY <1>5, <2>1, <2>7, <4>1 DEF FrameOf
    <3>2. b.n = a.n /\ b.acc = a.acc
      BY <1>8, <2>7
    <3> QED BY <2>3, <2>5, <3>1, <3>2 DEF SumsUp
  <2> QED BY <2>6, <2>7
<1> QED BY <1>4, <1>5, <1>7, <1>8, <1>9, <1>10 DEF WindowIs

\* A row that leaves.
LEMMA RowLeaves ==
  ASSUME NEW col, NEW l, NEW e, NEW a, WindowIs(col, l, e, a), l < e, NEW m, m = l + 1
  PROVE  WindowIs(col, m, e, Leaving(a, col[m]))
<1>1. /\ col \in Seq(Cells) /\ l \in Nat /\ e \in Nat /\ l <= e /\ a \in AggFields
  BY DEF WindowIs, WindowBounds
<1>2. PICK n \in Nat : n = Len(col) /\ e <= n
  BY <1>1 DEF WindowIs, WindowBounds
<1>3. m \in Nat /\ m <= e /\ m \in 1..n /\ m \in 1..e
  BY <1>1, <1>2
<1>4. WindowBounds(col, m, e)
  BY <1>1, <1>2, <1>3 DEF WindowBounds
<1>5. PICK c : c = col[m]
  OBVIOUS
<1>6. c.n \in Int /\ (c.kind = "int" => c.n % 10 = 0)
  BY <1>1, <1>2, <1>3, <1>5, CellAt
<1>7. Remembers(col, e, a)
  BY DEF WindowIs
<1>8. PICK S : S = FrameOf(col, m, e)
  OBVIOUS
<1>9. l + 1..e = (m + 1..e) \cup {m} /\ m \notin m + 1..e
  BY <1>1, <1>3
<1>10. a.n = Cardinality(FrameOf(col, l, e)) /\ a.acc = SumOver(col, FrameOf(col, l, e))
       /\ (OnlyInts(col, e) => a.acc % 10 = 0)
  BY DEF WindowIs, SumsUp
<1>11. CASE parseDec(c)
  <2>1. a.any
    BY <1>3, <1>5, <1>7, <1>11 DEF Remembers, AnyCounts
  <2>2. PICK b : b = [a EXCEPT !.acc = @ - c.n, !.n = @ - 1]
    OBVIOUS
  <2>3. Leaving(a, c) = b
    BY <1>11, <2>1, <2>2 DEF Leaving
  <2>4. FrameOf(col, l, e) = S \cup {m}
    BY <1>5, <1>8, <1>9, <1>11 DEF FrameOf
  <2>5. IsFiniteSet(S) /\ (\A i \in S \cup {m} : col[i].n \in Int) /\ m \notin S
    <3>1. m \notin S
      BY <1>8, <1>9 DEF FrameOf
    <3> QED BY <1>4, <1>5, <1>6, <1>8, <3>1, FrameIsFinite
  <2>6. /\ Cardinality(S) \in Nat /\ Cardinality(S \cup {m}) = Cardinality(S) + 1
        /\ SumOver(col, S) \in Int /\ SumOver(col, S \cup {m}) = SumOver(col, S) + c.n
    BY <1>5, <2>5, OneMore
  <2>7. a.n \in Nat /\ a.acc \in Int
    BY <1>1 DEF AggFields
  <2>8. a.n = Cardinality(S) + 1 /\ a.acc = SumOver(col, S) + c.n
    BY <1>10, <2>4, <2>6
  <2>9. b.acc = a.acc - c.n /\ b.n = a.n - 1 /\ b.any = a.any /\ b.sawStr = a.sawStr /\ b.sawFloat = a.sawFloat
    BY <1>1, <2>2 DEF AggFields
  <2>10. b.n = Cardinality(S) /\ b.acc = SumOver(col, S)
    BY <1>6, <2>6, <2>8, <2>9
  <2>11. b \in AggFields
    <3>1. a.acc - c.n \in Int /\ a.n - 1 \in Nat
      BY <1>6, <2>6, <2>7, <2>8
    <3> QED BY <1>1, <2>2, <3>1 DEF AggFields
  <2>12. OnlyInts(col, e) => b.acc % 10 = 0
    <3>1. ASSUME OnlyInts(col, e) PROVE b.acc % 10 = 0
      <4>1. a.acc % 10 = 0 /\ c.kind = "int"
        BY <1>3, <1>5, <1>10, <1>11, <3>1 DEF OnlyInts
      <4>2. c.n % 10 = 0
        BY <1>6, <4>1
      <4> QED BY <1>6, <2>7, <2>9, <4>1, <4>2
    <3> QED BY <3>1
  <2>13. SumsUp(col, m, e, b)
    BY <1>8, <2>10, <2>12 DEF SumsUp
  <2>14. Remembers(col, e, b)
    BY <1>7, <2>9 DEF Remembers
  <2> QED BY <1>4, <1>5, <2>3, <2>11, <2>13, <2>14 DEF WindowIs
<1>12. CASE ~parseDec(c)
  <2>1. Leaving(a, c) = a
    BY <1>12 DEF Leaving
  <2>2. FrameOf(col, l, e) = FrameOf(col, m, e)
    BY <1>5, <1>9, <1>12 DEF FrameOf
  <2>3. SumsUp(col, m, e, a)
    BY <1>10, <2>2 DEF SumsUp
  <2> QED BY <1>1, <1>4, <1>5, <1>7, <2>1, <2>3 DEF WindowIs
<1> QED BY <1>11, <1>12

\* A new aggregate, of a frame with no row.
LEMMA WindowStarts ==
  ASSUME NEW col \in Seq(Cells)
  PROVE  WindowIs(col, 0, 0, NewAgg)
<1>1. FrameOf(col, 0, 0) = {}
  <2>1. 0 + 1..0 = {}
    OBVIOUS
  <2> QED BY <2>1 DEF FrameOf
<1>2. Cardinality(FrameOf(col, 0, 0)) = 0 /\ SumOver(col, FrameOf(col, 0, 0)) = 0
  BY <1>1, FS_EmptySet, SumUnfolds
<1>3. /\ NewAgg \in AggFields /\ NewAgg.n = 0 /\ NewAgg.acc = 0
      /\ ~NewAgg.any /\ ~NewAgg.sawStr /\ ~NewAgg.sawFloat
  BY DEF NewAgg, AggFields
<1>4. SumsUp(col, 0, 0, NewAgg)
  BY <1>2, <1>3 DEF SumsUp
<1>5. Remembers(col, 0, NewAgg)
  BY <1>3 DEF Remembers, AnyCounts, AnyText, AnyFloat
<1>6. WindowBounds(col, 0, 0)
  BY DEF WindowBounds
<1> QED BY <1>3, <1>4, <1>5, <1>6 DEF WindowIs

\* The kinds of a column with only one.
LEMMA OneKind ==
  ASSUME column \in Seq(Cells), Cardinality(Kinds) = 1, NEW i \in 1..Len(column), column[i].kind # "null"
  PROVE  /\ Kinds = {column[i].kind}
         /\ \A j \in 1..Len(column) : column[j].kind \in {column[i].kind, "null"}
<1>1. Kinds \subseteq {"int", "float", "text", "word"}
  BY CellAt DEF Kinds, Numeric
<1>2. IsFiniteSet({"int", "float", "text", "word"})
  <2>1. IsFiniteSet({"int"} \cup {"float"})
    BY FS_Singleton, FS_AddElement
  <2>2. IsFiniteSet(({"int"} \cup {"float"}) \cup {"text"})
    BY <2>1, FS_AddElement
  <2>3. IsFiniteSet((({"int"} \cup {"float"}) \cup {"text"}) \cup {"word"})
    BY <2>2, FS_AddElement
  <2>4. (({"int"} \cup {"float"}) \cup {"text"}) \cup {"word"} = {"int", "float", "text", "word"}
    OBVIOUS
  <2> QED BY <2>3, <2>4
<1>3. IsFiniteSet(Kinds)
  BY <1>1, <1>2, FS_Subset
<1>4. PICK k : Kinds = {k}
  BY <1>3, FS_Singleton
<1>5. \A j \in 1..Len(column) : column[j].kind # "null" => column[j].kind \in Kinds
  BY DEF Kinds
<1>6. k = column[i].kind
  BY <1>4, <1>5
<1> QED BY <1>4, <1>5, <1>6

\* What a row of a frame makes an aggregate of a column with one kind remember.
LEMMA KindIsRemembered ==
  ASSUME WindowIs(column, left, entered, agg), Cardinality(Kinds) = 1,
         NEW i \in FrameOf(column, left, entered)
  PROVE  /\ column[i].kind \in Numeric /\ Kinds = {column[i].kind}
         /\ column[i].kind = "int" => ~agg.sawStr /\ ~agg.sawFloat /\ agg.acc % 10 = 0
         /\ column[i].kind = "float" => ~agg.sawStr /\ agg.sawFloat
         /\ column[i].kind = "text" => agg.sawStr
<1>1. /\ column \in Seq(Cells) /\ left \in Nat /\ entered \in Nat /\ left <= entered
      /\ entered <= Len(column)
  BY DEF WindowIs, WindowBounds
<1>2. PICK N \in Nat : N = Len(column)
  BY <1>1
<1>3. i \in 1..entered /\ parseDec(column[i]) /\ 1..entered \subseteq 1..N
  BY <1>1, <1>2 DEF FrameOf
<1>4. PICK k : k = column[i].kind
  OBVIOUS
<1>5. k \in Numeric /\ k # "null"
  BY <1>3, <1>4 DEF parseDec, Numeric
<1>6. Kinds = {k} /\ \A j \in 1..entered : column[j].kind \in {k, "null"}
  BY <1>1, <1>2, <1>3, <1>4, <1>5, OneKind
<1>7. /\ agg.sawStr <=> AnyText(column, entered)
      /\ agg.sawFloat <=> AnyFloat(column, entered)
      /\ OnlyInts(column, entered) => agg.acc % 10 = 0
  BY DEF WindowIs, Remembers, SumsUp
<1>8. AnyText(column, entered) <=> k \in {"text", "word"}
  BY <1>3, <1>4, <1>6 DEF AnyText
<1>9. AnyFloat(column, entered) <=> k = "float"
  BY <1>3, <1>4, <1>6 DEF AnyFloat
<1>10. k = "int" => OnlyInts(column, entered)
  BY <1>6 DEF OnlyInts, parseDec, Numeric
<1> QED BY <1>4, <1>5, <1>6, <1>7, <1>8, <1>9, <1>10

\* The value of an aggregate.
LEMMA ValueIs ==
  ASSUME NEW avg \in BOOLEAN
  PROVE  /\ agg.n = 0 \/ ~agg.any => value(avg) = Null
         /\ ~(agg.n = 0 \/ ~agg.any) =>
              /\ value(avg) # Null /\ value(avg).acc = agg.acc
              /\ value(avg).den = IF avg THEN agg.n ELSE 1
              /\ agg.sawStr => value(avg).kind = "text"
              /\ ~agg.sawStr /\ (avg \/ agg.sawFloat) => value(avg).kind = "float"
              /\ ~agg.sawStr /\ ~avg /\ ~agg.sawFloat /\ agg.acc \in Int64 /\ agg.acc % 10 = 0 =>
                   value(avg).kind = "int"
              /\ ~agg.sawStr /\ ~avg /\ ~agg.sawFloat /\ agg.acc \notin Int64 => value(avg).kind = "text"
<1>1. CASE agg.n = 0 \/ ~agg.any
  BY <1>1 DEF value
<1>2. CASE ~(agg.n = 0 \/ ~agg.any)
  <2>1. PICK k : k = IF agg.sawStr THEN "text"
                     ELSE IF avg \/ agg.sawFloat THEN "float"
                     ELSE IF agg.acc \in Int64 /\ agg.acc % 10 = 0 THEN "int"
                     ELSE "text"
    OBVIOUS
  <2>2. value(avg) = [kind |-> k, acc |-> agg.acc, den |-> IF avg THEN agg.n ELSE 1]
    BY <1>2, <2>1 DEF value
  <2>3. k # "null"
    BY <2>1
  <2>4. value(avg).kind = k /\ Null.kind = "null"
    BY <2>2 DEF Null
  <2> QED BY <1>2, <2>1, <2>2, <2>3, <2>4
<1> QED BY <1>1, <1>2

\* What an aggregate remembers is what its value needs: at every row the sum, the
\* average, their kind and NULL are those of the frame's rows (decimal.go:50-112).
THEOREM WindowIsRight ==
  ASSUME WindowIs(column, left, entered, agg)
  PROVE  WindowRight
<1>1. PICK F : F = FrameOf(column, left, entered)
  OBVIOUS
<1>2. Frame = F
  BY <1>1 DEF Frame, FrameOf
<1>3. Total = agg.acc
  BY <1>1, <1>2 DEF Total, WindowIs, SumsUp, SumOver
<1>4. agg.n = Cardinality(F) /\ IsFiniteSet(F)
  BY <1>1, FrameIsFinite DEF WindowIs, SumsUp
<1>5. agg.n = 0 <=> F = {}
  BY <1>4, FS_EmptySet
<1>6. F # {} => agg.any
  <2>1. ASSUME NEW i \in F PROVE agg.any
    <3>1. i \in 1..entered /\ parseDec(column[i])
      BY <1>1 DEF FrameOf, WindowIs, WindowBounds
    <3> QED BY <3>1 DEF WindowIs, Remembers, AnyCounts
  <2> QED BY <2>1
<1>7. ASSUME NEW avg \in BOOLEAN
      PROVE  LET v == value(avg)
                 fits == Total \in Int64
             IN /\ v = Null <=> Frame = {}
                /\ v # Null => v.acc = Total /\ v.den = IF avg THEN Cardinality(Frame) ELSE 1
                /\ v # Null /\ Cardinality(Kinds) = 1 =>
                     v.kind \in IF Kinds = {"int"} /\ ~avg THEN {IF fits THEN "int" ELSE "text"}
                                ELSE IF Kinds = {"int"} THEN {"float"} ELSE Kinds
  <2>1. CASE F = {}
    <3>1. value(avg) = Null
      BY <1>5, <2>1, ValueIs
    <3> QED BY <1>2, <2>1, <3>1
  <2>2. CASE F # {}
    <3>1. ~(agg.n = 0 \/ ~agg.any)
      BY <1>5, <1>6, <2>2
    <3>2. value(avg) # Null /\ value(avg).acc = agg.acc /\ value(avg).den = IF avg THEN agg.n ELSE 1
      BY <3>1, ValueIs
    <3>3. value(avg).den = IF avg THEN Cardinality(Frame) ELSE 1
      BY <1>2, <1>4, <3>2
    <3>4. ASSUME Cardinality(Kinds) = 1
          PROVE  value(avg).kind \in IF Kinds = {"int"} /\ ~avg THEN {IF Total \in Int64 THEN "int" ELSE "text"}
                                     ELSE IF Kinds = {"int"} THEN {"float"} ELSE Kinds
      <4>1. PICK i \in F : TRUE
        BY <2>2
      <4>2. PICK k : k = column[i].kind
        OBVIOUS
      <4>3. /\ k \in {"int", "float", "text"} /\ Kinds = {k}
            /\ k = "int" => ~agg.sawStr /\ ~agg.sawFloat /\ agg.acc % 10 = 0
            /\ k = "float" => ~agg.sawStr /\ agg.sawFloat
            /\ k = "text" => agg.sawStr
        BY <1>1, <3>4, <4>1, <4>2, KindIsRemembered DEF Numeric
      <4>4. CASE k = "int"
        <5>1. Kinds = {"int"}
          BY <4>3, <4>4
        <5>2. ~agg.sawStr /\ ~agg.sawFloat /\ agg.acc % 10 = 0
          BY <4>3, <4>4
        <5>3. CASE avg
          <6>1. value(avg).kind = "float"
            BY <3>1, <5>2, <5>3, ValueIs
          <6> QED BY <5>1, <5>3, <6>1
        <5>4. CASE ~avg
          <6>1. agg.acc \in Int64 => value(avg).kind = "int"
            BY <3>1, <5>2, <5>4, ValueIs
          <6>2. agg.acc \notin Int64 => value(avg).kind = "text"
            BY <3>1, <5>2, <5>4, ValueIs
          <6> QED BY <1>3, <5>1, <5>4, <6>1, <6>2
        <5> QED BY <5>3, <5>4
      <4>5. CASE k = "float"
        <5>1. value(avg).kind = "float"
          BY <3>1, <4>3, <4>5, ValueIs
        <5>2. Kinds = {"float"} /\ Kinds # {"int"}
          BY <4>3, <4>5
        <5> QED BY <5>1, <5>2
      <4>6. CASE k = "text"
        <5>1. value(avg).kind = "text"
          BY <3>1, <4>3, <4>6, ValueIs
        <5>2. Kinds = {"text"} /\ Kinds # {"int"}
          BY <4>3, <4>6
        <5> QED BY <5>1, <5>2
      <4> QED BY <4>3, <4>4, <4>5, <4>6
    <3> QED BY <1>2, <1>3, <2>2, <3>2, <3>3, <3>4
  <2> QED BY <2>1, <2>2
<1> QED BY <1>7 DEF WindowRight

-----------------------------------------------------------------------------
(* All of them. *)

\* Each question is one of its part's.
QuestionsAsked ==
  \A q \in question :
    /\ part = "ranges" => q \in Ranges \X Ranges
    /\ part = "made" => q \in Bounds \X Bounds \X BOOLEAN \X BOOLEAN
    /\ part = "moments" => q \in Moments
    /\ part = "ages" => q \in Ages
    /\ part = "order" => q \in Cells \X Cells \X Cells
    /\ part = "rounding" => q \in Numbers
    /\ part = "types" => q \in Types

\* The invariant: what is at work has its questions or its window.
ValuesInv ==
  /\ part \in ValueFunctions \cup {"aggregates"}
  /\ QuestionsAsked
  /\ part = "aggregates" => question = {} /\ WindowIs(column, left, entered, agg)

\* At first nothing is asked, and no row has entered the window.
LEMMA ValuesStart == ValuesInit => ValuesInv
<1> SUFFICES ASSUME ValuesInit PROVE ValuesInv
  OBVIOUS
<1>1. question = {} /\ part \in ValueFunctions \cup {"aggregates"}
  BY DEF ValuesInit
<1>2. QuestionsAsked
  BY <1>1 DEF QuestionsAsked
<1>3. ASSUME part = "aggregates" PROVE WindowIs(column, left, entered, agg)
  <2>1. DecInit
    BY <1>3 DEF ValuesInit, ValueFunctions
  <2>2. PICK k \in 1..MaxRows : column \in [1..k -> Cells]
    BY <2>1 DEF DecInit
  <2>3. k \in Nat
    BY DecimalsAssumption
  <2>4. column \in Seq(Cells)
    BY <2>2, <2>3
  <2>5. entered = 0 /\ left = 0 /\ agg = NewAgg
    BY <2>1 DEF DecInit
  <2> QED BY <2>4, <2>5, WindowStarts
<1> QED BY <1>1, <1>2, <1>3 DEF ValuesInv

\* A row enters the window of a column, or leaves it.
LEMMA WindowSlides ==
  ASSUME WindowIs(column, left, entered, agg), Enter \/ Exit
  PROVE  WindowIs(column, left, entered, agg)'
<1>1. CASE Enter
  <2>1. PICK f : f = entered + 1
    OBVIOUS
  <2>2. /\ entered < Len(column) /\ entered' = f /\ column' = column /\ left' = left
        /\ agg' = Entering(agg, column[f])
    BY <1>1, <2>1 DEF Enter, Step, Entering
  <2>3. WindowIs(column, left, f, Entering(agg, column[f]))
    BY <2>1, <2>2, RowEnters
  <2> QED BY <2>2, <2>3
<1>2. CASE Exit
  <2>1. PICK m : m = left + 1
    OBVIOUS
  <2>2. /\ left < entered /\ left' = m /\ column' = column /\ entered' = entered
        /\ agg' = Leaving(agg, column[m])
    BY <1>2, <2>1 DEF Exit, WindowInverse, Leaving
  <2>3. WindowIs(column, m, entered, Leaving(agg, column[m]))
    BY <2>1, <2>2, RowLeaves
  <2> QED BY <2>2, <2>3
<1> QED BY <1>1, <1>2

\* A function is asked one of its questions.
LEMMA AskedRightly ==
  ASSUME AskValue
  PROVE  QuestionsAsked' /\ part' = part /\ part # "aggregates" /\ UNCHANGED decVars
<1> USE DEF Asked, QuestionsAsked
<1>1. CASE Asked("ranges", Ranges \X Ranges)
  BY <1>1
<1>2. CASE Asked("made", Bounds \X Bounds \X BOOLEAN \X BOOLEAN)
  BY <1>2
<1>3. CASE Asked("moments", Moments)
  BY <1>3
<1>4. CASE Asked("ages", Ages)
  BY <1>4
<1>5. CASE Asked("order", Cells \X Cells \X Cells)
  BY <1>5
<1>6. CASE Asked("rounding", Numbers)
  BY <1>6
<1>7. CASE Asked("types", Types)
  BY <1>7
<1> QED BY <1>1, <1>2, <1>3, <1>4, <1>5, <1>6, <1>7 DEF AskValue

\* Every step keeps the invariant.
LEMMA ValuesSteps == ValuesInv /\ [ValuesNext]_valueVars => ValuesInv'
<1> SUFFICES ASSUME ValuesInv, [ValuesNext]_valueVars PROVE ValuesInv'
  OBVIOUS
<1>1. CASE Slide
  <2>1. part = "aggregates" /\ (Enter \/ Exit) /\ part' = part /\ question' = question
    BY <1>1 DEF Slide
  <2>2. WindowIs(column, left, entered, agg)'
    BY <2>1, WindowSlides DEF ValuesInv
  <2>3. QuestionsAsked'
    BY <2>1 DEF ValuesInv, QuestionsAsked
  <2> QED BY <2>1, <2>2, <2>3 DEF ValuesInv
<1>2. CASE AskValue
  BY <1>2, AskedRightly DEF ValuesInv
<1>3. CASE UNCHANGED valueVars
  BY <1>3 DEF valueVars, decVars, ValuesInv, QuestionsAsked
<1> QED BY <1>1, <1>2, <1>3 DEF ValuesNext

\* And the invariant is what the answers need.
LEMMA ValuesInvAnswers == ValuesInv => AnswersRight
<1> SUFFICES ASSUME ValuesInv PROVE AnswersRight
  OBVIOUS
<1>1. part = "aggregates" => WindowRight
  BY WindowIsRight DEF ValuesInv
<1>2. ASSUME NEW q \in question
      PROVE  /\ part = "ranges" => R!RangesRight(q[1], q[2], Points)
             /\ part = "made" => R!MadeRight(q[1], q[2], q[3], q[4], Points)
             /\ part = "moments" => T!TruncRight(q) /\ T!PartRight(q) /\ T!JulianRight(q)
             /\ part = "ages" => T!AgeRight(q[1], q[2])
             /\ part = "order" => OrderRight(q[1], q[2], q[3])
             /\ part = "rounding" /\ Grid > Unit => RoundRight(q[1], q[2])
             /\ part = "types" => M!TypmodRight(q[1], q[2])
  <2>0. QuestionsAsked
    BY DEF ValuesInv
  <2>1. ASSUME part = "ranges" PROVE R!RangesRight(q[1], q[2], Points)
    <3>1. q[1] \in Ranges /\ q[2] \in Ranges
      BY <2>0, <2>1 DEF QuestionsAsked
    <3> QED BY <3>1, RangesAreRight
  <2>2. ASSUME part = "made" PROVE R!MadeRight(q[1], q[2], q[3], q[4], Points)
    <3>1. q[1] \in R!Bound /\ q[2] \in R!Bound /\ q[3] \in BOOLEAN /\ q[4] \in BOOLEAN
      BY <2>0, <2>2, ValuesAssumption DEF QuestionsAsked
    <3>2. Points \subseteq Int
      BY ValuesAssumption DEF R!Dense
    <3> QED BY <3>1, <3>2, MadeIsRight
  <2>3. ASSUME part = "moments" PROVE T!TruncRight(q) /\ T!PartRight(q) /\ T!JulianRight(q)
    <3>1. q \in T!Times
      BY <2>0, <2>3, ValuesAssumption DEF QuestionsAsked
    <3> QED BY <3>1, TruncIsRight, PartIsRight, JulianIsRight
  <2>4. ASSUME part = "ages" PROVE T!AgeRight(q[1], q[2])
    <3>1. q[1] \in T!Times /\ q[2] \in T!Times
      BY <2>0, <2>4, ValuesAssumption DEF QuestionsAsked
    <3> QED BY <3>1, AgeIsRight
  <2>5. ASSUME part = "order" PROVE OrderRight(q[1], q[2], q[3])
    <3>1. q[1] \in Cells /\ q[2] \in Cells /\ q[3] \in Cells
      BY <2>0, <2>5 DEF QuestionsAsked
    <3> QED BY <3>1, OrderIsRight
  <2>6. ASSUME part = "rounding", Grid > Unit PROVE RoundRight(q[1], q[2])
    <3>1. q[1] \in Int /\ q[2] \in Nat \ {0}
      BY <2>0, <2>6, ValuesAssumption DEF QuestionsAsked
    <3> QED BY <2>6, <3>1, RoundIsRight
  <2>7. ASSUME part = "types" PROVE M!TypmodRight(q[1], q[2])
    <3>1. q \in M!Declared
      BY <2>0, <2>7, ValuesAssumption DEF QuestionsAsked
    <3> QED BY <3>1, DeclaredAre, TypmodIsRight
  <2> QED BY <2>1, <2>2, <2>3, <2>4, <2>5, <2>6, <2>7
<1> QED BY <1>1, <1>2 DEF AnswersRight

\* Whatever is asked, and however far a window has slid, the answers are those that
\* AnswersRight says (ranges.go, datefuncs.go, decimal.go, typemod.go).
THEOREM AnswersAreRight == ValuesSpec => []AnswersRight
<1>1. ValuesSpec => []ValuesInv
  BY ValuesStart, ValuesSteps, PTL DEF ValuesSpec
<1> QED BY <1>1, ValuesInvAnswers, PTL
=============================================================================
