--------------------------- MODULE Authentication ---------------------------
(***************************************************************************)
(* Who may open a session (hba/, postgres.go, scram.go): the rules of      *)
(* pg_hba, the role's LOGIN and password, and the exchange with the        *)
(* client, while another session may change the role.                      *)
(*                                                                         *)
(* Hashes are symbols: what is computed from a password, a salt and a      *)
(* message is the tuple of them, so two of them are equal if what they     *)
(* were computed from is.                                                  *)
(***************************************************************************)
EXTENDS Naturals, Sequences, FiniteSets, FiniteSetsExt, SequencesExt

CONSTANTS User,      \* names of roles, in the spellings clients use
          Fold,      \* the name a spelling stands for
          Database,  \* names of databases
          Address,   \* addresses of clients
          Loopback,  \* those of this host
          Password,
          Nonce,     \* random salts and nonces
          Files,     \* what the pg_hba files may hold
          Settings,  \* POSTGRES_PASSWORD (or none), POSTGRES_HOST_AUTH_METHOD
          Changes,   \* bound: the ALTER ROLEs and DROP ROLEs another session runs
          none       \* nothing

ASSUME AuthenticationAssumption ==
  /\ Fold \in [User -> User]
  /\ Loopback \subseteq Address
  /\ none \notin User \cup Database \cup Address \cup Password \cup Nonce
  /\ Nonce # {}

\* A pattern of a rule: what kind it is, and of what.
Pattern(is, of) == [is |-> is, of |-> of]
All == Pattern("all", none)
Pseudo == Pattern("replication", none)  \* and sameuser, samerole, samegroup

-----------------------------------------------------------------------------
(* Loading the rules.  A line is its tokens and how many of them come      *)
(* before a "#".  A column for databases or users is a set of patterns, an *)
(* address "all", "samehost", a set of addresses (a CIDR), or a host name. *)

Rule(type, database, user, address, method) ==
  [type |-> type, database |-> database, user |-> user, address |-> address, method |-> method]
NoAddress == Pattern("", {})
NoRule == Rule("error", {}, {}, NoAddress, "")

confRule(toks) ==
  IF toks[1] = "local"
  THEN IF Len(toks) < 4 THEN NoRule ELSE Rule("local", toks[2], toks[3], NoAddress, toks[4])
  ELSE IF Len(toks) < 5 THEN NoRule ELSE Rule(toks[1], toks[2], toks[3], toks[4], toks[5])

ConfParse(lines) ==
  LET kept(l) == SubSeq(l.toks, 1, l.before)
      used == SelectSeq(lines, LAMBDA l : kept(l) # <<>>)
  IN [i \in 1..Len(used) |-> confRule(kept(used[i]))]

orDefault(patterns) == IF patterns = {} THEN {All} ELSE patterns

YAMLParse(entries) ==
  [i \in 1..Len(entries) |->
     [entries[i] EXCEPT !.database = orDefault(@), !.user = orDefault(@)]]

\* hba.Load: pg_hba.conf wins.  One bad line and there are no rules at all.
Load(f) ==
  LET parsed == IF f.conf # none THEN ConfParse(f.conf)
                ELSE IF f.yaml # none THEN YAMLParse(f.yaml)
                ELSE none
  IN IF parsed # none /\ NoRule \in Range(parsed) THEN none ELSE parsed

\* The rules are a list.
ASSUME LoadAssumption == \A f \in Files : Load(f) = none \/ Len(Load(f)) \in Nat

-----------------------------------------------------------------------------
(* Matching a connection.                                                  *)

matchType(r, c) ==
  CASE r.type = "local" -> c.ip = none
    [] r.type = "host" -> c.ip # none
    [] r.type = "hostssl" -> c.ip # none /\ c.ssl
    [] r.type = "hostnossl" -> c.ip # none /\ ~c.ssl
    [] OTHER -> FALSE

matchDatabase(patterns, d) == patterns \cap {All, Pattern("name", d)} # {}

matchUser(patterns, u) ==
  \/ patterns \cap {All, Pattern("name", u)} # {}
  \/ \E v \in User : Pattern("+", v) \in patterns /\ Fold[v] = Fold[u]

matchAddr(r, c) ==
  \/ c.ip = none
  \/ r.address.is = "all"
  \/ r.address.is = "samehost" /\ c.ip \in Loopback
  \/ r.address.is = "cidr" /\ c.ip \in r.address.of

matches(r, c) ==
  matchType(r, c) /\ matchDatabase(r.database, c.database) /\ matchUser(r.user, c.user) /\ matchAddr(r, c)

Hits(rules, c) == {i \in 1..Len(rules) : matches(rules[i], c)}

\* Mutant: the last one.
MethodLast(rules, c) ==
  IF Hits(rules, c) = {} THEN "reject" ELSE rules[Max(Hits(rules, c))].method

\* Policy.Method: the first rule that matches.
Method(rules, c) ==
  IF Hits(rules, c) = {} THEN "reject" ELSE rules[Min(Hits(rules, c))].method

normalizeHBAMethod(m) ==
  CASE m \in {"trust", "reject", "md5", "password"} -> m
    [] m \in {"peer", "cert"} -> "trust"
    [] OTHER -> "scram"

authMethod(set) ==
  IF set.password = none THEN "trust"
  ELSE IF set.method \in {"trust", "password", "md5"} THEN set.method ELSE "scram"

-----------------------------------------------------------------------------
VARIABLES
  rules,     \* Protocol.hba, or none
  setting,   \* Protocol.password and configuredAuth
  roles,     \* _overlite_roles: may the role log in, and its verifier
  altered,   \* how often a role has been changed
  conn,      \* the connection that is authenticated
  at,        \* how far it is
  method, cred, nonce,  \* locals of authenticate and what it calls
  answer,    \* what the client sent last
  read       \* what the role was at each of the two reads

authVars == <<rules, setting, roles, altered, conn, at, method, cred, nonce, answer, read>>

\* The keys of a password, and a credential: keys or a password.
deriveVerifier(pw, salt) == [pw |-> pw, salt |-> salt]
NoRole == [exists |-> FALSE, login |-> TRUE, verifier |-> deriveVerifier(none, none)]
NoCred == [plaintext |-> none, scram |-> deriveVerifier(none, none)]

Decided == {"in", "out"}

AuthInit ==
  /\ \E f \in Files : rules = Load(f)
  /\ setting \in Settings
  /\ roles \in [Range(Fold) ->
                  {NoRole} \cup {[exists |-> TRUE, login |-> l, verifier |-> deriveVerifier(p, n)] :
                                   l \in BOOLEAN, p \in Password \cup {none}, n \in {CHOOSE n \in Nonce : TRUE}}]
  /\ altered = 0
  /\ conn \in [user : User, database : Database, ip : Address \cup {none}, ssl : BOOLEAN]
  /\ conn.ip = none => ~conn.ssl
  /\ at = "login"
  /\ method = none /\ cred = NoCred /\ nonce = none /\ answer = none
  /\ read = [login |-> TRUE, pw |-> none]

role == roles[Fold[conn.user]]

roleMayLogin ==
  /\ at = "login"
  /\ read' = [read EXCEPT !.login = role.login]
  /\ at' = IF role.login THEN "method" ELSE "out"
  /\ UNCHANGED <<rules, setting, roles, altered, conn, method, cred, nonce, answer>>

resolveMethod ==
  /\ at = "method"
  /\ method' = IF rules = none THEN authMethod(setting) ELSE normalizeHBAMethod(Method(rules, conn))
  /\ at' = CASE method' = "reject" -> "out" [] method' = "trust" -> "in" [] OTHER -> "credential"
  /\ UNCHANGED <<rules, setting, roles, altered, conn, cred, nonce, answer, read>>

\* The role's keys if it has any, else POSTGRES_PASSWORD.  With that, the keys
\* for SCRAM are made anew.
credentialFor ==
  LET pw == role.verifier.pw
  IN /\ at = "credential"
     /\ read' = [read EXCEPT !.pw = pw]
     /\ \E n \in Nonce :
          cred' = [plaintext |-> IF pw = none THEN setting.password ELSE none,
                   scram |-> IF pw # none THEN role.verifier
                             ELSE IF method = "scram" THEN deriveVerifier(setting.password, n)
                             ELSE NoCred.scram]
     /\ at' = IF pw = none /\ setting.password = none THEN "out" ELSE method
     /\ UNCHANGED <<rules, setting, roles, altered, conn, method, nonce, answer>>

\* What the server sends: a salt, or the nonce of a SCRAM exchange.
Challenge ==
  /\ at \in {"password", "md5", "scram"} /\ nonce = none
  /\ \E n \in Nonce : nonce' = n
  /\ UNCHANGED <<rules, setting, roles, altered, conn, at, method, cred, answer, read>>

\* A client answers: with the password or what it computes from it, for this
\* exchange or for another one, or with a message of another type.
Answer(type, pw, n) ==
  [type |-> type, pw |-> pw, user |-> conn.user, salt |-> cred.scram.salt, nonce |-> n]

ClientAnswers ==
  /\ nonce # none /\ answer = none
  /\ at \notin Decided
  /\ \E type \in {"password", "query"}, pw \in Password, n \in Nonce : answer' = Answer(type, pw, n)
  /\ UNCHANGED <<rules, setting, roles, altered, conn, at, method, cred, nonce, read>>

Verdict(ok) ==
  /\ answer # none
  /\ at' = IF answer.type = "password" /\ ok THEN "in" ELSE "out"
  /\ UNCHANGED <<rules, setting, roles, altered, conn, method, cred, nonce, answer, read>>

\* credential.matches: the password itself.
authCleartext ==
  /\ at = "password"
  /\ Verdict(IF cred.scram.pw # none
             THEN deriveVerifier(answer.pw, cred.scram.salt) = cred.scram
             ELSE answer.pw = cred.plaintext)

\* A hash of the password, the name and the salt; it takes a plain password.
authMD5 ==
  /\ at = "md5"
  /\ Verdict(/\ cred.plaintext # none
             /\ <<answer.pw, answer.user, answer.nonce>> = <<cred.plaintext, conn.user, nonce>>)

\* A proof, of the keys, for this exchange.
authSCRAM ==
  /\ at = "scram"
  /\ Verdict(answer.nonce = nonce /\ deriveVerifier(answer.pw, answer.salt) = cred.scram)

\* Another session runs ALTER ROLE or DROP ROLE.
ChangeRole ==
  /\ at \notin Decided
  /\ altered < Changes
  /\ altered' = altered + 1
  /\ \E l \in BOOLEAN, p \in Password \cup {none}, n \in Nonce :
       LET r == [exists |-> TRUE, login |-> l, verifier |-> deriveVerifier(p, n)]
       IN roles' \in {[roles EXCEPT ![Fold[conn.user]] = r], [roles EXCEPT ![Fold[conn.user]] = NoRole]}
  /\ UNCHANGED <<rules, setting, conn, at, method, cred, nonce, answer, read>>

AuthNext ==
  \/ roleMayLogin \/ resolveMethod \/ credentialFor \/ Challenge \/ ClientAnswers
  \/ authCleartext \/ authMD5 \/ authSCRAM \/ ChangeRole

AuthSpec == AuthInit /\ [][AuthNext]_authVars

-----------------------------------------------------------------------------
(* Who should get in.                                                      *)

\* What the rules say of this connection, rule by rule: some rule says it, and
\* each rule before it is for others.
Says(m) ==
  \E i \in 1..Len(rules) :
    /\ normalizeHBAMethod(rules[i].method) = m
    /\ matches(rules[i], conn)
    /\ \A j \in 1..i - 1 : ~matches(rules[j], conn)

Wanted(m) == IF rules = none THEN authMethod(setting) = m ELSE Says(m)

\* The password that counts: the role's own when it was looked up, if it had one,
\* or the server's.
Due == IF read.pw # none THEN read.pw ELSE setting.password

Proven ==
  /\ answer # none /\ answer.type = "password"
  /\ answer.pw = Due
  /\ Wanted("md5") => read.pw = none
  /\ Wanted("md5") \/ Wanted("scram") => answer.nonce = nonce

\* A connection gets in if, and only if, its role might log in and the first rule
\* for it trusts it, or asks for a password and was answered with the one that
\* counts, in this exchange; whatever happens to the role meanwhile
\* (postgres.go:174-207, hba.go:42-56, scram.go:100-170).
AdmittedAsRuled ==
  at \in Decided => (at = "in" <=> read.login /\ (Wanted("trust") \/ Proven))
=============================================================================
