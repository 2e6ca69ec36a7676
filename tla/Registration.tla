---------------------------- MODULE Registration ----------------------------
(***************************************************************************)
(* Registration: a code sent by SMS and kept in Redis for a minute admits  *)
(* whoever quotes it: a user who registers, or a company that is taken on  *)
(* with its administrator.  The code is checked first and deleted last.    *)
(***************************************************************************)
EXTENDS Naturals, FiniteSets

CONSTANTS
  Phone,
  Code,       \* codes, sent once each: that one is drawn twice is left out
  UserName,
  Account,    \* user ids
  Applicant,  \* requests that may be in flight at once
  NoCode

ASSUME RegAssumption == NoCode \notin Code

VARIABLES
  code,     \* Redis: the code of a phone
  account,  \* the users' rows
  form,     \* the requests in flight
  sent,     \* history: the codes drawn so far
  uses,     \* history: the rows a code has made
  crossed,  \* history: two requests for one phone or one name overlapped
  lapsed    \* history: a request died halfway

regVars == <<code, account, form, sent, uses, crossed, lapsed>>

NoAccount == [by |-> "none"]
NoForm == [at |-> "none"]

\* Rows and requests keep their shape.
RegTypeOK ==
  /\ code \in [Phone -> Code \union {NoCode}]
  /\ \A a \in Account :
       account[a] = NoAccount
       \/ account[a] \in [by : {"register", "onboard"}, name : UserName, phone : Phone]
  /\ \A p \in Applicant :
       form[p] = NoForm
       \/ form[p] \in [at : {"verified", "checked", "saved"}, by : {"register", "onboard"},
                       name : UserName, phone : Phone, code : Code]
  /\ sent \subseteq Code /\ uses \in [Code -> Nat] /\ crossed \in BOOLEAN
  /\ lapsed \in BOOLEAN

RegInit ==
  /\ code = [n \in Phone |-> NoCode]
  /\ account = [a \in Account |-> NoAccount]
  /\ form = [p \in Applicant |-> NoForm]
  /\ sent = {} /\ uses = [c \in Code |-> 0] /\ crossed = FALSE
  /\ lapsed = FALSE

\* sendPhone: an earlier code of the phone is overwritten.
SendPhone(n, c) ==
  /\ c \notin sent
  /\ code' = [code EXCEPT ![n] = c] /\ sent' = sent \union {c}
  /\ UNCHANGED <<account, form, uses, crossed, lapsed>>

\* External: Redis removes the key after its sixty seconds.
CodeExpires(n) ==
  /\ code[n] # NoCode
  /\ code' = [code EXCEPT ![n] = NoCode]
  /\ UNCHANGED <<account, form, sent, uses, crossed, lapsed>>

\* verifyCode
VerifyCode(p, by, who, n, c) ==
  /\ form[p] = NoForm /\ code[n] = c
  /\ form' = [form EXCEPT ![p] = [at |-> "verified", by |-> by, name |-> who, phone |-> n,
                                  code |-> c]]
  /\ crossed' = (crossed \/ \E q \in Applicant :
                   form[q] # NoForm /\ (form[q].phone = n \/ form[q].name = who))
  /\ UNCHANGED <<code, account, sent, uses, lapsed>>

\* The name and the phone are looked up among the users of all tenants.
Unused(who, n) ==
  \A a \in Account : account[a] # NoAccount => account[a].name # who /\ account[a].phone # n

\* register: the two lookups; onboard looks the company up, not its administrator.
Check(p) ==
  /\ form[p].at = "verified"
  /\ form' = [form EXCEPT ![p] =
       IF form[p].by = "onboard" \/ Unused(form[p].name, form[p].phone)
       THEN [@ EXCEPT !.at = "checked"] ELSE NoForm]
  /\ UNCHANGED <<code, account, sent, uses, crossed, lapsed>>

NewAccount(f) == [by |-> f.by, name |-> f.name, phone |-> f.phone]

\* The password is hashed before, the company's other rows are made with it.
SaveAccount(p, a) ==
  /\ form[p].at = "checked" /\ account[a] = NoAccount
  /\ account' = [account EXCEPT ![a] = NewAccount(form[p])]
  /\ uses' = [uses EXCEPT ![form[p].code] = @ + 1]
  /\ form' = [form EXCEPT ![p].at = "saved"]
  /\ UNCHANGED <<code, sent, crossed, lapsed>>

\* Fault: the code is left to expire.
SpentLater(n) == code

Spent(n) == [code EXCEPT ![n] = NoCode]

\* deleteCode
DeleteCode(p) ==
  /\ form[p].at = "saved"
  /\ code' = Spent(form[p].phone)
  /\ form' = [form EXCEPT ![p] = NoForm]
  /\ UNCHANGED <<account, sent, uses, crossed, lapsed>>

ApplicantDies(p) ==
  /\ form[p] # NoForm
  /\ form' = [form EXCEPT ![p] = NoForm] /\ lapsed' = TRUE
  /\ UNCHANGED <<code, account, sent, uses, crossed>>

RegNext ==
  \/ \E n \in Phone, c \in Code : SendPhone(n, c)
  \/ \E n \in Phone : CodeExpires(n)
  \/ \E p \in Applicant :
       \/ \E by \in {"register", "onboard"}, who \in UserName, n \in Phone, c \in Code :
            VerifyCode(p, by, who, n, c)
       \/ Check(p) \/ (\E a \in Account : SaveAccount(p, a)) \/ DeleteCode(p)
       \/ ApplicantDies(p)

RegSpec == RegInit /\ [][RegNext]_regVars

-----------------------------------------------------------------------------
(* A code makes one account, however many requests are under way, unless two   *)
(* of them are for one phone or name or one died before it deleted its code.   *)
CodeOnce == ~(crossed \/ lapsed) => \A c \in Code : uses[c] <= 1

(* Who registered has a name and a phone of their own, unless two requests for *)
(* one of them overlapped: no index of the schema stands behind the lookups.   *)
PhoneOnce ==
  ~crossed => \A a, b \in Account :
    (a # b /\ account[a].by = "register" /\ account[b].by = "register") =>
      account[a].name # account[b].name /\ account[a].phone # account[b].phone
=============================================================================
