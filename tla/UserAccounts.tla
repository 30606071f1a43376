------------------------------ MODULE UserAccounts ------------------------------
(***************************************************************************)
(* The accounts of the students: UserService's registration, sign-in,      *)
(* verification, profile and administration, between their awaits; the     *)
(* documents of the users collection with its two unique indexes; the      *)
(* copies cached by user id; and the authentication of each request.       *)
(*                                                                         *)
(* Abstraction: passwords, names, colleges and mails decide nothing here;  *)
(* a request slot also stands for a form that an administrator has open.   *)
(* The copy under the e-mail is only tested for existence, before it is    *)
(* written, and left out.  Requests are those the front end makes: none    *)
(* changes an e-mail, and validation strips the registration number from   *)
(* a profile, which is sent without a role.  Invitations that wait for an  *)
(* account are in AssessmentCatalogue.                                     *)
(***************************************************************************)
EXTENDS Naturals

CONSTANTS
    Account,      \* user ids
    Request,      \* request slots
    Email, Number,
    Erased,       \* an anonymised e-mail or number, equal to no other
    NoUser,       \* an id not given yet
    Gone,         \* a document removed by deleteUser
    NoCopy,
    MaxRequests   \* bound: requests

ASSUME AccountsAssumption ==
    /\ MaxRequests \in Nat
    /\ Erased \notin Email \cup Number
    /\ NoUser # Gone

VARIABLES
    user,      \* the users collection
    copy,      \* what Redis holds under each user's id
    session,   \* users that hold an access token
    job,       \* what each request slot is doing
    made,      \* requests made
    restored   \* history: deleted accounts that a form was saved to

accountVars == <<user, copy, session, job, made, restored>>

User == [email: Email \cup {Erased}, number: Number \cup {Erased},
         verified: BOOLEAN, active: BOOLEAN, living: BOOLEAN]

ASSUME AccountsNothing == NoUser \notin User /\ Gone \notin User /\ NoCopy \notin User

Step == {"idle", "email", "number", "insert", "refused", "mail", "signin",
         "verify", "fetch", "fill", "profile", "form", "flip", "erase",
         "forget"}

\* who: the user a request is about; saw: the document it has read.
Job == [at: Step, who: Account \cup {NoUser}, saw: User \cup {NoUser},
        email: Email \cup {Erased}, number: Number \cup {Erased}]

Rest == [at |-> "idle", who |-> NoUser, saw |-> NoUser,
         email |-> Erased, number |-> Erased]

Stored(i) == user[i] \notin {NoUser, Gone}

\* applySoftDeleteFilter: what findById, findByEmail and the others can find.
Living(i) == Stored(i) /\ user[i].living

\* authenticateToken reads the account of the token at every request.
MayAct(i) == i \in session /\ Living(i) /\ user[i].active

AccountsInit ==
    /\ user = [i \in Account |-> NoUser]
    /\ copy = [i \in Account |-> NoCopy]
    /\ session = {}
    /\ job = [r \in Request |-> Rest]
    /\ made = 0
    /\ restored = {}

-----------------------------------------------------------------------------
(* Parts shared by the handlers *)

Begin(r, j) ==
    /\ job[r] = Rest /\ made < MaxRequests
    /\ made' = made + 1
    /\ job' = [job EXCEPT ![r] = j]

GoOn(r, j) == job' = [job EXCEPT ![r] = j] /\ UNCHANGED made

Finish(r) == GoOn(r, Rest)

\* The unique indexes cover deleted documents too.
Clashes(i, e, n) ==
    \E k \in Account \ {i} :
        /\ Stored(k)
        /\ \/ user[k].email = e /\ e # Erased
           \/ user[k].number = n /\ n # Erased

\* UserRepository.update: findByIdAndUpdate, whatever isDeleted says; nothing
\* happens when the document is gone, an error when an index refuses it.
Put(i, u) ==
    IF Stored(i) /\ ~Clashes(i, u.email, u.number)
    THEN user' = [user EXCEPT ![i] = u]
    ELSE UNCHANGED user

\* A slot goes on with i and the document read of it.
About(at, i) == [Rest EXCEPT !.at = at, !.who = i, !.saw = user[i]]

-----------------------------------------------------------------------------
(* createUser *)

Register(r, e, n) ==
    /\ Begin(r, [Rest EXCEPT !.at = "email", !.email = e, !.number = n])
    /\ UNCHANGED <<user, copy, session, restored>>

CheckEmail(r) ==
    /\ job[r].at = "email"
    /\ GoOn(r, [job[r] EXCEPT !.at =
           IF \E i \in Account : Living(i) /\ user[i].email = job[r].email
           THEN "refused" ELSE "number"])
    /\ UNCHANGED <<user, copy, session, restored>>

CheckNumber(r) ==
    /\ job[r].at = "number"
    /\ GoOn(r, [job[r] EXCEPT !.at =
           IF \E i \in Account : Living(i) /\ user[i].number = job[r].number
           THEN "refused" ELSE "insert"])
    /\ UNCHANGED <<user, copy, session, restored>>

\* Mutant: the collection has no unique indexes.
InsertUnchecked(r) ==
    /\ job[r].at = "insert"
    /\ \E i \in Account :
          /\ user[i] = NoUser
          /\ user' = [user EXCEPT ![i] = [email |-> job[r].email,
                        number |-> job[r].number, verified |-> FALSE,
                        active |-> TRUE, living |-> TRUE]]
          /\ GoOn(r, [job[r] EXCEPT !.at = "mail", !.who = i, !.saw = user'[i]])
    /\ UNCHANGED <<copy, session, restored>>

\* bound: Account, the documents ever created.
Insert(r) ==
    /\ job[r].at = "insert"
    /\ \E i \in Account :
          /\ user[i] = NoUser
          /\ IF Clashes(i, job[r].email, job[r].number)
             THEN GoOn(r, [job[r] EXCEPT !.at = "refused"]) /\ UNCHANGED user
             ELSE /\ user' = [user EXCEPT ![i] = [email |-> job[r].email,
                        number |-> job[r].number, verified |-> FALSE,
                        active |-> TRUE, living |-> TRUE]]
                  /\ GoOn(r, [job[r] EXCEPT !.at = "mail", !.who = i, !.saw = user'[i]])
    /\ UNCHANGED <<copy, session, restored>>

\* The student is told that the e-mail or the number exists.
Refused(r) ==
    /\ job[r].at = "refused"
    /\ Finish(r)
    /\ UNCHANGED <<user, copy, session, restored>>

\* The verification mail is queued and the user cached; when it cannot be
\* queued, the request fails and the account stays.
Registered(r) ==
    /\ job[r].at = "mail"
    /\ \/ copy' = [copy EXCEPT ![job[r].who] = job[r].saw]
       \/ UNCHANGED copy
    /\ Finish(r)
    /\ UNCHANGED <<user, session, restored>>

-----------------------------------------------------------------------------
(* The student *)

\* login, until the password is compared; resendVerificationEmail changes
\* nothing.
Login(r, i) ==
    /\ Living(i) /\ user[i].verified /\ user[i].active
    /\ Begin(r, About("signin", i))
    /\ UNCHANGED <<user, copy, session, restored>>

\* Tokens are made, and the document that was read is cached.
SignIn(r) ==
    /\ job[r].at = "signin"
    /\ session' = session \cup {job[r].who}
    /\ copy' = [copy EXCEPT ![job[r].who] = job[r].saw]
    /\ Finish(r)
    /\ UNCHANGED <<user, restored>>

\* verifyEmail, with the token that was mailed.
VerifyBegins(r, i) ==
    /\ Living(i) /\ ~user[i].verified
    /\ Begin(r, About("verify", i))
    /\ UNCHANGED <<user, copy, session, restored>>

\* Mutant: the document read is written back as a whole.
VerifyWhole(r) ==
    /\ job[r].at = "verify"
    /\ LET i == job[r].who
       IN  user' = IF Stored(i)
                   THEN [user EXCEPT ![i] = [job[r].saw EXCEPT !.verified = TRUE]]
                   ELSE user
    /\ Finish(r)
    /\ UNCHANGED <<copy, session, restored>>

Verify(r) ==
    /\ job[r].at = "verify"
    /\ LET i == job[r].who
       IN  user' = IF Stored(i) THEN [user EXCEPT ![i].verified = TRUE] ELSE user
    /\ Finish(r)
    /\ UNCHANGED <<copy, session, restored>>

\* getUserById: a hit ends it, unless a refresh is forced.
View(r, i) ==
    /\ MayAct(i)
    /\ Begin(r, [Rest EXCEPT !.at = "fetch", !.who = i])
    /\ UNCHANGED <<user, copy, session, restored>>

\* Mutant: a user that is not found is cached as well.
FetchAnything(r) ==
    /\ job[r].at = "fetch"
    /\ GoOn(r, About("fill", job[r].who))
    /\ UNCHANGED <<user, copy, session, restored>>

Fetch(r) ==
    /\ job[r].at = "fetch"
    /\ IF Living(job[r].who) THEN GoOn(r, About("fill", job[r].who)) ELSE Finish(r)
    /\ UNCHANGED <<user, copy, session, restored>>

\* What was read, or written by the profile, is cached.
Fill(r) ==
    /\ job[r].at = "fill"
    /\ copy' = [copy EXCEPT ![job[r].who] = job[r].saw]
    /\ Finish(r)
    /\ UNCHANGED <<user, session, restored>>

\* updateProfile: names and the mobile number are written, and the copies
\* are invalidated.
ProfileBegins(r, i) ==
    /\ MayAct(i)
    /\ Begin(r, [Rest EXCEPT !.at = "profile", !.who = i])
    /\ UNCHANGED <<user, copy, session, restored>>

Profile(r) ==
    /\ job[r].at = "profile"
    /\ IF Stored(job[r].who)
       THEN /\ copy' = [copy EXCEPT ![job[r].who] = NoCopy]
            /\ GoOn(r, About("fill", job[r].who))
       ELSE UNCHANGED copy /\ Finish(r)
    /\ UNCHANGED <<user, session, restored>>

-----------------------------------------------------------------------------
(* The administrator *)

\* The edit form is filled from the list of users, and saved much later.
OpenForm(r, i) ==
    /\ Living(i)
    /\ Begin(r, About("form", i))
    /\ UNCHANGED <<user, copy, session, restored>>

\* updateUser writes every field of the form, changed or not.
SaveForm(r, n, active, verified) ==
    /\ job[r].at = "form"
    /\ LET i == job[r].who
           u == IF Stored(i)
                THEN [user[i] EXCEPT !.number = n, !.active = active,
                                     !.verified = verified]
                ELSE job[r].saw
       IN  /\ Put(i, u)
           /\ restored' = IF Stored(i) /\ ~Living(i) THEN restored \cup {i} ELSE restored
    /\ Finish(r)
    /\ UNCHANGED <<copy, session>>

\* toggleUserStatus, of the routes activate and deactivate alike, reads the
\* account and then writes the other status.
ToggleBegins(r, i) ==
    /\ Living(i)
    /\ Begin(r, About("flip", i))
    /\ UNCHANGED <<user, copy, session, restored>>

Toggle(r) ==
    /\ job[r].at = "flip"
    /\ LET i == job[r].who
       IN  user' = IF Stored(i) THEN [user EXCEPT ![i].active = ~job[r].saw.active]
                                ELSE user
    /\ Finish(r)
    /\ UNCHANGED <<copy, session, restored>>

\* bulkDisableUsersWithFilters, bulkEnableUsersWithFilters: updateMany, with
\* no regard to isDeleted.
BulkSet(r, who, active) ==
    /\ job[r] = Rest /\ made < MaxRequests
    /\ made' = made + 1
    /\ user' = [i \in Account |-> IF i \in who /\ Stored(i)
                                  THEN [user[i] EXCEPT !.active = active] ELSE user[i]]
    /\ UNCHANGED <<copy, session, job, restored>>

\* deleteUser and bulkDeleteUsers leave the copies.
Delete(r, i) ==
    /\ job[r] = Rest /\ made < MaxRequests
    /\ Stored(i)
    /\ made' = made + 1
    /\ user' = [user EXCEPT ![i] = Gone]
    /\ UNCHANGED <<copy, session, job, restored>>

\* deleteUserAndData finds the account,
RemoveBegins(r, i) ==
    /\ Living(i)
    /\ Begin(r, About("erase", i))
    /\ UNCHANGED <<user, copy, session, restored>>

\* Mutant: the registration number stays with the deleted account.
EraseEmail(r) ==
    /\ job[r].at = "erase"
    /\ LET i == job[r].who
       IN  user' = IF Stored(i)
                   THEN [user EXCEPT ![i] = [email |-> Erased, number |-> @.number,
                           verified |-> FALSE, active |-> FALSE, living |-> FALSE]]
                   ELSE user
    /\ GoOn(r, [job[r] EXCEPT !.at = "forget"])
    /\ UNCHANGED <<copy, session, restored>>

\* anonymises it, whatever else is being done with it,
Erase(r) ==
    /\ job[r].at = "erase"
    /\ LET i == job[r].who
       IN  user' = IF Stored(i)
                   THEN [user EXCEPT ![i] = [email |-> Erased, number |-> Erased,
                           verified |-> FALSE, active |-> FALSE, living |-> FALSE]]
                   ELSE user
    /\ GoOn(r, [job[r] EXCEPT !.at = "forget"])
    /\ UNCHANGED <<copy, session, restored>>

\* and then drops the copies.
Forget(r) ==
    /\ job[r].at = "forget"
    /\ copy' = [copy EXCEPT ![job[r].who] = NoCopy]
    /\ Finish(r)
    /\ UNCHANGED <<user, session, restored>>

-----------------------------------------------------------------------------
AccountsNext ==
    \E r \in Request :
        \/ \E e \in Email, n \in Number : Register(r, e, n)
        \/ CheckEmail(r) \/ CheckNumber(r) \/ Insert(r)
        \/ Refused(r) \/ Registered(r)
        \/ \E i \in Account :
              \/ Login(r, i) \/ VerifyBegins(r, i)
              \/ View(r, i) \/ ProfileBegins(r, i)
              \/ OpenForm(r, i) \/ ToggleBegins(r, i)
              \/ Delete(r, i) \/ RemoveBegins(r, i)
        \/ SignIn(r) \/ Verify(r) \/ Fetch(r) \/ Fill(r) \/ Profile(r)
        \/ \E n \in Number, active, verified \in BOOLEAN :
              SaveForm(r, n, active, verified)
        \/ Toggle(r)
        \/ \E who \in SUBSET Account, active \in BOOLEAN : BulkSet(r, who, active)
        \/ Erase(r) \/ Forget(r)

AccountsSpec == AccountsInit /\ [][AccountsNext]_accountVars

-----------------------------------------------------------------------------
AccountsTypeOK ==
    /\ user \in [Account -> User \cup {NoUser, Gone}]
    /\ copy \in [Account -> User \cup {NoCopy}]
    /\ session \subseteq Account
    /\ job \in [Request -> Job]
    /\ made \in 0..MaxRequests
    /\ restored \subseteq Account

\* No two accounts have an e-mail or a registration number in common, however
\* registrations, forms and deletions overlap (createUser checks before it
\* inserts; models/User.ts declares both unique).
AccountsAreDistinct ==
    \A i \in Account : Stored(i) => ~Clashes(i, user[i].email, user[i].number)

\* "Registration number already exists": a registration is refused only while
\* a living account has its e-mail or number, or a deleted account to which an
\* administrator saved a form; a deletion frees both (deleteUserAndData).
RefusalsAreJustified ==
    [][\A r \in Request : job[r].at # "refused" /\ job'[r].at = "refused" =>
         \E i \in Account : /\ Stored(i) /\ (user[i].living \/ i \in restored)
                            /\ \/ user[i].email = job[r].email
                               \/ user[i].number = job[r].number]_accountVars

\* A deleted account never comes back to life: a verification, a status change
\* or a form that read it before it was anonymised changes neither that it is
\* deleted nor that its e-mail is gone, and a removed document is not made
\* again (UserRepository.update, deleteUserAndData).
DeletedStayDeleted ==
    [][\A i \in Account :
          /\ user[i] = Gone => user'[i] = Gone
          /\ Stored(i) /\ ~Living(i) =>
                \/ user'[i] = Gone
                \/ ~user'[i].living /\ user'[i].email = Erased]_accountVars
=================================================================================
