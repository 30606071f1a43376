--------------------------- MODULE UserAccountsProofs ---------------------------
(* Theorems about UserAccounts, for every value of its constants. *)
EXTENDS UserAccounts, TLAPS

-----------------------------------------------------------------------------
(* The inductive invariant *)

\* Where a request is about no account yet, and where it holds no document.
Nameless == {"idle", "email", "number", "insert", "refused"}

Reading == {"fetch", "profile", "forget"}

JobOK(j) ==
    /\ j \in Job
    /\ j.at \notin Nameless => j.who \in Account
    /\ j.at \notin Nameless \cup Reading => j.saw \in User
    /\ j.at \in {"email", "number", "insert"} => j.email \in Email /\ j.number \in Number

TypeInv ==
    /\ user \in [Account -> User \cup {NoUser, Gone}]
    /\ copy \in [Account -> User \cup {NoCopy}]
    /\ session \subseteq Account
    /\ made \in 0..MaxRequests
    /\ restored \subseteq Account
    /\ job \in [Request -> Job]
    /\ \A r \in Request : JobOK(job[r])

\* A deleted account has given up its e-mail and its number, until a form is
\* saved to it.
DeletedAreErased ==
    \A i \in Account :
        Stored(i) => \/ user[i].living
                     \/ i \in restored
                     \/ user[i].email = Erased /\ user[i].number = Erased

AccountsInv == TypeInv /\ AccountsAreDistinct /\ DeletedAreErased

LEMMA StoredUser ==
    ASSUME TypeInv, NEW i \in Account
    PROVE  Stored(i) <=> user[i] \in User
BY AccountsNothing DEF TypeInv, Stored

LEMMA RestOK == JobOK(Rest)
BY DEF JobOK, Job, Rest, Step, Nameless

LEMMA AboutOK ==
    ASSUME TypeInv, NEW i \in Account, Stored(i), NEW at \in Step \ Nameless
    PROVE  JobOK(About(at, i))
<1>1. user[i] \in User
    BY StoredUser
<1>2. /\ About(at, i) \in Job /\ About(at, i).at = at
      /\ About(at, i).who = i /\ About(at, i).saw = user[i]
    BY <1>1 DEF About, Rest, Job
<1>. QED
    BY <1>1, <1>2 DEF JobOK, Nameless

\* A slot that changes leaves the others as they were.
LEMMA JobsKept ==
    ASSUME TypeInv, NEW r \in Request, NEW j, JobOK(j), job' = [job EXCEPT ![r] = j]
    PROVE  /\ job' \in [Request -> Job]
           /\ \A q \in Request : JobOK(job'[q])
           /\ job'[r] = j
           /\ \A q \in Request \ {r} : job'[q] = job[q]
BY DEF TypeInv, JobOK

LEMMA BeginOK ==
    ASSUME TypeInv, NEW r \in Request, NEW j, Begin(r, j)
    PROVE  job' = [job EXCEPT ![r] = j] /\ made' \in 0..MaxRequests
BY AccountsAssumption DEF Begin, TypeInv

\* Steps that write no account.
LEMMA NoAccountWritten ==
    ASSUME AccountsInv, UNCHANGED <<user, restored>>
    PROVE  AccountsAreDistinct' /\ DeletedAreErased'
BY DEF AccountsInv, AccountsAreDistinct, DeletedAreErased, Stored, Clashes

-----------------------------------------------------------------------------
(* Writes of the accounts *)

\* An account written with an e-mail and a number that clash with no other.
LEMMA OneWritten ==
    ASSUME AccountsInv, NEW i \in Account, NEW u \in User,
           ~Clashes(i, u.email, u.number),
           user' = [user EXCEPT ![i] = u]
    PROVE  user' \in [Account -> User \cup {NoUser, Gone}] /\ AccountsAreDistinct'
<1>1. user' \in [Account -> User \cup {NoUser, Gone}]
    BY DEF AccountsInv, TypeInv
<1>2. user'[i] = u /\ \A k \in Account \ {i} : user'[k] = user[k]
    BY DEF AccountsInv, TypeInv
<1>3. SUFFICES ASSUME NEW k \in Account, Stored(k)',
                      NEW l \in Account \ {k}, Stored(l)',
                      \/ user'[l].email = user'[k].email /\ user'[k].email # Erased
                      \/ user'[l].number = user'[k].number /\ user'[k].number # Erased
               PROVE  FALSE
    BY <1>1 DEF AccountsAreDistinct, Clashes
<1>4. CASE k = i
    BY <1>2, <1>3, <1>4 DEF Clashes, Stored
<1>5. CASE l = i
    BY <1>2, <1>3, <1>5 DEF Clashes, Stored
<1>6. CASE k # i /\ l # i
    BY <1>2, <1>3, <1>6 DEF AccountsInv, AccountsAreDistinct, Clashes, Stored
<1>. QED
    BY <1>4, <1>5, <1>6

\* Writes that leave names alone, or take them away.
LEMMA NamesKept ==
    ASSUME AccountsInv, restored \subseteq restored',
           user' \in [Account -> User \cup {NoUser, Gone}],
           \A i \in Account : user'[i] \in User =>
               /\ user[i] \in User
               /\ user'[i].email \in {user[i].email, Erased}
               /\ user'[i].number \in {user[i].number, Erased}
               /\ \/ user'[i].living = user[i].living
                  \/ user'[i].email = Erased /\ user'[i].number = Erased
    PROVE  AccountsAreDistinct' /\ DeletedAreErased'
<1>1. \A i \in Account : Stored(i)' => user'[i] \in User /\ Stored(i)
    BY AccountsNothing DEF Stored
<1>2. AccountsAreDistinct'
    BY <1>1 DEF AccountsInv, AccountsAreDistinct, Clashes
<1>3. DeletedAreErased'
    BY <1>1 DEF AccountsInv, DeletedAreErased
<1>. QED
    BY <1>2, <1>3

-----------------------------------------------------------------------------
(* Every step keeps the invariant *)

LEMMA RegistrationStep ==
    ASSUME AccountsInv, NEW r \in Request,
           \/ \E e \in Email, n \in Number : Register(r, e, n)
           \/ CheckEmail(r) \/ CheckNumber(r) \/ Insert(r)
           \/ Refused(r) \/ Registered(r)
    PROVE  AccountsInv'
<1>. USE DEF Step, Nameless
<1>1. JobOK(job[r]) /\ TypeInv
    BY DEF AccountsInv, TypeInv
<1>2. ASSUME NEW e \in Email, NEW n \in Number, Register(r, e, n)
      PROVE  AccountsInv'
    <2>. DEFINE j == [Rest EXCEPT !.at = "email", !.email = e, !.number = n]
    <2>1. JobOK(j)
        BY DEF JobOK, Job, Rest
    <2>2. job' = [job EXCEPT ![r] = j] /\ made' \in 0..MaxRequests
        BY <1>1, <1>2, BeginOK DEF Register
    <2>. HIDE DEF j
    <2>3. TypeInv'
        BY <1>1, <1>2, <2>1, <2>2, JobsKept DEF TypeInv, Register
    <2>. QED
        BY <1>2, <2>3, NoAccountWritten DEF AccountsInv, Register
<1>3. CASE CheckEmail(r) \/ CheckNumber(r)
    <2>1. PICK at \in {"refused", "number", "insert"} :
              GoOn(r, [job[r] EXCEPT !.at = at])
        BY <1>3 DEF CheckEmail, CheckNumber
    <2>. DEFINE j == [job[r] EXCEPT !.at = at]
    <2>2. job[r].at \in {"email", "number"} /\ UNCHANGED <<user, copy, session, restored>>
        BY <1>3 DEF CheckEmail, CheckNumber
    <2>3. JobOK(j)
        BY <1>1, <2>2 DEF JobOK, Job
    <2>4. TypeInv'
        BY <1>1, <2>1, <2>2, <2>3, JobsKept DEF TypeInv, GoOn
    <2>. QED
        BY <2>2, <2>4, NoAccountWritten DEF AccountsInv
<1>4. CASE Insert(r)
    <2>1. PICK i \in Account :
              /\ user[i] = NoUser
              /\ IF Clashes(i, job[r].email, job[r].number)
                 THEN GoOn(r, [job[r] EXCEPT !.at = "refused"]) /\ UNCHANGED user
                 ELSE /\ user' = [user EXCEPT ![i] = [email |-> job[r].email,
                            number |-> job[r].number, verified |-> FALSE,
                            active |-> TRUE, living |-> TRUE]]
                      /\ GoOn(r, [job[r] EXCEPT !.at = "mail", !.who = i, !.saw = user'[i]])
        BY <1>4 DEF Insert
    <2>2. /\ job[r].at = "insert" /\ UNCHANGED <<copy, session, restored>>
          /\ job[r].email \in Email /\ job[r].number \in Number /\ job[r] \in Job
        BY <1>1, <1>4 DEF Insert, JobOK
    <2>3. CASE Clashes(i, job[r].email, job[r].number)
        <3>. DEFINE j == [job[r] EXCEPT !.at = "refused"]
        <3>1. JobOK(j)
            BY <2>2 DEF JobOK, Job
        <3>2. TypeInv'
            BY <1>1, <2>1, <2>2, <2>3, <3>1, JobsKept DEF TypeInv, GoOn
        <3>. QED
            BY <2>1, <2>2, <2>3, <3>2, NoAccountWritten DEF AccountsInv
    <2>4. CASE ~Clashes(i, job[r].email, job[r].number)
        <3>. DEFINE u == [email |-> job[r].email, number |-> job[r].number,
                          verified |-> FALSE, active |-> TRUE, living |-> TRUE]
                    j == [job[r] EXCEPT !.at = "mail", !.who = i, !.saw = u]
        <3>1. u \in User /\ u.email = job[r].email /\ u.number = job[r].number /\ u.living
            BY <2>2 DEF User
        <3>2. user' = [user EXCEPT ![i] = u] /\ user'[i] = u
            BY <1>1, <2>1, <2>4 DEF TypeInv
        <3>3. GoOn(r, j)
            BY <2>1, <2>4, <3>2
        <3>. HIDE DEF u
        <3>4. JobOK(j)
            BY <2>2, <3>1 DEF JobOK, Job
        <3>. HIDE DEF j
        <3>5. user' \in [Account -> User \cup {NoUser, Gone}] /\ AccountsAreDistinct'
            BY <2>4, <3>1, <3>2, OneWritten
        <3>6. DeletedAreErased'
            BY <1>1, <2>2, <3>1, <3>2 DEF AccountsInv, DeletedAreErased, TypeInv, Stored
        <3>7. TypeInv'
            BY <1>1, <2>2, <3>3, <3>4, <3>5, JobsKept DEF TypeInv, GoOn
        <3>. QED
            BY <3>5, <3>6, <3>7 DEF AccountsInv
    <2>. QED
        BY <2>3, <2>4
<1>5. CASE Refused(r)
    <2>1. TypeInv'
        BY <1>1, <1>5, RestOK, JobsKept DEF Refused, Finish, GoOn, TypeInv
    <2>. QED
        BY <1>5, <2>1, NoAccountWritten DEF AccountsInv, Refused
<1>6. CASE Registered(r)
    <2>1. copy' \in [Account -> User \cup {NoCopy}]
        BY <1>1, <1>6 DEF Registered, JobOK, TypeInv, Reading
    <2>2. TypeInv'
        BY <1>1, <1>6, <2>1, RestOK, JobsKept DEF Registered, Finish, GoOn, TypeInv
    <2>. QED
        BY <1>6, <2>2, NoAccountWritten DEF AccountsInv, Registered
<1>. QED
    BY <1>2, <1>3, <1>4, <1>5, <1>6

\* Handlers that begin by reading an account, or the token of one.
LEMMA BeginsStep ==
    ASSUME AccountsInv, NEW r \in Request, NEW i \in Account,
           \/ Login(r, i) \/ VerifyBegins(r, i) \/ View(r, i) \/ ProfileBegins(r, i)
           \/ OpenForm(r, i) \/ ToggleBegins(r, i) \/ RemoveBegins(r, i)
    PROVE  AccountsInv'
<1>1. TypeInv
    BY DEF AccountsInv
<1>2. \A at \in {"fetch", "profile"} : JobOK([Rest EXCEPT !.at = at, !.who = i])
    BY DEF JobOK, Job, Rest, Step, Nameless, Reading
<1>3. PICK j : JobOK(j) /\ Begin(r, j)
    <2>1. CASE View(r, i) \/ ProfileBegins(r, i)
        BY <1>2, <2>1 DEF View, ProfileBegins
    <2>2. CASE ~(View(r, i) \/ ProfileBegins(r, i))
        <3>1. Stored(i)
            BY <2>2 DEF Login, VerifyBegins, OpenForm, ToggleBegins, RemoveBegins, Living
        <3>2. \A at \in Step \ Nameless : JobOK(About(at, i))
            BY <1>1, <3>1, AboutOK
        <3>. QED
            BY <2>2, <3>2 DEF Login, VerifyBegins, OpenForm, ToggleBegins,
                              RemoveBegins, Step, Nameless
    <2>. QED
        BY <2>1, <2>2
<1>4. UNCHANGED <<user, copy, session, restored>>
    BY DEF Login, VerifyBegins, View, ProfileBegins, OpenForm, ToggleBegins, RemoveBegins
<1>5. job' = [job EXCEPT ![r] = j] /\ made' \in 0..MaxRequests
    BY <1>1, <1>3, BeginOK
<1>6. TypeInv'
    BY <1>1, <1>3, <1>4, <1>5, JobsKept DEF TypeInv
<1>. QED
    BY <1>4, <1>6, NoAccountWritten DEF AccountsInv

\* Handlers that go on without writing an account.
LEMMA CachingStep ==
    ASSUME AccountsInv, NEW r \in Request,
           SignIn(r) \/ Fetch(r) \/ Fill(r) \/ Profile(r) \/ Forget(r)
    PROVE  AccountsInv'
<1>. USE DEF Nameless, Reading
<1>1. TypeInv /\ JobOK(job[r])
    BY DEF AccountsInv, TypeInv
<1>2. job[r].who \in Account
    BY <1>1 DEF JobOK, SignIn, Fetch, Fill, Profile, Forget
<1>3. UNCHANGED <<user, restored>>
    BY DEF SignIn, Fetch, Fill, Profile, Forget
<1>4. copy' \in [Account -> User \cup {NoCopy}] /\ session' \subseteq Account
    BY <1>1, <1>2 DEF SignIn, Fetch, Fill, Profile, Forget, JobOK, TypeInv
<1>5. Living(job[r].who) \/ Stored(job[r].who) => JobOK(About("fill", job[r].who))
    BY <1>1, <1>2, AboutOK DEF Living, Step
<1>6. PICK j : JobOK(j) /\ GoOn(r, j)
    BY <1>5, RestOK DEF SignIn, Fetch, Fill, Profile, Forget, Finish
<1>7. TypeInv'
    BY <1>1, <1>3, <1>4, <1>6, JobsKept DEF TypeInv, GoOn
<1>. QED
    BY <1>3, <1>7, NoAccountWritten DEF AccountsInv

\* Handlers that write an account.
LEMMA WritingStep ==
    ASSUME AccountsInv, NEW r \in Request,
           \/ Verify(r) \/ Toggle(r) \/ Erase(r)
           \/ \E i \in Account : Delete(r, i)
           \/ \E who \in SUBSET Account, active \in BOOLEAN : BulkSet(r, who, active)
    PROVE  AccountsInv'
<1>. USE DEF Nameless, Reading
<1>1. TypeInv /\ JobOK(job[r])
    BY DEF AccountsInv, TypeInv
<1>2. \A i \in Account : Stored(i) <=> user[i] \in User
    BY <1>1, StoredUser
<1>3. CASE Verify(r) \/ Toggle(r) \/ Erase(r)
    <2>. DEFINE i == job[r].who
    <2>1. i \in Account /\ job[r].saw \in User /\ UNCHANGED <<copy, session, restored>>
        BY <1>1, <1>3 DEF JobOK, Verify, Toggle, Erase
    <2>2. PICK j : JobOK(j) /\ GoOn(r, j)
        <3>1. job[r].at = "erase" => JobOK([job[r] EXCEPT !.at = "forget"])
            BY <1>1 DEF JobOK, Job, Step
        <3>. QED
            BY <1>3, <3>1, RestOK DEF Verify, Toggle, Erase, Finish
    <2>3. \/ user' = user
          \/ /\ user[i] \in User
             /\ \E u \in User :
                  /\ user' = [user EXCEPT ![i] = u]
                  /\ \/ /\ u.email = user[i].email /\ u.number = user[i].number
                        /\ u.living = user[i].living
                     \/ u.email = Erased /\ u.number = Erased
        <3>1. CASE Verify(r)
            <4>1. user[i] \in User => [user[i] EXCEPT !.verified = TRUE] \in User
                BY DEF User
            <4>. QED
                BY <1>2, <2>1, <3>1, <4>1 DEF Verify, User
        <3>2. CASE Toggle(r)
            <4>1. user[i] \in User => [user[i] EXCEPT !.active = ~job[r].saw.active] \in User
                BY <2>1 DEF User
            <4>. QED
                BY <1>2, <2>1, <3>2, <4>1 DEF Toggle, User
        <3>3. CASE Erase(r)
            <4>1. [email |-> Erased, number |-> Erased, verified |-> FALSE,
                   active |-> FALSE, living |-> FALSE] \in User
                BY DEF User
            <4>. QED
                BY <1>2, <2>1, <3>3, <4>1 DEF Erase
        <3>. QED
            BY <1>3, <3>1, <3>2, <3>3
    <2>4. user' \in [Account -> User \cup {NoUser, Gone}]
        BY <1>1, <2>3 DEF TypeInv
    <2>5. AccountsAreDistinct' /\ DeletedAreErased'
        BY <1>1, <2>1, <2>3, <2>4, NamesKept DEF TypeInv
    <2>6. TypeInv'
        BY <1>1, <2>1, <2>2, <2>4, JobsKept DEF TypeInv, GoOn
    <2>. QED
        BY <2>5, <2>6 DEF AccountsInv
<1>4. ASSUME NEW i \in Account, Delete(r, i) PROVE AccountsInv'
    <2>1. user' = [user EXCEPT ![i] = Gone] /\ UNCHANGED <<copy, session, job, restored>>
        BY <1>4 DEF Delete
    <2>2. user' \in [Account -> User \cup {NoUser, Gone}] /\ user'[i] \notin User
          /\ \A k \in Account \ {i} : user'[k] = user[k]
        BY <1>1, <2>1, AccountsNothing DEF TypeInv
    <2>3. AccountsAreDistinct' /\ DeletedAreErased'
        BY <2>1, <2>2, NamesKept
    <2>4. made' \in 0..MaxRequests
        BY <1>1, <1>4, AccountsAssumption DEF Delete, TypeInv
    <2>5. TypeInv'
        BY <1>1, <2>1, <2>2, <2>4 DEF TypeInv
    <2>. QED
        BY <2>3, <2>5 DEF AccountsInv
<1>5. ASSUME NEW who \in SUBSET Account, NEW active \in BOOLEAN, BulkSet(r, who, active)
      PROVE  AccountsInv'
    <2>1. /\ user' = [i \in Account |-> IF i \in who /\ Stored(i)
                                        THEN [user[i] EXCEPT !.active = active] ELSE user[i]]
          /\ UNCHANGED <<copy, session, job, restored>>
        BY <1>5 DEF BulkSet
    <2>2. \A i \in Account : user[i] \in User =>
              /\ [user[i] EXCEPT !.active = active] \in User
              /\ [user[i] EXCEPT !.active = active].email = user[i].email
              /\ [user[i] EXCEPT !.active = active].number = user[i].number
              /\ [user[i] EXCEPT !.active = active].living = user[i].living
        BY DEF User
    <2>3. user' \in [Account -> User \cup {NoUser, Gone}]
        BY <1>1, <1>2, <2>1, <2>2 DEF TypeInv
    <2>4. \A i \in Account : user'[i] \in User =>
              /\ user[i] \in User /\ user'[i].email = user[i].email
              /\ user'[i].number = user[i].number /\ user'[i].living = user[i].living
        BY <1>2, <2>1, <2>2
    <2>5. AccountsAreDistinct' /\ DeletedAreErased'
        BY <2>1, <2>3, <2>4, NamesKept
    <2>6. made' \in 0..MaxRequests
        BY <1>1, <1>5, AccountsAssumption DEF BulkSet, TypeInv
    <2>7. TypeInv'
        BY <1>1, <2>1, <2>3, <2>6 DEF TypeInv
    <2>. QED
        BY <2>5, <2>7 DEF AccountsInv
<1>. QED
    BY <1>3, <1>4, <1>5

\* A form saved long after it was filled.
LEMMA FormStep ==
    ASSUME AccountsInv, NEW r \in Request, NEW n \in Number,
           NEW active \in BOOLEAN, NEW verified \in BOOLEAN,
           SaveForm(r, n, active, verified)
    PROVE  AccountsInv'
<1>. DEFINE i == job[r].who
            u == [user[i] EXCEPT !.number = n, !.active = active, !.verified = verified]
<1>1. TypeInv /\ JobOK(job[r]) /\ i \in Account
    BY DEF AccountsInv, TypeInv, JobOK, SaveForm, Nameless
<1>2. Stored(i) => user[i] \in User
    BY <1>1, StoredUser
<1>3. Stored(i) => /\ u \in User /\ u.email = user[i].email /\ u.number = n
                   /\ u.living = user[i].living
    BY <1>2 DEF User
<1>4. /\ UNCHANGED <<copy, session>> /\ Finish(r)
      /\ restored' = IF Stored(i) /\ ~Living(i) THEN restored \cup {i} ELSE restored
    BY DEF SaveForm
<1>5. CASE Stored(i) /\ ~Clashes(i, u.email, u.number)
    <2>1. user' = [user EXCEPT ![i] = u]
        BY <1>5 DEF SaveForm, Put
    <2>2. user'[i] = u /\ \A k \in Account \ {i} : user'[k] = user[k]
        BY <1>1, <2>1 DEF TypeInv
    <2>. HIDE DEF u
    <2>3. user' \in [Account -> User \cup {NoUser, Gone}] /\ AccountsAreDistinct'
        BY <1>1, <1>3, <1>5, <2>1, OneWritten
    <2>4. DeletedAreErased'
        BY <1>1, <1>3, <1>4, <1>5, <2>2
        DEF AccountsInv, DeletedAreErased, Stored, Living
    <2>5. TypeInv'
        BY <1>1, <1>4, <2>3, RestOK, JobsKept DEF TypeInv, Finish, GoOn
    <2>. QED
        BY <2>3, <2>4, <2>5 DEF AccountsInv
<1>6. CASE ~(Stored(i) /\ ~Clashes(i, u.email, u.number))
    <2>1. user' = user
        BY <1>6 DEF SaveForm, Put
    <2>2. AccountsAreDistinct' /\ DeletedAreErased'
        BY <1>4, <2>1 DEF AccountsInv, AccountsAreDistinct, DeletedAreErased, Stored, Clashes
    <2>3. TypeInv'
        BY <1>1, <1>4, <2>1, RestOK, JobsKept DEF TypeInv, Finish, GoOn
    <2>. QED
        BY <2>2, <2>3 DEF AccountsInv
<1>. QED
    BY <1>5, <1>6

LEMMA AccountsInvStarts == AccountsInit => AccountsInv
<1>. SUFFICES ASSUME AccountsInit PROVE AccountsInv
    OBVIOUS
<1>1. TypeInv
    BY RestOK, AccountsAssumption DEF AccountsInit, TypeInv, JobOK
<1>2. \A i \in Account : ~Stored(i)
    BY DEF AccountsInit, Stored
<1>. QED
    BY <1>1, <1>2 DEF AccountsInv, AccountsAreDistinct, DeletedAreErased

LEMMA AccountsInvKept == AccountsInv /\ [AccountsNext]_accountVars => AccountsInv'
<1>. SUFFICES ASSUME AccountsInv, [AccountsNext]_accountVars PROVE AccountsInv'
    OBVIOUS
<1>1. CASE AccountsNext
    <2>1. PICK r \in Request : AccountsNext!(r)
        BY <1>1 DEF AccountsNext
    <2>. QED
        BY <2>1, RegistrationStep, BeginsStep, CachingStep, WritingStep, FormStep
<1>2. CASE UNCHANGED accountVars
    BY <1>2, NoAccountWritten DEF accountVars, AccountsInv, TypeInv
<1>. QED
    BY <1>1, <1>2

LEMMA AccountsInvHolds == AccountsSpec => []AccountsInv
BY AccountsInvStarts, AccountsInvKept, PTL DEF AccountsSpec

-----------------------------------------------------------------------------
(* Theorems *)

\* The collection, the cached copies, the sessions and what every request of
\* UserService carries keep their types.
THEOREM AccountsTypeCorrect == AccountsSpec => []AccountsTypeOK
<1>1. AccountsInv => AccountsTypeOK
    BY DEF AccountsInv, TypeInv, AccountsTypeOK
<1>. QED
    BY <1>1, AccountsInvHolds, PTL

\* However registrations, forms, status changes and deletions overlap, no two
\* accounts share an e-mail or a registration number (createUser, updateUser
\* and the indexes of models/User.ts).
THEOREM AccountsDistinct == AccountsSpec => []AccountsAreDistinct
<1>1. AccountsInv => AccountsAreDistinct
    BY DEF AccountsInv
<1>. QED
    BY <1>1, AccountsInvHolds, PTL

\* A registration is refused only for a living account or for a deleted one
\* that a saved form restored: a deletion frees the e-mail and the number
\* (createUser, deleteUserAndData).
THEOREM RefusalsJustified == AccountsSpec => RefusalsAreJustified
<1>. DEFINE Justified ==
        \A r \in Request : job[r].at # "refused" /\ job'[r].at = "refused" =>
           \E i \in Account : /\ Stored(i) /\ (user[i].living \/ i \in restored)
                              /\ \/ user[i].email = job[r].email
                                 \/ user[i].number = job[r].number
<1>1. ASSUME AccountsInv, AccountsNext PROVE Justified
  <2>. SUFFICES ASSUME NEW q \in Request, job[q].at # "refused", job'[q].at = "refused"
                PROVE  \E i \in Account : /\ Stored(i) /\ (user[i].living \/ i \in restored)
                                          /\ \/ user[i].email = job[q].email
                                             \/ user[i].number = job[q].number
      OBVIOUS
  <2>1. PICK r \in Request : AccountsNext!(r)
      BY <1>1 DEF AccountsNext
  <2>2. job \in [Request -> Job] /\ JobOK(job[q])
      BY <1>1 DEF AccountsInv, TypeInv
  <2>3. job' = job \/ \E j : job' = [job EXCEPT ![r] = j]
      BY <2>1 DEF Begin, GoOn, Finish, Register, CheckEmail, CheckNumber, Insert, Refused,
          Registered, Login, SignIn, VerifyBegins, Verify, View, Fetch, Fill,
          ProfileBegins, Profile, OpenForm, SaveForm, ToggleBegins, Toggle, BulkSet,
          Delete, RemoveBegins, Erase, Forget
  <2>4. q = r /\ \A j : job' = [job EXCEPT ![q] = j] => job'[q] = j
      BY <2>2, <2>3
  <2>5. CheckEmail(q) \/ CheckNumber(q) \/ Insert(q)
      <3>1. Rest.at = "idle"
          BY DEF Rest
      <3>2. /\ job' # job
            /\ \A j : GoOn(q, j) \/ Begin(q, j) => j.at = "refused"
            /\ ~Finish(q)
          BY <2>4, <3>1 DEF GoOn, Begin, Finish
      <3>3. ~(Refused(q) \/ Registered(q) \/ SignIn(q) \/ Verify(q) \/ Fill(q)
              \/ Toggle(q) \/ Forget(q)
              \/ \E n \in Number, active, verified \in BOOLEAN :
                    SaveForm(q, n, active, verified))
          BY <3>2 DEF Refused, Registered, SignIn, Verify, Fill, Toggle, Forget, SaveForm
      <3>4. ~(Fetch(q) \/ Profile(q) \/ Erase(q))
          <4>1. \A i : About("fill", i).at = "fill"
              BY DEF About, Rest
          <4>2. ~(Fetch(q) \/ Profile(q))
              BY <3>2, <4>1 DEF Fetch, Profile
          <4>3. Erase(q) => job'[q].at = "forget"
              BY <2>2 DEF Erase, GoOn, JobOK, Job
          <4>. QED
              BY <4>2, <4>3
      <3>5. ~(\E i \in Account :
                 \/ Login(q, i) \/ VerifyBegins(q, i)
                 \/ OpenForm(q, i) \/ ToggleBegins(q, i) \/ RemoveBegins(q, i))
          <4>1. \A at, i : About(at, i).at = at
              BY DEF About, Rest
          <4>. QED
              BY <3>2, <4>1 DEF Login, VerifyBegins, OpenForm, ToggleBegins, RemoveBegins
      <3>6. ~(\/ \E e \in Email, n \in Number : Register(q, e, n)
              \/ \E i \in Account : View(q, i) \/ ProfileBegins(q, i))
          <4>1. \A e, n : Register(q, e, n) => job'[q].at = "email"
              BY <2>2 DEF Register, Begin, Rest
          <4>2. \A i : View(q, i) => job'[q].at = "fetch"
              BY <2>2 DEF View, Begin, Rest
          <4>3. \A i : ProfileBegins(q, i) => job'[q].at = "profile"
              BY <2>2 DEF ProfileBegins, Begin, Rest
          <4>. QED
              BY <4>1, <4>2, <4>3
      <3>7. ~(\/ \E i \in Account : Delete(q, i)
              \/ \E who \in SUBSET Account, active \in BOOLEAN : BulkSet(q, who, active))
          BY <3>2 DEF Delete, BulkSet
      <3>. QED
          BY <2>1, <2>4, <3>3, <3>4, <3>5, <3>6, <3>7
  <2>6. CASE CheckEmail(q) \/ CheckNumber(q)
      BY <2>2, <2>6 DEF CheckEmail, CheckNumber, GoOn, Living, Job
  <2>7. CASE Insert(q)
      <3>1. PICK i \in Account : Clashes(i, job[q].email, job[q].number)
          BY <2>2, <2>7 DEF Insert, GoOn, Job
      <3>2. PICK k \in Account :
               /\ Stored(k)
               /\ \/ user[k].email = job[q].email /\ job[q].email # Erased
                  \/ user[k].number = job[q].number /\ job[q].number # Erased
          BY <3>1 DEF Clashes
      <3>. QED
          BY <1>1, <3>2 DEF AccountsInv, DeletedAreErased
  <2>. QED
      BY <2>5, <2>6, <2>7
<1>2. AccountsInv /\ [AccountsNext]_accountVars => [Justified]_accountVars
    BY <1>1
<1>. QED
    BY <1>2, AccountsInvHolds, PTL DEF AccountsSpec, RefusalsAreJustified

-----------------------------------------------------------------------------
(* Deletion is final *)

\* What a step may make of an account: it is created or removed, it keeps its
\* e-mail and its life, or it is anonymised.
Fate(old, new) ==
    \/ new = old
    \/ old = NoUser /\ new \in User /\ new.living
    \/ old \in User /\ new = Gone
    \/ /\ old \in User /\ new \in User
       /\ \/ new.living = old.living /\ new.email = old.email
          \/ ~new.living /\ new.email = Erased

\* One account is written.
LEMMA FateOfOne ==
    ASSUME TypeInv, NEW i \in Account, NEW u, user' = [user EXCEPT ![i] = u],
           Fate(user[i], u)
    PROVE  \A k \in Account : Fate(user[k], user'[k])
<1>1. user'[i] = u /\ \A k \in Account \ {i} : user'[k] = user[k]
    BY DEF TypeInv
<1>2. \A k \in Account \ {i} : Fate(user[k], user'[k])
    BY <1>1 DEF Fate
<1>. QED
    BY <1>1, <1>2

LEMMA Fates ==
    ASSUME AccountsInv, [AccountsNext]_accountVars
    PROVE  \A k \in Account : Fate(user[k], user'[k])
<1>. USE DEF Nameless, Reading
<1>1. TypeInv /\ \A i \in Account : Stored(i) <=> user[i] \in User
    BY StoredUser DEF AccountsInv
<1>2. ASSUME user' = user PROVE \A k \in Account : Fate(user[k], user'[k])
    BY <1>2 DEF Fate
<1>3. ASSUME NEW r \in Request, Insert(r)
      PROVE  \A k \in Account : Fate(user[k], user'[k])
    <2>. DEFINE u == [email |-> job[r].email, number |-> job[r].number,
                      verified |-> FALSE, active |-> TRUE, living |-> TRUE]
    <2>1. PICK i \in Account : user[i] = NoUser /\ (user' = user \/ user' = [user EXCEPT ![i] = u])
        BY <1>3 DEF Insert
    <2>2. u \in User /\ u.living
        BY <1>1, <1>3 DEF Insert, TypeInv, JobOK, User
    <2>. HIDE DEF u
    <2>3. Fate(user[i], u)
        BY <2>1, <2>2 DEF Fate
    <2>. QED
        BY <1>1, <1>2, <2>1, <2>3, FateOfOne
<1>4. ASSUME NEW r \in Request,
             Verify(r) \/ Toggle(r) \/ Erase(r)
             \/ \E n \in Number, active, verified \in BOOLEAN :
                   SaveForm(r, n, active, verified)
      PROVE  \A k \in Account : Fate(user[k], user'[k])
    <2>. DEFINE i == job[r].who
    <2>1. i \in Account /\ job[r].saw \in User
        BY <1>1, <1>4 DEF TypeInv, JobOK, Verify, Toggle, Erase, SaveForm
    <2>2. CASE user' = user
        BY <1>2, <2>2
    <2>3. CASE user' # user
        <3>. DEFINE Written ==
                      /\ user[i] \in User
                      /\ \E u \in User :
                            /\ user' = [user EXCEPT ![i] = u]
                            /\ \/ u.living = user[i].living /\ u.email = user[i].email
                               \/ ~u.living /\ u.email = Erased
        <3>1. Written
            <4>1. CASE Verify(r)
                <5>1. user[i] \in User /\ user' = [user EXCEPT ![i] = [user[i] EXCEPT !.verified = TRUE]]
                    BY <1>1, <2>1, <2>3, <4>1 DEF Verify
                <5>2. [user[i] EXCEPT !.verified = TRUE] \in User
                    BY <5>1 DEF User
                <5>. QED
                    BY <5>1, <5>2 DEF User
            <4>2. CASE Toggle(r)
                <5>1. /\ user[i] \in User
                      /\ user' = [user EXCEPT ![i] = [user[i] EXCEPT !.active = ~job[r].saw.active]]
                    BY <1>1, <2>1, <2>3, <4>2 DEF Toggle
                <5>2. [user[i] EXCEPT !.active = ~job[r].saw.active] \in User
                    BY <2>1, <5>1 DEF User
                <5>. QED
                    BY <5>1, <5>2 DEF User
            <4>3. CASE Erase(r)
                <5>. DEFINE u == [email |-> Erased, number |-> Erased, verified |-> FALSE,
                                  active |-> FALSE, living |-> FALSE]
                <5>1. user[i] \in User /\ user' = [user EXCEPT ![i] = u]
                    BY <1>1, <2>1, <2>3, <4>3 DEF Erase
                <5>2. u \in User /\ ~u.living /\ u.email = Erased
                    BY DEF User
                <5>. QED
                    BY <5>1, <5>2
            <4>4. ASSUME NEW n \in Number, NEW active \in BOOLEAN, NEW verified \in BOOLEAN,
                         SaveForm(r, n, active, verified)
                  PROVE  Written
                <5>. DEFINE u == [user[i] EXCEPT !.number = n, !.active = active,
                                                 !.verified = verified]
                <5>1. user[i] \in User /\ user' = [user EXCEPT ![i] = u]
                    BY <1>1, <2>1, <2>3, <4>4 DEF SaveForm, Put
                <5>2. u \in User /\ u.living = user[i].living /\ u.email = user[i].email
                    BY <5>1 DEF User
                <5>. QED
                    BY <5>1, <5>2
            <4>. QED
                BY <1>4, <4>1, <4>2, <4>3, <4>4
        <3>2. PICK u \in User :
                  /\ user' = [user EXCEPT ![i] = u]
                  /\ \/ u.living = user[i].living /\ u.email = user[i].email
                     \/ ~u.living /\ u.email = Erased
            BY <3>1
        <3>3. Fate(user[i], u)
            BY <3>1, <3>2 DEF Fate
        <3>. QED
            BY <1>1, <2>1, <3>2, <3>3, FateOfOne
    <2>. QED
        BY <2>2, <2>3
<1>5. ASSUME NEW r \in Request, NEW i \in Account, Delete(r, i)
      PROVE  \A k \in Account : Fate(user[k], user'[k])
    <2>1. user[i] \in User /\ user' = [user EXCEPT ![i] = Gone]
        BY <1>1, <1>5 DEF Delete
    <2>2. Fate(user[i], Gone)
        BY <2>1 DEF Fate
    <2>. QED
        BY <1>1, <2>1, <2>2, FateOfOne
<1>6. ASSUME NEW r \in Request, NEW who \in SUBSET Account, NEW active \in BOOLEAN,
             BulkSet(r, who, active), NEW k \in Account
      PROVE  Fate(user[k], user'[k])
    <2>1. user'[k] = IF k \in who /\ Stored(k)
                     THEN [user[k] EXCEPT !.active = active] ELSE user[k]
        BY <1>6 DEF BulkSet
    <2>2. user[k] \in User => /\ [user[k] EXCEPT !.active = active] \in User
                              /\ [user[k] EXCEPT !.active = active].living = user[k].living
                              /\ [user[k] EXCEPT !.active = active].email = user[k].email
        BY DEF User
    <2>. QED
        BY <1>1, <2>1, <2>2 DEF Fate
<1>7. ASSUME NEW r \in Request,
             \/ \E e \in Email, n \in Number : Register(r, e, n)
             \/ CheckEmail(r) \/ CheckNumber(r) \/ Refused(r) \/ Registered(r)
             \/ \E i \in Account :
                   \/ Login(r, i) \/ VerifyBegins(r, i) \/ View(r, i) \/ ProfileBegins(r, i)
                   \/ OpenForm(r, i) \/ ToggleBegins(r, i) \/ RemoveBegins(r, i)
             \/ SignIn(r) \/ Fetch(r) \/ Fill(r) \/ Profile(r) \/ Forget(r)
      PROVE  user' = user
    BY <1>7 DEF Register, CheckEmail, CheckNumber, Refused, Registered, Login, VerifyBegins,
                View, ProfileBegins, OpenForm, ToggleBegins, RemoveBegins, SignIn, Fetch,
                Fill, Profile, Forget
<1>8. CASE AccountsNext
    <2>1. PICK r \in Request : AccountsNext!(r)
        BY <1>8 DEF AccountsNext
    <2>. QED
        BY <1>2, <1>3, <1>4, <1>5, <1>6, <1>7, <2>1
<1>9. CASE UNCHANGED accountVars
    BY <1>2, <1>9 DEF accountVars
<1>. QED
    BY <1>8, <1>9

\* A deleted account has no e-mail, whatever forms were saved to it.
DeletedAreNameless ==
    \A i \in Account : user[i] \in User /\ ~user[i].living => user[i].email = Erased

LEMMA NamelessKept ==
    ASSUME AccountsInv, DeletedAreNameless, [AccountsNext]_accountVars
    PROVE  DeletedAreNameless'
BY Fates, AccountsNothing DEF DeletedAreNameless, Fate

\* Whatever has read an account before it was deleted, nothing that it writes
\* afterwards brings the account back (UserRepository.update,
\* deleteUserAndData).
THEOREM DeletionIsFinal == AccountsSpec => DeletedStayDeleted
<1>. DEFINE Final == \A i \in Account :
                        /\ user[i] = Gone => user'[i] = Gone
                        /\ Stored(i) /\ ~Living(i) =>
                              \/ user'[i] = Gone
                              \/ ~user'[i].living /\ user'[i].email = Erased
<1>1. ASSUME AccountsInv, DeletedAreNameless, [AccountsNext]_accountVars PROVE Final
    <2>1. ASSUME NEW i \in Account, user[i] = Gone PROVE user'[i] = Gone
        BY <1>1, <2>1, Fates, AccountsNothing, AccountsAssumption DEF Fate
    <2>2. ASSUME NEW i \in Account, Stored(i), ~Living(i)
          PROVE  \/ user'[i] = Gone
                 \/ ~user'[i].living /\ user'[i].email = Erased
        <3>1. user[i] \in User /\ ~user[i].living /\ user[i].email = Erased
            BY <1>1, <2>2, StoredUser DEF AccountsInv, DeletedAreNameless, Living
        <3>. QED
            BY <1>1, <3>1, Fates, AccountsNothing DEF Fate
    <2>. QED
        BY <2>1, <2>2
<1>2. AccountsInit => DeletedAreNameless
    BY AccountsNothing DEF AccountsInit, DeletedAreNameless
<1>3. AccountsInv /\ DeletedAreNameless /\ [AccountsNext]_accountVars => DeletedAreNameless'
    BY NamelessKept
<1>4. AccountsInv /\ DeletedAreNameless /\ [AccountsNext]_accountVars => [Final]_accountVars
    BY <1>1
<1>. QED
    BY <1>2, <1>3, <1>4, AccountsInvHolds, PTL DEF AccountsSpec, DeletedStayDeleted
=============================================================================
