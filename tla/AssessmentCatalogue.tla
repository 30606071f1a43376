-------------------------- MODULE AssessmentCatalogue --------------------------
(***************************************************************************)
(* One assessment between the requests that write it: AssessmentService's  *)
(* handlers, the enrolment of invited students when they register          *)
(* (UserService), the document in MongoDB and its copy in Redis.           *)
(*                                                                         *)
(* Handlers await between reading the document, looking up the invited     *)
(* e-mails, writing whole lists back and refreshing the cache, so each of  *)
(* these is an action.  A job is what a request carries between them.      *)
(*                                                                         *)
(* Abstraction: a student stands for the e-mail and for the user id of     *)
(* one account; titles, questions, marks and dates are a version number;   *)
(* mails change no state of the assessment.  setAssessment passes a ttl of *)
(* undefined, which overrides the default one: cached copies never expire. *)
(* Its keys carry the cache manager's prefix, so the raw "assessment:*" of *)
(* invalidateAllAssessmentCaches meets none: only deletions by id count.   *)
(***************************************************************************)
EXTENDS Naturals, FiniteSets

CONSTANTS
    Student,
    Request,      \* request slots: handlers that can be in flight at once
    Ops,          \* the requests that an instance makes
    Lists,        \* do saved forms give lists of users or e-mails, and a status?
    Faults,       \* may lookups, cache commands and processes fail?
    MaxRequests,  \* bound: requests
    NoDoc, NoCopy, NoOne, Keep

AllOps == {"create", "update", "question", "activate", "deactivate",
           "assign", "delete", "view", "start", "register", "remove"}

\* Writers that leave the cached copy alone.
Bypassing == {"question", "deactivate", "assign", "register", "remove"}

ASSUME CatalogueAssumption ==
    /\ Ops \subseteq AllOps
    /\ Lists \in BOOLEAN /\ Faults \in BOOLEAN
    /\ MaxRequests \in Nat
    /\ NoOne \notin Student
    /\ Keep # {}

VARIABLES
    doc,        \* the stored assessment, or NoDoc
    version,    \* number of writes of it
    writtenBy,  \* history: the request that wrote each version
    copy,       \* what Redis holds under its id, or NoCopy
    account,    \* each student's account
    job,        \* what each request slot is doing
    made,       \* requests made
    admitted    \* students whose start passed the checks

catVars == <<doc, version, writtenBy, copy, account, job, made, admitted>>

Status == {"active", "inactive"}

Doc == [status: Status, assigned: SUBSET Student, invited: SUBSET Student]

\* The copy's lists take part in no decision: getAssignedUsers reads MongoDB.
Copy == [version: 0..MaxRequests, status: Status]

ASSUME CatalogueNothing == NoDoc \notin Doc /\ NoCopy \notin Copy

Step == {"idle", "lists", "activate", "assign", "question", "invalidate",
         "refresh", "fetch", "check", "insert", "enrol", "add", "pull"}

Job == [op: AllOps \cup {"none"}, at: Step, who: Student \cup {NoOne},
        assigned: SUBSET Student, invited: SUBSET Student,
        todo: SUBSET Student, saw: Copy \cup {NoCopy}]

Rest == [op |-> "none", at |-> "idle", who |-> NoOne, assigned |-> {},
         invited |-> {}, todo |-> {}, saw |-> NoCopy]

Active == {s \in Student : account[s] = "active"}

Quiet == \A r \in Request : job[r] = Rest

CatalogueInit ==
    /\ doc = NoDoc
    /\ version = 0
    /\ writtenBy = [v \in 1..MaxRequests |-> "none"]
    /\ copy = NoCopy
    /\ account \in [Student -> {"none", "active"}]
    /\ job = [r \in Request |-> Rest]
    /\ made = 0
    /\ admitted = {}

-----------------------------------------------------------------------------
(* Parts shared by the handlers *)

\* A request arrives in slot r; its handler goes as far as its first await.
Begin(r, op, j) ==
    /\ op \in Ops
    /\ job[r] = Rest /\ made < MaxRequests
    /\ made' = made + 1
    /\ job' = [job EXCEPT ![r] = [j EXCEPT !.op = op]]

GoOn(r, j) == job' = [job EXCEPT ![r] = j]

Finish(r) == GoOn(r, Rest)

\* A handler that is one query: nothing falls between its arrival and its end.
AtOnce(r, op) ==
    /\ op \in Ops
    /\ job[r] = Rest /\ made < MaxRequests
    /\ made' = made + 1
    /\ UNCHANGED job

\* A write of the assessment.
Store(op, d) ==
    /\ doc' = d
    /\ version' = version + 1
    /\ writtenBy' = [writtenBy EXCEPT ![version + 1] = op]

\* What a handler caches of d once it has written it.
Written(d) == [version |-> version + 1, status |-> d.status]

NoWrite == UNCHANGED <<doc, version, writtenBy>>

\* getUserByEmail(e): the account is found, or it does not exist, or the
\* query failed, which the service reports in the same way.
Lookup(r, e) ==
    /\ job[r].at = "lists" /\ e \in job[r].todo
    /\ \/ /\ e \in Active
          /\ GoOn(r, [job[r] EXCEPT !.todo = @ \ {e}, !.assigned = @ \cup {e}])
       \/ /\ e \notin Active \/ Faults
          /\ GoOn(r, [job[r] EXCEPT !.todo = @ \ {e}, !.invited = @ \cup {e}])
    /\ NoWrite /\ UNCHANGED <<copy, account, made, admitted>>

\* The value in hand is written over the cached copy.  A start goes on with it.
Refresh(r) ==
    /\ job[r].at = "refresh"
    /\ copy' = job[r].saw \/ (Faults /\ copy' = copy)
    /\ IF job[r].op = "start" THEN GoOn(r, [job[r] EXCEPT !.at = "check"])
                              ELSE Finish(r)
    /\ NoWrite /\ UNCHANGED <<account, made, admitted>>

\* invalidateAssessmentCache, before an update caches what it wrote and after
\* a deletion.
Invalidate(r) ==
    /\ job[r].at = "invalidate"
    /\ copy' = NoCopy \/ (Faults /\ copy' = copy)
    /\ IF job[r].op = "update" THEN GoOn(r, [job[r] EXCEPT !.at = "refresh"])
                               ELSE Finish(r)
    /\ NoWrite /\ UNCHANGED <<account, made, admitted>>

\* The process dies, or an awaited call throws: for a registration also
\* sendRegistrationEmail, after the account was stored.
Fail(r) ==
    /\ Faults
    /\ job[r] # Rest
    /\ Finish(r)
    /\ NoWrite /\ UNCHANGED <<copy, account, made, admitted>>

-----------------------------------------------------------------------------
(* Writing the assessment *)

\* createAssessment, with users (or "all", or colleges) and e-mails.
CreateBegins(r, users, emails) ==
    /\ doc = NoDoc /\ version = 0
    /\ Begin(r, "create", [Rest EXCEPT !.at = "lists", !.assigned = users,
                                       !.invited = emails, !.todo = emails])
    /\ NoWrite /\ UNCHANGED <<copy, account, admitted>>

\* The e-mails of registered students stay on the stored list.
Create(r) ==
    /\ job[r].op = "create" /\ job[r].at = "lists" /\ job[r].todo = {}
    /\ doc = NoDoc /\ version = 0
    /\ Store("create", [status |-> "active", assigned |-> job[r].assigned,
                 invited |-> job[r].invited])
    /\ Finish(r)
    /\ UNCHANGED <<copy, account, made, admitted>>

\* updateAssessment reads the assessment and starts its new lists: users
\* replace the assigned ones unless the form keeps them, colleges add theirs.
UpdateBegins(r, users, colleges, emails) ==
    /\ doc # NoDoc
    /\ LET base    == IF users = Keep THEN doc.assigned ELSE users
           cleared == users = {} /\ colleges = {}
           check   == IF emails # Keep THEN emails
                      ELSE IF cleared THEN {} ELSE doc.invited
       IN  Begin(r, "update", [Rest EXCEPT !.at = "lists",
                                           !.assigned = base \cup colleges,
                                           !.todo = check])
    /\ NoWrite /\ UNCHANGED <<copy, account, admitted>>

\* Mutant: the cached copy is left alone.
UpdateOnly(r, status) ==
    /\ job[r].op = "update" /\ job[r].at = "lists" /\ job[r].todo = {}
    /\ IF doc = NoDoc
       THEN NoWrite
       ELSE Store("update", [doc EXCEPT !.assigned = job[r].assigned,
                                        !.invited = job[r].invited,
                                        !.status = IF status = Keep THEN @ ELSE status])
    /\ Finish(r)
    /\ UNCHANGED <<copy, account, made, admitted>>

\* findByIdAndUpdate writes both lists as computed from what was read, and the
\* form's status, if it has one.
Update(r, status) ==
    /\ job[r].op = "update" /\ job[r].at = "lists" /\ job[r].todo = {}
    /\ IF doc = NoDoc
       THEN Finish(r) /\ NoWrite
       ELSE LET new == [doc EXCEPT !.assigned = job[r].assigned,
                                   !.invited = job[r].invited,
                                   !.status = IF status = Keep THEN @ ELSE status]
            IN  /\ Store("update", new)
                /\ GoOn(r, [job[r] EXCEPT !.at = "invalidate", !.saw = Written(new)])
    /\ UNCHANGED <<copy, account, made, admitted>>

\* activateAssessment requires assigned users of the document it reads.
ActivateBegins(r) ==
    /\ doc # NoDoc /\ doc.assigned # {}
    /\ Begin(r, "activate", [Rest EXCEPT !.at = "activate"])
    /\ NoWrite /\ UNCHANGED <<copy, account, admitted>>

Activate(r) ==
    /\ job[r].at = "activate"
    /\ IF doc = NoDoc
       THEN Finish(r) /\ NoWrite
       ELSE LET new == [doc EXCEPT !.status = "active"]
            IN  /\ Store("activate", new)
                /\ GoOn(r, [job[r] EXCEPT !.at = "refresh", !.saw = Written(new)])
    /\ UNCHANGED <<copy, account, made, admitted>>

\* Mutant: deactivation makes a draft of the assessment.
DeactivateToDraft(r) ==
    /\ doc # NoDoc
    /\ AtOnce(r, "deactivate")
    /\ Store("deactivate", [doc EXCEPT !.status = "draft"])
    /\ UNCHANGED <<copy, account, admitted>>

Deactivate(r) ==
    /\ doc # NoDoc
    /\ AtOnce(r, "deactivate")
    /\ Store("deactivate", [doc EXCEPT !.status = "inactive"])
    /\ UNCHANGED <<copy, account, admitted>>

\* assignUsersToAssessment validates its users, then replaces the list.
AssignBegins(r, users) ==
    /\ users # {}
    /\ Begin(r, "assign", [Rest EXCEPT !.at = "assign", !.assigned = users])
    /\ NoWrite /\ UNCHANGED <<copy, account, admitted>>

Assign(r) ==
    /\ job[r].at = "assign"
    /\ IF doc = NoDoc THEN NoWrite
                      ELSE Store("assign", [doc EXCEPT !.assigned = job[r].assigned])
    /\ Finish(r)
    /\ UNCHANGED <<copy, account, made, admitted>>

\* createQuestionInAssessment reads the assessment, creates the question and
\* writes the longer list of questions.
QuestionBegins(r) ==
    /\ doc # NoDoc
    /\ Begin(r, "question", [Rest EXCEPT !.at = "question"])
    /\ NoWrite /\ UNCHANGED <<copy, account, admitted>>

AddQuestion(r) ==
    /\ job[r].at = "question"
    /\ IF doc = NoDoc THEN NoWrite ELSE Store("question", doc)
    /\ Finish(r)
    /\ UNCHANGED <<copy, account, made, admitted>>

\* Mutant: deletion leaves the cached copy to the others.
DeleteOnly(r) ==
    /\ doc # NoDoc
    /\ AtOnce(r, "delete")
    /\ Store("delete", NoDoc)
    /\ UNCHANGED <<copy, account, admitted>>

Delete(r) ==
    /\ doc # NoDoc
    /\ Begin(r, "delete", [Rest EXCEPT !.at = "invalidate"])
    /\ Store("delete", NoDoc)
    /\ UNCHANGED <<copy, account, admitted>>

-----------------------------------------------------------------------------
(* Reading the assessment *)

\* getAssessmentById asks Redis first.  A hit ends a view.
ViewBegins(r) ==
    /\ copy = NoCopy
    /\ Begin(r, "view", [Rest EXCEPT !.at = "fetch"])
    /\ NoWrite /\ UNCHANGED <<copy, account, admitted>>

\* startAssessment reads the assessment in the same way.
StartBegins(r, s) ==
    /\ s \in Active \ admitted
    /\ Begin(r, "start", [Rest EXCEPT !.who = s, !.saw = copy,
                           !.at = IF copy = NoCopy THEN "fetch" ELSE "check"])
    /\ NoWrite /\ UNCHANGED <<copy, account, admitted>>

\* A miss reads MongoDB; the value is cached by Refresh.
Fetch(r) ==
    /\ job[r].at = "fetch"
    /\ IF doc = NoDoc
       THEN Finish(r)
       ELSE GoOn(r, [job[r] EXCEPT !.at = "refresh",
                       !.saw = [version |-> version, status |-> doc.status]])
    /\ NoWrite /\ UNCHANGED <<copy, account, made, admitted>>

\* startAssessment: the status of the value in hand, the users of MongoDB.
Check(r) ==
    /\ job[r].at = "check"
    /\ admitted' = IF /\ job[r].saw.status = "active"
                      /\ doc # NoDoc /\ job[r].who \in doc.assigned
                   THEN admitted \cup {job[r].who}
                   ELSE admitted
    /\ Finish(r)
    /\ NoWrite /\ UNCHANGED <<copy, account, made>>

-----------------------------------------------------------------------------
(* Accounts *)

\* createUser finds no account with the e-mail.
RegisterBegins(r, s) ==
    /\ account[s] = "none"
    /\ Begin(r, "register", [Rest EXCEPT !.at = "insert", !.who = s])
    /\ NoWrite /\ UNCHANGED <<copy, account, admitted>>

\* Mutant: the invitations waiting for the e-mail are not looked for.
RegisterOnly(r) ==
    /\ job[r].at = "insert"
    /\ IF account[job[r].who] = "none"
       THEN account' = [account EXCEPT ![job[r].who] = "active"]
       ELSE UNCHANGED account
    /\ Finish(r)
    /\ NoWrite /\ UNCHANGED <<copy, made, admitted>>

\* The unique index on the e-mail refuses the later of two registrations.
Register(r) ==
    /\ job[r].at = "insert"
    /\ IF account[job[r].who] = "none"
       THEN /\ account' = [account EXCEPT ![job[r].who] = "active"]
            /\ GoOn(r, [job[r] EXCEPT !.at = "enrol"])
       ELSE Finish(r) /\ UNCHANGED account
    /\ NoWrite /\ UNCHANGED <<copy, made, admitted>>

\* checkAndProcessPendingInvitations, run after the response: findByInvitedUser.
Invited(r) ==
    /\ job[r].at = "enrol"
    /\ IF \/ doc = NoDoc
          \/ job[r].who \notin doc.invited
          \/ job[r].who \in doc.assigned
       THEN Finish(r)
       ELSE GoOn(r, [job[r] EXCEPT !.at = "add",
                       !.assigned = doc.assigned \cup {job[r].who},
                       !.invited = doc.invited \ {job[r].who}])
    /\ NoWrite /\ UNCHANGED <<copy, account, made, admitted>>

\* Mutant: the e-mail is taken off the list and the user is not put on the
\* other.
EnrolHalf(r) ==
    /\ job[r].at = "add"
    /\ IF doc = NoDoc THEN NoWrite
                      ELSE Store("register", [doc EXCEPT !.invited = job[r].invited])
    /\ Finish(r)
    /\ UNCHANGED <<copy, account, made, admitted>>

\* Both lists are written as computed from what was read.
Enrol(r) ==
    /\ job[r].at = "add"
    /\ IF doc = NoDoc THEN NoWrite
                      ELSE Store("register", [doc EXCEPT !.assigned = job[r].assigned,
                                                         !.invited = job[r].invited])
    /\ Finish(r)
    /\ UNCHANGED <<copy, account, made, admitted>>

\* deleteUserAndData, without a transaction: the account is soft-deleted, and
\* then its user is pulled out of the assigned ones.
RemoveBegins(r, s) ==
    /\ account[s] = "active"
    /\ Begin(r, "remove", [Rest EXCEPT !.at = "pull", !.who = s])
    /\ account' = [account EXCEPT ![s] = "deleted"]
    /\ NoWrite /\ UNCHANGED <<copy, admitted>>

Remove(r) ==
    /\ job[r].at = "pull"
    /\ IF doc # NoDoc /\ job[r].who \in doc.assigned
       THEN Store("remove", [doc EXCEPT !.assigned = @ \ {job[r].who}])
       ELSE NoWrite
    /\ Finish(r)
    /\ UNCHANGED <<copy, account, made, admitted>>

-----------------------------------------------------------------------------
\* What a saved form gives, or Keep where it leaves a field out.
Users == {Keep} \cup (IF Lists THEN SUBSET Active ELSE {})

Emails == {Keep} \cup (IF Lists THEN SUBSET Student ELSE {})

Statuses == {Keep} \cup (IF Lists THEN Status ELSE {})

Colleges == IF Lists THEN SUBSET Active ELSE {{}}

Write(r) ==
    \/ \E users \in SUBSET Active, emails \in SUBSET Student :
          CreateBegins(r, users, emails)
    \/ Create(r)
    \/ \E users \in Users, colleges \in Colleges, emails \in Emails :
          UpdateBegins(r, users, colleges, emails)
    \/ \E status \in Statuses : Update(r, status)
    \/ ActivateBegins(r) \/ Activate(r) \/ Deactivate(r)
    \/ \E users \in SUBSET Active : AssignBegins(r, users)
    \/ Assign(r)
    \/ QuestionBegins(r) \/ AddQuestion(r)
    \/ Delete(r)

View(r) ==
    \/ ViewBegins(r) \/ Fetch(r) \/ Check(r)
    \/ \E s \in Student : StartBegins(r, s)

Account(r) ==
    \/ \E s \in Student : RegisterBegins(r, s) \/ RemoveBegins(r, s)
    \/ Register(r) \/ Invited(r) \/ Enrol(r) \/ Remove(r)

CatalogueNext ==
    \E r \in Request :
        \/ \E e \in Student : Lookup(r, e)
        \/ Refresh(r) \/ Invalidate(r) \/ Fail(r)
        \/ Write(r) \/ View(r) \/ Account(r)

CatalogueSpec == CatalogueInit /\ [][CatalogueNext]_catVars

-----------------------------------------------------------------------------
CatTypeOK ==
    /\ doc \in Doc \cup {NoDoc}
    /\ version \in 0..MaxRequests
    /\ writtenBy \in [1..MaxRequests -> AllOps \cup {"none"}]
    /\ copy \in Copy \cup {NoCopy}
    /\ account \in [Student -> {"none", "active", "deleted"}]
    /\ job \in [Request -> Job]
    /\ made \in 0..MaxRequests
    /\ admitted \subseteq Student
    /\ \A r \in Request : job[r].op = "none" <=> job[r] = Rest
    /\ \A r \in Request : job[r].at \in {"refresh", "check"} => job[r].saw # NoCopy
    /\ \A r \in Request : job[r].at \in {"insert", "enrol", "add", "pull", "check"}
                             => job[r].who # NoOne

\* Once the requests have ended, the cached copy differs from the stored
\* assessment by writes of the bypassing routes only: an update, an activation
\* or a deletion never leaves an older copy behind (updateAssessment,
\* activateAssessment, deleteAssessment, getAssessmentById).
CopyLacksBypassesOnly ==
    Quiet /\ copy # NoCopy =>
        \A v \in (copy.version + 1)..version : writtenBy[v] \in Bypassing

\* A start of an assessment that is not active comes after a deactivation, and
\* nothing has refreshed the copy since: when requests come one at a time, every
\* other way to end an assessment, a form that saves its status or a deletion,
\* ends its starts (startAssessment, updateAssessment, deactivateAssessment).
StartsMissDeactivationsOnly ==
    [][admitted' # admitted =>
         /\ doc # NoDoc
         /\ \/ doc.status = "active"
            \/ \E v \in 1..version :
                  /\ writtenBy[v] = "deactivate"
                  /\ \A w \in (v + 1)..version : writtenBy[w] \in Bypassing]_catVars

\* Once the requests have ended, every invited student with an account is
\* assigned, whether the account or the invitation came first, unless
\* assignUsersToAssessment replaced the users (createAssessment,
\* updateAssessment, checkAndProcessPendingInvitations).
InvitedStudentsGetIn ==
    Quiet /\ doc # NoDoc /\ (\A v \in 1..version : writtenBy[v] # "assign")
        => doc.invited \cap Active \subseteq doc.assigned

\* A student leaves both lists only with the account: requests in flight
\* overwrite each other's lists, and may set a student back from assigned to
\* invited, but no title change, registration or other request without lists
\* of its own drops one (updateAssessment, checkAndProcessPendingInvitations).
EnrolmentIsKept ==
    [][doc # NoDoc /\ doc' # NoDoc =>
         \A s \in doc.assigned \cup doc.invited :
            s \in doc'.assigned \cup doc'.invited \/ account'[s] = "deleted"]_catVars

\* startAssessment: "Assessment is not active".  A start is admitted only
\* while the stored assessment is active.
NoStartOfAnInactiveAssessment ==
    [][admitted' # admitted => doc # NoDoc /\ doc.status = "active"]_catVars
=============================================================================
