----------------------- MODULE AssessmentCatalogueProofs -----------------------
(* Theorems about AssessmentCatalogue, for every value of its constants. *)
EXTENDS AssessmentCatalogue, FiniteSetTheorems, TLAPS

-----------------------------------------------------------------------------
(* Jobs, and the writes they may still make *)

JobOK(j) ==
    /\ j \in Job
    /\ j.op = "none" <=> j = Rest
    /\ j.at \in {"refresh", "check"} => j.saw # NoCopy
    /\ j.at = "invalidate" /\ j.op = "update" => j.saw # NoCopy
    /\ j.at \in {"insert", "enrol", "add", "pull", "check"} => j.who # NoOne
    /\ j.op = "start" => j.who # NoOne

JobsOK == job \in [Request -> Job] /\ \A r \in Request : JobOK(job[r])

\* Where a request has one write of the assessment before it.
Writers == {"lists", "activate", "assign", "question", "insert", "enrol", "add", "pull"}

Flag(j) == IF j.at \in Writers THEN 1 ELSE 0

Writing == {r \in Request : job[r].at \in Writers}

\* Every request writes at most once, so that the versions fit.
WritesFit == IsFiniteSet(Writing) /\ version + Cardinality(Writing) <= made

CatInv ==
    /\ doc \in Doc \cup {NoDoc}
    /\ version \in Nat
    /\ writtenBy \in [1..MaxRequests -> AllOps \cup {"none"}]
    /\ copy \in Copy \cup {NoCopy}
    /\ account \in [Student -> {"none", "active", "deleted"}]
    /\ made \in 0..MaxRequests
    /\ admitted \subseteq Student
    /\ JobsOK
    /\ WritesFit

LEMMA RestOK == JobOK(Rest) /\ Rest.at = "idle" /\ Flag(Rest) = 0
BY DEF JobOK, Job, Rest, Step, Flag, Writers

\* A request is busy until it rests, and stays well formed on its way.
LEMMA Busy ==
    ASSUME CatInv, NEW r \in Request, job[r].at # "idle"
    PROVE  job[r] \in Job /\ job[r].op # "none" /\ JobOK(job[r])
BY DEF CatInv, JobsOK, JobOK, Rest

LEMMA OnItsWay ==
    ASSUME NEW k \in Job, k.op # "none",
           k.at \in {"refresh", "check"} => k.saw # NoCopy,
           k.at = "invalidate" /\ k.op = "update" => k.saw # NoCopy,
           k.at \in {"insert", "enrol", "add", "pull", "check"} => k.who # NoOne,
           k.op = "start" => k.who # NoOne
    PROVE  JobOK(k)
BY DEF JobOK, Rest

\* A slot that goes on keeps the jobs well formed, and leaves room for the
\* write it may still make.
LEMMA Changed ==
    ASSUME CatInv, NEW r \in Request, NEW j, JobOK(j),
           job' = [job EXCEPT ![r] = j],
           version' \in Nat, made' \in Nat,
           (version' + Flag(j)) + made <= (version + Flag(job[r])) + made'
    PROVE  JobsOK' /\ WritesFit' /\ job'[r] = j
<1>1. job' \in [Request -> Job] /\ job'[r] = j
    BY DEF CatInv, JobsOK, JobOK
<1>2. \A q \in Request \ {r} : job'[q] = job[q]
    BY DEF CatInv, JobsOK
<1>3. JobsOK'
    BY <1>1, <1>2 DEF CatInv, JobsOK, JobOK
<1>4. Writing' = IF j.at \in Writers THEN Writing \cup {r} ELSE Writing \ {r}
    BY <1>1, <1>2 DEF Writing
<1>5. r \in Writing <=> job[r].at \in Writers
    BY DEF Writing
<1>6. IsFiniteSet(Writing) /\ Cardinality(Writing) \in Nat
    BY FS_CardinalityType DEF CatInv, WritesFit
<1>7. IsFiniteSet(Writing \cup {r})
      /\ Cardinality(Writing \cup {r}) = IF r \in Writing THEN Cardinality(Writing)
                                         ELSE Cardinality(Writing) + 1
    BY <1>6, FS_AddElement
<1>8. IsFiniteSet(Writing \ {r})
      /\ Cardinality(Writing \ {r}) = IF r \in Writing THEN Cardinality(Writing) - 1
                                      ELSE Cardinality(Writing)
    BY <1>6, FS_RemoveElement
<1>9. IsFiniteSet(Writing') /\ Cardinality(Writing') \in Nat
      /\ Cardinality(Writing') + Flag(job[r]) = Cardinality(Writing) + Flag(j)
    <2>1. CASE j.at \in Writers
        BY <2>1, <1>4, <1>5, <1>6, <1>7 DEF Flag
    <2>2. CASE j.at \notin Writers
        <3>1. Writing' = Writing \ {r} /\ Flag(j) = 0
            BY <2>2, <1>4 DEF Flag
        <3>2. Cardinality(Writing \ {r}) \in Nat
            BY <1>8, FS_CardinalityType
        <3>. QED
            BY <3>1, <3>2, <1>5, <1>6, <1>8 DEF Flag
    <2>. QED
        BY <2>1, <2>2
<1>10. Flag(j) \in Nat /\ Flag(job[r]) \in Nat /\ made \in Nat /\ version \in Nat
    BY DEF Flag, CatInv
<1>11. version' + Cardinality(Writing') <= made'
    BY <1>6, <1>9, <1>10 DEF CatInv, WritesFit
<1>. QED
    BY <1>1, <1>3, <1>9, <1>11 DEF WritesFit

\* The version fits, also the one that a writing job is about to store.
LEMMA Room ==
    ASSUME CatInv
    PROVE  /\ version \in 0..MaxRequests
           /\ \A r \in Request : job[r].at \in Writers => version + 1 \in 0..MaxRequests
<1>1. IsFiniteSet(Writing) /\ Cardinality(Writing) \in Nat
    BY FS_CardinalityType DEF CatInv, WritesFit
<1>2. ASSUME NEW r \in Request, job[r].at \in Writers
      PROVE  Cardinality(Writing) >= 1
    <2>1. r \in Writing
        BY <1>2 DEF Writing
    <2>2. Cardinality(Writing) # 0
        BY <1>1, <2>1, FS_EmptySet
    <2>. QED
        BY <1>1, <2>2
<1>. QED
    BY <1>1, <1>2, CatalogueAssumption DEF CatInv, WritesFit

\* A handler goes on, with or without its write behind it, or ends.
LEMMA WentOn ==
    ASSUME CatInv, NEW r \in Request, NEW j, JobOK(j), GoOn(r, j), made' = made,
           \/ version' = version /\ (j.at \in Writers => job[r].at \in Writers)
           \/ version' = version + 1 /\ job[r].at \in Writers /\ j.at \notin Writers
    PROVE  JobsOK' /\ WritesFit' /\ job'[r] = j
<1>1. (version' + Flag(j)) + made <= (version + Flag(job[r])) + made'
    BY DEF Flag, CatInv
<1>2. job' = [job EXCEPT ![r] = j] /\ made' \in Nat /\ version' \in Nat
    BY DEF GoOn, CatInv
<1>. QED
    BY <1>1, <1>2, Changed

LEMMA Finished ==
    ASSUME CatInv, NEW r \in Request, Finish(r), made' = made,
           \/ version' = version
           \/ version' = version + 1 /\ job[r].at \in Writers
    PROVE  JobsOK' /\ WritesFit' /\ job'[r] = Rest
BY WentOn, RestOK DEF Finish, Writers

\* What a request carries when its handler begins.
LEMMA Begun ==
    ASSUME CatInv, NEW r \in Request, NEW op \in AllOps, NEW j \in Job,
           Begin(r, op, j), version' \in Nat,
           version' + Flag(j) <= version + 1,
           j.at \in {"refresh", "check"} => j.saw # NoCopy,
           j.at = "invalidate" => op # "update",
           j.at \in {"insert", "enrol", "add", "pull", "check"} => j.who # NoOne,
           op = "start" => j.who # NoOne
    PROVE  /\ JobsOK' /\ WritesFit' /\ job'[r] = [j EXCEPT !.op = op]
           /\ made' \in 0..MaxRequests
<1>. DEFINE k == [j EXCEPT !.op = op]
<1>1. /\ k \in Job /\ k.op = op /\ k.at = j.at /\ k.saw = j.saw /\ k.who = j.who
    BY DEF Job
<1>2. op # "none" /\ Rest.op = "none"
    BY DEF AllOps, Rest
<1>3. JobOK(k)
    BY <1>1, <1>2 DEF JobOK
<1>4. job' = [job EXCEPT ![r] = k] /\ made' = made + 1 /\ job[r] = Rest
    BY DEF Begin
<1>5. Flag(k) = Flag(j) /\ Flag(j) \in Nat
    BY <1>1 DEF Flag
<1>6. made' \in 0..MaxRequests
    BY <1>4, CatalogueAssumption DEF Begin, CatInv
<1>7. (version' + Flag(k)) + made <= (version + Flag(job[r])) + made'
    BY <1>4, <1>5, RestOK DEF CatInv
<1>8. made' \in Nat
    BY <1>6
<1>9. JobsOK' /\ WritesFit' /\ job'[r] = k
    BY <1>3, <1>4, <1>7, <1>8, Changed
<1>. QED
    BY <1>6, <1>9

\* A beginning that writes nothing yet.
LEMMA BegunOnly ==
    ASSUME CatInv, NEW r \in Request, NEW op \in AllOps, NEW j \in Job,
           Begin(r, op, j), version' = version,
           j.at \in {"refresh", "check"} => j.saw # NoCopy,
           j.at = "invalidate" => op # "update",
           j.at \in {"insert", "enrol", "add", "pull", "check"} => j.who # NoOne,
           op = "start" => j.who # NoOne
    PROVE  JobsOK' /\ WritesFit' /\ made' \in 0..MaxRequests
<1>1. version' \in Nat /\ version' + Flag(j) <= version + 1
    BY DEF Flag, CatInv
<1>. QED
    BY <1>1, Begun

LEMMA DoneAtOnce ==
    ASSUME CatInv, NEW r \in Request, NEW op, AtOnce(r, op),
           version' = version + 1
    PROVE  JobsOK' /\ WritesFit' /\ made' \in 0..MaxRequests
<1>1. job' = [job EXCEPT ![r] = Rest] /\ job[r] = Rest /\ made' = made + 1
    BY DEF AtOnce, CatInv, JobsOK
<1>2. made' \in 0..MaxRequests
    BY <1>1, CatalogueAssumption DEF AtOnce, CatInv
<1>3. (version' + Flag(Rest)) + made <= (version + Flag(job[r])) + made'
    BY <1>1, RestOK DEF CatInv
<1>4. made' \in Nat /\ version' \in Nat
    BY <1>2 DEF CatInv
<1>. QED
    BY <1>1, <1>2, <1>3, <1>4, RestOK, Changed

LEMMA StoredOK ==
    ASSUME CatInv, NEW op \in AllOps, NEW d \in Doc \cup {NoDoc}, Store(op, d)
    PROVE  /\ doc' \in Doc \cup {NoDoc} /\ version' = version + 1 /\ version' \in Nat
           /\ writtenBy' \in [1..MaxRequests -> AllOps \cup {"none"}]
<1>1. writtenBy' = [writtenBy EXCEPT ![version + 1] = op] /\ op \in AllOps \cup {"none"}
    BY DEF Store
<1>2. writtenBy' \in [1..MaxRequests -> AllOps \cup {"none"}]
    BY <1>1 DEF CatInv
<1>. QED
    BY <1>2 DEF CatInv, Store

LEMMA WrittenOK ==
    ASSUME CatInv, NEW r \in Request, job[r].at \in Writers, NEW d \in Doc
    PROVE  Written(d) \in Copy
<1>1. version + 1 \in 0..MaxRequests
    BY Room
<1>2. d.status \in Status
    BY DEF Doc
<1>. QED
    BY <1>1, <1>2 DEF Written, Copy

-----------------------------------------------------------------------------
(* Every step keeps the invariant *)

\* Parts that the handlers share.
LEMMA SharedStep ==
    ASSUME CatInv, NEW r \in Request,
           \/ \E e \in Student : Lookup(r, e)
           \/ Refresh(r) \/ Invalidate(r) \/ Fail(r)
    PROVE  CatInv'
<1>1. ASSUME NEW e \in Student, Lookup(r, e) PROVE CatInv'
    <2>1. job[r] \in Job /\ job[r].op # "none" /\ job[r].at = "lists"
        BY <1>1, Busy DEF Lookup
    <2>. DEFINE found  == [job[r] EXCEPT !.todo = @ \ {e}, !.assigned = @ \cup {e}]
                absent == [job[r] EXCEPT !.todo = @ \ {e}, !.invited = @ \cup {e}]
    <2>2. /\ found \in Job /\ found.op = job[r].op /\ found.at = "lists"
          /\ found.who = job[r].who
        BY <2>1 DEF Job
    <2>3. /\ absent \in Job /\ absent.op = job[r].op /\ absent.at = "lists"
          /\ absent.who = job[r].who
        BY <2>1 DEF Job
    <2>4. PICK j : JobOK(j) /\ j.at = "lists" /\ GoOn(r, j)
        <3>1. JobOK(found) /\ JobOK(absent)
            BY <1>1, Busy, <2>1, <2>2, <2>3, OnItsWay DEF JobOK
        <3>. QED
            BY <1>1, <2>2, <2>3, <3>1 DEF Lookup
    <2>5. JobsOK' /\ WritesFit'
        BY <1>1, <2>1, <2>4, WentOn DEF Lookup, NoWrite
    <2>. QED
        BY <1>1, <2>5 DEF Lookup, NoWrite, CatInv
<1>2. CASE Refresh(r)
    <2>1. job[r] \in Job /\ job[r].op # "none" /\ job[r].at = "refresh"
          /\ JobOK(job[r])
        BY <1>2, Busy DEF Refresh
    <2>2. job[r].saw \in Copy
        BY <2>1 DEF JobOK, Job
    <2>3. CASE job[r].op = "start"
        <3>. DEFINE k == [job[r] EXCEPT !.at = "check"]
        <3>1. k \in Job /\ k.op = job[r].op /\ k.at = "check" /\ k.saw = job[r].saw
              /\ k.who = job[r].who
            BY <2>1 DEF Job, Step
        <3>2. JobOK(k) /\ k.at \notin Writers
            BY <2>1, <2>2, <2>3, <3>1, OnItsWay DEF JobOK, Writers
        <3>3. JobsOK' /\ WritesFit'
            BY <1>2, <2>3, <3>2, WentOn DEF Refresh, NoWrite
        <3>. QED
            BY <1>2, <2>2, <3>3 DEF Refresh, NoWrite, CatInv
    <2>4. CASE job[r].op # "start"
        <3>1. JobsOK' /\ WritesFit'
            BY <1>2, <2>4, Finished DEF Refresh, NoWrite
        <3>. QED
            BY <1>2, <2>2, <3>1 DEF Refresh, NoWrite, CatInv
    <2>. QED
        BY <2>3, <2>4
<1>3. CASE Invalidate(r)
    <2>1. job[r] \in Job /\ job[r].op # "none" /\ job[r].at = "invalidate"
          /\ JobOK(job[r])
        BY <1>3, Busy DEF Invalidate
    <2>2. CASE job[r].op = "update"
        <3>. DEFINE k == [job[r] EXCEPT !.at = "refresh"]
        <3>1. k \in Job /\ k.op = job[r].op /\ k.at = "refresh" /\ k.saw = job[r].saw
            BY <2>1 DEF Job, Step
        <3>2. JobOK(k) /\ k.at \notin Writers
            BY <2>1, <2>2, <3>1, OnItsWay DEF JobOK, Writers
        <3>3. JobsOK' /\ WritesFit'
            BY <1>3, <2>2, <3>2, WentOn DEF Invalidate, NoWrite
        <3>. QED
            BY <1>3, <3>3 DEF Invalidate, NoWrite, CatInv
    <2>3. CASE job[r].op # "update"
        <3>1. JobsOK' /\ WritesFit'
            BY <1>3, <2>3, Finished DEF Invalidate, NoWrite
        <3>. QED
            BY <1>3, <3>1 DEF Invalidate, NoWrite, CatInv
    <2>. QED
        BY <2>2, <2>3
<1>4. CASE Fail(r)
    <2>1. JobsOK' /\ WritesFit'
        BY <1>4, Finished DEF Fail, NoWrite
    <2>. QED
        BY <1>4, <2>1 DEF Fail, NoWrite, CatInv
<1>. QED
    BY <1>1, <1>2, <1>3, <1>4

\* Begin with users and e-mails.
LEMMA ListsStep ==
    ASSUME CatInv, NEW r \in Request,
           \/ \E users \in SUBSET Active, emails \in SUBSET Student :
                  CreateBegins(r, users, emails)
           \/ \E users \in Users, colleges \in Colleges, emails \in Emails :
                  UpdateBegins(r, users, colleges, emails)
           \/ \E users \in SUBSET Active : AssignBegins(r, users)
    PROVE  CatInv'
<1>1. Active \subseteq Student
    BY DEF Active
<1>2. ASSUME NEW users \in SUBSET Active, NEW emails \in SUBSET Student,
             CreateBegins(r, users, emails)
      PROVE  CatInv'
    <2>. DEFINE j == [Rest EXCEPT !.at = "lists", !.assigned = users,
                                  !.invited = emails, !.todo = emails]
    <2>1. j \in Job /\ j.at = "lists"
        BY <1>1 DEF Rest, Job, Step
    <2>2. Begin(r, "create", j) /\ version' = version
        BY <1>2 DEF CreateBegins, NoWrite
    <2>3. JobsOK' /\ WritesFit' /\ made' \in 0..MaxRequests
        BY <2>1, <2>2, BegunOnly DEF AllOps
    <2>. QED
        BY <1>2, <2>3 DEF CreateBegins, NoWrite, CatInv
<1>3. ASSUME NEW users \in Users, NEW colleges \in Colleges, NEW emails \in Emails,
             UpdateBegins(r, users, colleges, emails)
      PROVE  CatInv'
    <2>. DEFINE base    == IF users = Keep THEN doc.assigned ELSE users
                cleared == users = {} /\ colleges = {}
                check   == IF emails # Keep THEN emails
                           ELSE IF cleared THEN {} ELSE doc.invited
                j == [Rest EXCEPT !.at = "lists", !.assigned = base \cup colleges,
                                  !.todo = check]
    <2>1. doc \in Doc
        BY <1>3 DEF UpdateBegins, CatInv
    <2>2. doc.assigned \subseteq Student /\ doc.invited \subseteq Student
        BY <2>1 DEF Doc
    <2>3. base \subseteq Student /\ colleges \subseteq Student /\ check \subseteq Student
        BY <1>1, <2>2 DEF Users, Colleges, Emails
    <2>4. base \cup colleges \in SUBSET Student /\ check \in SUBSET Student
        BY <2>3
    <2>5. j \in Job /\ j.at = "lists"
        <3>. HIDE DEF base, check
        <3>. QED
            BY <2>4 DEF Rest, Job, Step
    <2>6. Begin(r, "update", j) /\ version' = version
        BY <1>3 DEF UpdateBegins, NoWrite
    <2>7. JobsOK' /\ WritesFit' /\ made' \in 0..MaxRequests
        <3>. HIDE DEF j
        <3>. QED
            BY <2>5, <2>6, BegunOnly DEF AllOps
    <2>. QED
        BY <1>3, <2>7 DEF UpdateBegins, NoWrite, CatInv
<1>4. ASSUME NEW users \in SUBSET Active, AssignBegins(r, users)
      PROVE  CatInv'
    <2>. DEFINE j == [Rest EXCEPT !.at = "assign", !.assigned = users]
    <2>1. j \in Job /\ j.at = "assign"
        BY <1>1 DEF Rest, Job, Step
    <2>2. Begin(r, "assign", j) /\ version' = version
        BY <1>4 DEF AssignBegins, NoWrite
    <2>3. JobsOK' /\ WritesFit' /\ made' \in 0..MaxRequests
        BY <2>1, <2>2, BegunOnly DEF AllOps
    <2>. QED
        BY <1>4, <2>3 DEF AssignBegins, NoWrite, CatInv
<1>. QED
    BY <1>2, <1>3, <1>4

\* The other beginnings.
LEMMA BeginsStep ==
    ASSUME CatInv, NEW r \in Request,
           \/ ActivateBegins(r) \/ QuestionBegins(r) \/ ViewBegins(r)
           \/ \E s \in Student :
                  StartBegins(r, s) \/ RegisterBegins(r, s) \/ RemoveBegins(r, s)
    PROVE  CatInv'
<1>1. CASE ActivateBegins(r)
    <2>. DEFINE j == [Rest EXCEPT !.at = "activate"]
    <2>1. j \in Job /\ j.at = "activate"
        BY DEF Rest, Job, Step
    <2>2. JobsOK' /\ WritesFit' /\ made' \in 0..MaxRequests
        BY <1>1, <2>1, BegunOnly DEF AllOps, ActivateBegins, NoWrite
    <2>. QED
        BY <1>1, <2>2 DEF ActivateBegins, NoWrite, CatInv
<1>2. CASE QuestionBegins(r)
    <2>. DEFINE j == [Rest EXCEPT !.at = "question"]
    <2>1. j \in Job /\ j.at = "question"
        BY DEF Rest, Job, Step
    <2>2. JobsOK' /\ WritesFit' /\ made' \in 0..MaxRequests
        BY <1>2, <2>1, BegunOnly DEF AllOps, QuestionBegins, NoWrite
    <2>. QED
        BY <1>2, <2>2 DEF QuestionBegins, NoWrite, CatInv
<1>3. CASE ViewBegins(r)
    <2>. DEFINE j == [Rest EXCEPT !.at = "fetch"]
    <2>1. j \in Job /\ j.at = "fetch"
        BY DEF Rest, Job, Step
    <2>2. JobsOK' /\ WritesFit' /\ made' \in 0..MaxRequests
        BY <1>3, <2>1, BegunOnly DEF AllOps, ViewBegins, NoWrite
    <2>. QED
        BY <1>3, <2>2 DEF ViewBegins, NoWrite, CatInv
<1>4. ASSUME NEW s \in Student, StartBegins(r, s) PROVE CatInv'
    <2>. DEFINE j == [Rest EXCEPT !.who = s, !.saw = copy,
                           !.at = IF copy = NoCopy THEN "fetch" ELSE "check"]
    <2>1. /\ j \in Job /\ j.who # NoOne /\ j.saw = copy
          /\ j.at = IF copy = NoCopy THEN "fetch" ELSE "check"
        BY CatalogueAssumption DEF Rest, Job, Step, CatInv
    <2>2. Begin(r, "start", j) /\ version' = version
        BY <1>4 DEF StartBegins, NoWrite
    <2>3. JobsOK' /\ WritesFit' /\ made' \in 0..MaxRequests
        <3>. HIDE DEF j
        <3>. QED
            BY <2>1, <2>2, BegunOnly DEF AllOps
    <2>. QED
        BY <1>4, <2>3 DEF StartBegins, NoWrite, CatInv
<1>5. ASSUME NEW s \in Student, RegisterBegins(r, s) PROVE CatInv'
    <2>. DEFINE j == [Rest EXCEPT !.at = "insert", !.who = s]
    <2>1. j \in Job /\ j.who # NoOne /\ j.at = "insert"
        BY CatalogueAssumption DEF Rest, Job, Step
    <2>2. JobsOK' /\ WritesFit' /\ made' \in 0..MaxRequests
        BY <1>5, <2>1, BegunOnly DEF AllOps, RegisterBegins, NoWrite
    <2>. QED
        BY <1>5, <2>2 DEF RegisterBegins, NoWrite, CatInv
<1>6. ASSUME NEW s \in Student, RemoveBegins(r, s) PROVE CatInv'
    <2>. DEFINE j == [Rest EXCEPT !.at = "pull", !.who = s]
    <2>1. j \in Job /\ j.who # NoOne /\ j.at = "pull"
        BY CatalogueAssumption DEF Rest, Job, Step
    <2>2. JobsOK' /\ WritesFit' /\ made' \in 0..MaxRequests
        BY <1>6, <2>1, BegunOnly DEF AllOps, RemoveBegins, NoWrite
    <2>3. account' \in [Student -> {"none", "active", "deleted"}]
        BY <1>6 DEF RemoveBegins, CatInv
    <2>. QED
        BY <1>6, <2>2, <2>3 DEF RemoveBegins, NoWrite, CatInv
<1>. QED
    BY <1>1, <1>2, <1>3, <1>4, <1>5, <1>6

\* A handler stores the assessment, or finds it gone, and ends.
LEMMA LastWrite ==
    ASSUME CatInv, NEW r \in Request, job[r].at \in Writers, Finish(r),
           UNCHANGED <<copy, account, made, admitted>>,
           NoWrite \/ \E op \in AllOps, d \in Doc \cup {NoDoc} : Store(op, d)
    PROVE  CatInv'
<1>1. CASE NoWrite
    <2>1. JobsOK' /\ WritesFit'
        BY <1>1, Finished DEF NoWrite
    <2>. QED
        BY <1>1, <2>1 DEF NoWrite, CatInv
<1>2. ASSUME NEW op \in AllOps, NEW d \in Doc \cup {NoDoc}, Store(op, d)
      PROVE  CatInv'
    <2>1. /\ doc' \in Doc \cup {NoDoc} /\ version' = version + 1 /\ version' \in Nat
          /\ writtenBy' \in [1..MaxRequests -> AllOps \cup {"none"}]
        BY <1>2, StoredOK
    <2>2. JobsOK' /\ WritesFit'
        BY <2>1, Finished
    <2>. QED
        BY <2>1, <2>2 DEF CatInv
<1>. QED
    BY <1>1, <1>2

\* A handler stores the assessment and goes on to the cache.
LEMMA WriteAndCache ==
    ASSUME CatInv, NEW r \in Request, job[r].at \in Writers,
           NEW op \in AllOps, NEW d \in Doc, Store(op, d),
           NEW at \in {"invalidate", "refresh"},
           GoOn(r, [job[r] EXCEPT !.at = at, !.saw = Written(d)]),
           UNCHANGED <<copy, account, made, admitted>>
    PROVE  CatInv'
<1>. DEFINE j == [job[r] EXCEPT !.at = at, !.saw = Written(d)]
<1>1. job[r] \in Job /\ job[r].op # "none" /\ JobOK(job[r])
    BY Busy DEF Writers
<1>2. Written(d) \in Copy /\ Written(d) # NoCopy
    BY WrittenOK, CatalogueNothing
<1>3. /\ j \in Job /\ j.op = job[r].op /\ j.at = at /\ j.saw = Written(d)
      /\ j.who = job[r].who
    BY <1>1, <1>2 DEF Job, Step
<1>4. JobOK(j) /\ j.at \notin Writers
    <2>. HIDE DEF j
    <2>. QED
        BY <1>1, <1>2, <1>3, OnItsWay DEF JobOK, Writers
<1>5. /\ doc' \in Doc \cup {NoDoc} /\ version' = version + 1 /\ version' \in Nat
      /\ writtenBy' \in [1..MaxRequests -> AllOps \cup {"none"}]
    BY StoredOK
<1>6. JobsOK' /\ WritesFit'
    <2>1. GoOn(r, j)
        OBVIOUS
    <2>. HIDE DEF j
    <2>. QED
        BY <1>4, <1>5, <2>1, WentOn
<1>. QED
    BY <1>5, <1>6 DEF CatInv

\* Writes of the assessment.
LEMMA WritesStep ==
    ASSUME CatInv, NEW r \in Request,
           \/ Create(r) \/ Assign(r) \/ AddQuestion(r) \/ Enrol(r) \/ Remove(r)
           \/ \E status \in Statuses : Update(r, status)
           \/ Activate(r) \/ Deactivate(r) \/ Delete(r)
    PROVE  CatInv'
<1>1. job[r] \in Job /\ job[r].assigned \subseteq Student /\ job[r].invited \subseteq Student
    BY DEF CatInv, JobsOK, Job
<1>2. doc \in Doc \cup {NoDoc}
    BY DEF CatInv
<1>3. CASE Create(r)
    <2>1. [status |-> "active", assigned |-> job[r].assigned,
           invited |-> job[r].invited] \in Doc
        BY <1>1 DEF Doc, Status
    <2>. QED
        BY <1>3, <2>1, LastWrite DEF Create, AllOps, Writers
<1>4. CASE Assign(r)
    <2>1. doc # NoDoc => [doc EXCEPT !.assigned = job[r].assigned] \in Doc
        BY <1>1, <1>2 DEF Doc
    <2>. QED
        BY <1>4, <2>1, LastWrite DEF Assign, AllOps, Writers
<1>5. CASE AddQuestion(r)
    BY <1>2, <1>5, LastWrite DEF AddQuestion, AllOps, Writers
<1>6. CASE Enrol(r)
    <2>1. doc # NoDoc => [doc EXCEPT !.assigned = job[r].assigned,
                                     !.invited = job[r].invited] \in Doc
        BY <1>1, <1>2 DEF Doc
    <2>. QED
        BY <1>6, <2>1, LastWrite DEF Enrol, AllOps, Writers
<1>7. CASE Remove(r)
    <2>1. doc # NoDoc => [doc EXCEPT !.assigned = @ \ {job[r].who}] \in Doc
        BY <1>2 DEF Doc
    <2>. QED
        BY <1>7, <2>1, LastWrite DEF Remove, AllOps, Writers
<1>8. ASSUME NEW status \in Statuses, Update(r, status) PROVE CatInv'
    <2>1. CASE doc = NoDoc
        BY <1>8, <2>1, LastWrite DEF Update, Writers
    <2>2. CASE doc # NoDoc
        <3>. DEFINE new == [doc EXCEPT !.assigned = job[r].assigned,
                                       !.invited = job[r].invited,
                                       !.status = IF status = Keep THEN @ ELSE status]
        <3>1. new \in Doc
            BY <1>1, <1>2, <2>2 DEF Doc, Statuses, Status
        <3>2. /\ job[r].at \in Writers /\ Store("update", new)
              /\ GoOn(r, [job[r] EXCEPT !.at = "invalidate", !.saw = Written(new)])
              /\ UNCHANGED <<copy, account, made, admitted>>
            BY <1>8, <2>2 DEF Update, Writers
        <3>. HIDE DEF new
        <3>. QED
            BY <3>1, <3>2, WriteAndCache DEF AllOps
    <2>. QED
        BY <2>1, <2>2
<1>9. CASE Activate(r)
    <2>1. CASE doc = NoDoc
        BY <1>9, <2>1, LastWrite DEF Activate, Writers
    <2>2. CASE doc # NoDoc
        <3>. DEFINE new == [doc EXCEPT !.status = "active"]
        <3>1. new \in Doc
            BY <1>2, <2>2 DEF Doc, Status
        <3>2. /\ job[r].at \in Writers /\ Store("activate", new)
              /\ GoOn(r, [job[r] EXCEPT !.at = "refresh", !.saw = Written(new)])
              /\ UNCHANGED <<copy, account, made, admitted>>
            BY <1>9, <2>2 DEF Activate, Writers
        <3>. HIDE DEF new
        <3>. QED
            BY <3>1, <3>2, WriteAndCache DEF AllOps
    <2>. QED
        BY <2>1, <2>2
<1>10. CASE Deactivate(r)
    <2>1. [doc EXCEPT !.status = "inactive"] \in Doc
        BY <1>2, <1>10 DEF Deactivate, Doc, Status
    <2>2. /\ doc' \in Doc \cup {NoDoc} /\ version' = version + 1 /\ version' \in Nat
          /\ writtenBy' \in [1..MaxRequests -> AllOps \cup {"none"}]
        BY <1>10, <2>1, StoredOK DEF Deactivate, AllOps
    <2>3. JobsOK' /\ WritesFit' /\ made' \in 0..MaxRequests
        BY <1>10, <2>2, DoneAtOnce DEF Deactivate
    <2>. QED
        BY <1>10, <2>2, <2>3 DEF Deactivate, CatInv
<1>11. CASE Delete(r)
    <2>. DEFINE j == [Rest EXCEPT !.at = "invalidate"]
    <2>1. j \in Job /\ j.at = "invalidate"
        BY DEF Rest, Job, Step
    <2>2. /\ doc' \in Doc \cup {NoDoc} /\ version' = version + 1 /\ version' \in Nat
          /\ writtenBy' \in [1..MaxRequests -> AllOps \cup {"none"}]
        BY <1>11, StoredOK DEF Delete, AllOps
    <2>3. version' + Flag(j) <= version + 1
        BY <2>1, <2>2 DEF Flag, Writers, CatInv
    <2>4. Begin(r, "delete", j)
        BY <1>11 DEF Delete
    <2>5. JobsOK' /\ WritesFit' /\ made' \in 0..MaxRequests
        <3>. HIDE DEF j
        <3>. QED
            BY <2>1, <2>2, <2>3, <2>4, Begun DEF AllOps
    <2>. QED
        BY <1>11, <2>2, <2>5 DEF Delete, CatInv
<1>. QED
    BY <1>3, <1>4, <1>5, <1>6, <1>7, <1>8, <1>9, <1>10, <1>11

\* Reads of the assessment, and the account of a registration.
LEMMA ReadsStep ==
    ASSUME CatInv, NEW r \in Request,
           Fetch(r) \/ Check(r) \/ Register(r) \/ Invited(r)
    PROVE  CatInv'
<1>1. job[r] \in Job /\ job[r].op # "none" /\ JobOK(job[r])
    BY Busy DEF Fetch, Check, Register, Invited
<1>2. CASE Fetch(r)
    <2>1. CASE doc = NoDoc
        <3>1. JobsOK' /\ WritesFit'
            BY <1>2, <2>1, Finished DEF Fetch, NoWrite
        <3>. QED
            BY <1>2, <3>1 DEF Fetch, NoWrite, CatInv
    <2>2. CASE doc # NoDoc
        <3>. DEFINE c == [version |-> version, status |-> doc.status]
                    j == [job[r] EXCEPT !.at = "refresh", !.saw = c]
        <3>1. doc \in Doc /\ doc.status \in Status
            BY <2>2 DEF CatInv, Doc
        <3>2. c \in Copy /\ c # NoCopy
            BY <3>1, Room, CatalogueNothing DEF Copy
        <3>3. /\ j \in Job /\ j.op = job[r].op /\ j.at = "refresh" /\ j.saw = c
              /\ j.who = job[r].who
            BY <1>1, <3>2 DEF Job, Step
        <3>4. GoOn(r, j)
            BY <1>2, <2>2 DEF Fetch
        <3>. HIDE DEF j, c
        <3>5. JobOK(j) /\ j.at \notin Writers
            BY <1>1, <3>2, <3>3, OnItsWay DEF JobOK, Writers
        <3>6. JobsOK' /\ WritesFit'
            BY <1>2, <3>4, <3>5, WentOn DEF Fetch, NoWrite
        <3>. QED
            BY <1>2, <3>6 DEF Fetch, NoWrite, CatInv
    <2>. QED
        BY <2>1, <2>2
<1>3. CASE Check(r)
    <2>1. JobsOK' /\ WritesFit'
        BY <1>3, Finished DEF Check, NoWrite
    <2>2. job[r].who \in Student
        BY <1>1, <1>3 DEF Check, JobOK, Job
    <2>3. admitted' \subseteq Student
        BY <1>3, <2>2 DEF Check, CatInv
    <2>. QED
        BY <1>3, <2>1, <2>3 DEF Check, NoWrite, CatInv
<1>4. CASE Register(r)
    <2>1. CASE account[job[r].who] = "none"
        <3>. DEFINE j == [job[r] EXCEPT !.at = "enrol"]
        <3>1. /\ j \in Job /\ j.op = job[r].op /\ j.at = "enrol"
              /\ j.who = job[r].who
            BY <1>1 DEF Job, Step
        <3>2. GoOn(r, j) /\ job[r].at = "insert"
            BY <1>4, <2>1 DEF Register
        <3>. HIDE DEF j
        <3>3. JobOK(j)
            BY <1>1, <3>1, <3>2, OnItsWay DEF JobOK
        <3>4. JobsOK' /\ WritesFit'
            BY <1>4, <3>1, <3>2, <3>3, WentOn DEF Register, NoWrite, Writers
        <3>5. account' \in [Student -> {"none", "active", "deleted"}]
            BY <1>4, <2>1 DEF Register, CatInv
        <3>. QED
            BY <1>4, <3>4, <3>5 DEF Register, NoWrite, CatInv
    <2>2. CASE account[job[r].who] # "none"
        <3>1. JobsOK' /\ WritesFit'
            BY <1>4, <2>2, Finished DEF Register, NoWrite
        <3>. QED
            BY <1>4, <2>2, <3>1 DEF Register, NoWrite, CatInv
    <2>. QED
        BY <2>1, <2>2
<1>5. CASE Invited(r)
    <2>1. CASE Finish(r)
        <3>1. JobsOK' /\ WritesFit'
            BY <1>5, <2>1, Finished DEF Invited, NoWrite
        <3>. QED
            BY <1>5, <3>1 DEF Invited, NoWrite, CatInv
    <2>2. CASE ~Finish(r)
        <3>. DEFINE j == [job[r] EXCEPT !.at = "add",
                            !.assigned = doc.assigned \cup {job[r].who},
                            !.invited = doc.invited \ {job[r].who}]
        <3>1. doc # NoDoc /\ GoOn(r, j) /\ job[r].at = "enrol"
            BY <1>5, <2>2 DEF Invited
        <3>2. doc.assigned \subseteq Student /\ doc.invited \subseteq Student
            BY <3>1 DEF CatInv, Doc
        <3>3. job[r].who \in Student /\ job[r].who # NoOne
            BY <1>1, <3>1 DEF JobOK, Job
        <3>4. /\ doc.assigned \cup {job[r].who} \in SUBSET Student
              /\ doc.invited \ {job[r].who} \in SUBSET Student
            BY <3>2, <3>3
        <3>5. /\ j \in Job /\ j.op = job[r].op /\ j.at = "add"
              /\ j.who = job[r].who
            BY <1>1, <3>4 DEF Job, Step
        <3>. HIDE DEF j
        <3>6. JobOK(j)
            BY <1>1, <3>3, <3>5, OnItsWay DEF JobOK
        <3>7. JobsOK' /\ WritesFit'
            BY <1>5, <3>1, <3>5, <3>6, WentOn DEF Invited, NoWrite, Writers
        <3>. QED
            BY <1>5, <3>7 DEF Invited, NoWrite, CatInv
    <2>. QED
        BY <2>1, <2>2
<1>. QED
    BY <1>2, <1>3, <1>4, <1>5

LEMMA CatInvStarts == CatalogueInit => CatInv
<1>. SUFFICES ASSUME CatalogueInit PROVE CatInv
    OBVIOUS
<1>1. JobsOK
    BY RestOK DEF CatalogueInit, JobsOK, JobOK
<1>2. Writing = {}
    BY RestOK DEF CatalogueInit, Writing, Writers
<1>3. WritesFit
    BY <1>2, FS_EmptySet DEF WritesFit, CatalogueInit
<1>4. /\ doc \in Doc \cup {NoDoc} /\ version \in Nat
      /\ writtenBy \in [1..MaxRequests -> AllOps \cup {"none"}]
      /\ copy \in Copy \cup {NoCopy} /\ admitted \subseteq Student
      /\ account \in [Student -> {"none", "active", "deleted"}]
      /\ made \in 0..MaxRequests
    BY CatalogueAssumption DEF CatalogueInit
<1>. QED
    BY <1>1, <1>3, <1>4 DEF CatInv

LEMMA CatInvKept == CatInv /\ [CatalogueNext]_catVars => CatInv'
<1>. SUFFICES ASSUME CatInv, [CatalogueNext]_catVars PROVE CatInv'
    OBVIOUS
<1>1. ASSUME NEW r \in Request, Write(r) PROVE CatInv'
    BY <1>1, ListsStep, BeginsStep, WritesStep DEF Write
<1>2. ASSUME NEW r \in Request, View(r) PROVE CatInv'
    BY <1>2, BeginsStep, ReadsStep DEF View
<1>3. ASSUME NEW r \in Request, Account(r) PROVE CatInv'
    BY <1>3, BeginsStep, WritesStep, ReadsStep DEF Account
<1>4. CASE UNCHANGED catVars
    BY <1>4 DEF catVars, CatInv, JobsOK, WritesFit, Writing
<1>. QED
    BY <1>1, <1>2, <1>3, <1>4, SharedStep DEF CatalogueNext

LEMMA CatInvHolds == CatalogueSpec => []CatInv
BY CatInvStarts, CatInvKept, PTL DEF CatalogueSpec

\* The assessment, its copy, the accounts and what every request carries keep
\* their types, and the versions never outgrow the requests: a handler of
\* AssessmentService writes the assessment at most once.
THEOREM CatTypeCorrect == CatalogueSpec => []CatTypeOK
<1>1. CatInv => CatTypeOK
    BY Room DEF CatInv, JobsOK, JobOK, CatTypeOK
<1>. QED
    BY <1>1, CatInvHolds, PTL

-----------------------------------------------------------------------------
(* Requests without lists of their own *)

Gone == {s \in Student : account[s] = "deleted"}

OnLists == doc.assigned \cup doc.invited

\* The students that a request will write back, and the requests that will.
Held(j) == j.assigned \cup j.invited \cup (IF j.at = "lists" THEN j.todo ELSE {})

Carrying(j) == (j.at = "lists" /\ j.op # "create") \/ j.at = "add"

\* However many requests read the lists, awaited and write them back, they all
\* hold the same students, but for deleted accounts.
Agrees(j) ==
    /\ j.at # "assign"
    /\ j.at = "pull" => j.who \in Gone
    /\ Carrying(j) => /\ version # 0
                      /\ doc # NoDoc => Held(j) \ Gone = OnLists \ Gone

KeptInv ==
    /\ version = 0 => doc = NoDoc
    /\ \A r \in Request : Agrees(job[r])

\* No step takes a student with an account off both lists.
Keeps == doc # NoDoc /\ doc' # NoDoc => OnLists' \ Gone' = OnLists \ Gone'

\* One slot changes, and the stored lists at most by deleted accounts.
LEMMA SlotAgrees ==
    ASSUME CatInv, KeptInv, NEW r \in Request, NEW j,
           job' = [job EXCEPT ![r] = j], Agrees(j)',
           Gone \subseteq Gone', version' \in {version, version + 1}, Keeps,
           doc' # NoDoc => version' # 0,
           doc = NoDoc /\ doc' # NoDoc => version = 0
    PROVE  KeptInv'
<1>1. version \in Nat
    BY DEF CatInv
<1>2. ASSUME NEW q \in Request, q # r
      PROVE  Agrees(job[q])'
    <2>1. job'[q] = job[q] /\ Agrees(job[q])
        BY <1>2 DEF CatInv, JobsOK, KeptInv
    <2>2. Carrying(job[q]) => version' # 0
        BY <1>1, <2>1 DEF Agrees
    <2>3. ASSUME Carrying(job[q]), doc' # NoDoc
          PROVE  Held(job[q]) \ Gone' = OnLists' \ Gone'
        <3>1. doc # NoDoc
            BY <2>1, <2>3 DEF Agrees
        <3>2. Held(job[q]) \ Gone = OnLists \ Gone
            BY <2>1, <2>3, <3>1 DEF Agrees
        <3>3. OnLists' \ Gone' = OnLists \ Gone'
            BY <2>3, <3>1 DEF Keeps
        <3>. QED
            BY <3>2, <3>3
    <2>. QED
        BY <2>1, <2>2, <2>3 DEF Agrees, Carrying, Held
<1>3. job'[r] = j
    BY DEF CatInv, JobsOK
<1>. QED
    BY <1>2, <1>3 DEF KeptInv

\* A handler goes on, and nothing is written.
LEMMA NothingWritten ==
    ASSUME CatInv, KeptInv, NEW r \in Request, NEW j,
           job' = [job EXCEPT ![r] = j], UNCHANGED <<doc, version>>,
           Gone' = Gone, Agrees(j)
    PROVE  KeptInv' /\ Keeps
<1>1. OnLists' = OnLists
    BY DEF OnLists
<1>2. Agrees(j)'
    BY <1>1 DEF Agrees, Carrying, Held
<1>3. Keeps
    BY <1>1 DEF Keeps
<1>4. doc' # NoDoc => version' # 0
    BY DEF KeptInv
<1>. QED
    BY <1>2, <1>3, <1>4, SlotAgrees

LEMMA RestAgrees == Agrees(Rest) /\ Rest.at = "idle"
BY DEF Agrees, Carrying, Rest

LEMMA SameGone == account' = account => Gone' = Gone
BY DEF Gone

\* The beginning of a request that carries no lists of the assessment.
LEMMA CarriesNothing ==
    ASSUME CatInv, KeptInv, NEW r \in Request, NEW op, NEW j \in Job,
           Begin(r, op, j), UNCHANGED <<doc, version, account>>,
           j.at \notin {"assign", "pull", "add"}, j.at = "lists" => op = "create"
    PROVE  KeptInv' /\ Keeps
<1>. DEFINE k == [j EXCEPT !.op = op]
<1>1. k.at = j.at /\ k.op = op
    BY DEF Job
<1>2. job' = [job EXCEPT ![r] = k]
    BY DEF Begin
<1>. HIDE DEF k
<1>3. Agrees(k)
    BY <1>1 DEF Agrees, Carrying
<1>. QED
    BY <1>2, <1>3, NothingWritten, SameGone

\* A handler's end, or its way to a step without lists.
LEMMA LetsGo ==
    ASSUME CatInv, KeptInv, NEW r \in Request, NEW j,
           GoOn(r, j), UNCHANGED <<doc, version>>, Gone' = Gone,
           j.at \notin {"assign", "pull", "add", "lists"}
    PROVE  KeptInv' /\ Keeps
<1>1. Agrees(j) /\ job' = [job EXCEPT ![r] = j]
    BY DEF Agrees, Carrying, GoOn
<1>. QED
    BY <1>1, NothingWritten

LEMMA GoesHome ==
    ASSUME CatInv, KeptInv, NEW r \in Request,
           Finish(r), UNCHANGED <<doc, version>>, Gone' = Gone
    PROVE  KeptInv' /\ Keeps
BY LetsGo, RestAgrees DEF Finish

\* The assessment is written, with the same students.
LEMMA SameStudents ==
    ASSUME CatInv, KeptInv, NEW r \in Request, NEW j, NEW op, NEW d,
           job' = [job EXCEPT ![r] = j], Store(op, d), UNCHANGED account,
           j.at \notin {"assign", "pull", "add", "lists"}, doc # NoDoc,
           d # NoDoc => (d.assigned \cup d.invited) \ Gone = OnLists \ Gone
    PROVE  KeptInv' /\ Keeps
<1>1. doc' = d /\ version' = version + 1 /\ Gone' = Gone /\ version \in Nat
    BY SameGone DEF Store, CatInv
<1>2. Keeps
    BY <1>1 DEF Keeps, OnLists
<1>3. Agrees(j)'
    BY DEF Agrees, Carrying
<1>4. version' \in {version, version + 1} /\ version' # 0 /\ Gone \subseteq Gone'
    BY <1>1
<1>5. KeptInv'
    BY <1>2, <1>3, <1>4, SlotAgrees
<1>. QED
    BY <1>2, <1>5

\* The parts that the handlers share, and the beginnings.
LEMMA SharedKeeps ==
    ASSUME CatInv, KeptInv, NEW r \in Request,
           \/ \E e \in Student : Lookup(r, e)
           \/ Refresh(r) \/ Invalidate(r) \/ Fail(r)
    PROVE  KeptInv' /\ Keeps
<1>1. ASSUME NEW e \in Student, Lookup(r, e)
      PROVE  KeptInv' /\ Keeps
    <2>1. job[r] \in Job /\ job[r].at = "lists" /\ e \in job[r].todo /\ Agrees(job[r])
        BY <1>1, Busy DEF Lookup, KeptInv
    <2>. DEFINE found  == [job[r] EXCEPT !.todo = @ \ {e}, !.assigned = @ \cup {e}]
                absent == [job[r] EXCEPT !.todo = @ \ {e}, !.invited = @ \cup {e}]
    <2>2. /\ found.op = job[r].op /\ found.at = "lists"
          /\ Held(found) = Held(job[r])
        BY <2>1 DEF Job, Held
    <2>3. /\ absent.op = job[r].op /\ absent.at = "lists"
          /\ Held(absent) = Held(job[r])
        BY <2>1 DEF Job, Held
    <2>4. /\ job' = [job EXCEPT ![r] = found] \/ job' = [job EXCEPT ![r] = absent]
          /\ UNCHANGED <<doc, version, account>>
        BY <1>1 DEF Lookup, GoOn, NoWrite
    <2>. HIDE DEF found, absent
    <2>5. Agrees(found) /\ Agrees(absent)
        BY <2>1, <2>2, <2>3 DEF Agrees, Carrying
    <2>. QED
        BY <2>4, <2>5, NothingWritten, SameGone
<1>2. CASE Refresh(r)
    <2>1. job[r] \in Job /\ UNCHANGED <<doc, version>> /\ Gone' = Gone
        BY <1>2, Busy, SameGone DEF Refresh, NoWrite
    <2>2. [job[r] EXCEPT !.at = "check"].at = "check"
        BY <2>1 DEF Job
    <2>. QED
        BY <1>2, <2>1, <2>2, LetsGo, GoesHome DEF Refresh
<1>3. CASE Invalidate(r)
    <2>1. job[r] \in Job /\ UNCHANGED <<doc, version>> /\ Gone' = Gone
        BY <1>3, Busy, SameGone DEF Invalidate, NoWrite
    <2>2. [job[r] EXCEPT !.at = "refresh"].at = "refresh"
        BY <2>1 DEF Job
    <2>. QED
        BY <1>3, <2>1, <2>2, LetsGo, GoesHome DEF Invalidate
<1>4. CASE Fail(r)
    BY <1>4, GoesHome, SameGone DEF Fail, NoWrite
<1>. QED
    BY <1>1, <1>2, <1>3, <1>4

LEMMA BeginsKeeps ==
    ASSUME CatInv, KeptInv, NEW r \in Request, "assign" \notin Ops, ~Lists,
           \/ \E users \in SUBSET Active, emails \in SUBSET Student :
                  CreateBegins(r, users, emails)
           \/ \E users \in Users, colleges \in Colleges, emails \in Emails :
                  UpdateBegins(r, users, colleges, emails)
           \/ \E users \in SUBSET Active : AssignBegins(r, users)
           \/ ActivateBegins(r) \/ QuestionBegins(r) \/ ViewBegins(r)
           \/ \E s \in Student : StartBegins(r, s) \/ RegisterBegins(r, s)
                                 \/ RemoveBegins(r, s)
    PROVE  KeptInv' /\ Keeps
<1>1. Active \subseteq Student
    BY DEF Active
<1>2. ASSUME NEW users \in SUBSET Active, NEW emails \in SUBSET Student,
             CreateBegins(r, users, emails)
      PROVE  KeptInv' /\ Keeps
    <2>. DEFINE j == [Rest EXCEPT !.at = "lists", !.assigned = users,
                                  !.invited = emails, !.todo = emails]
    <2>1. j \in Job /\ j.at = "lists"
        BY <1>1 DEF Rest, Job, Step
    <2>2. Begin(r, "create", j) /\ UNCHANGED <<doc, version, account>>
        BY <1>2 DEF CreateBegins, NoWrite
    <2>. HIDE DEF j
    <2>. QED
        BY <2>1, <2>2, CarriesNothing
<1>3. CASE \E users \in Users, colleges \in Colleges, emails \in Emails :
              UpdateBegins(r, users, colleges, emails)
    <2>1. /\ doc # NoDoc /\ doc \in Doc
          /\ UpdateBegins(r, Keep, {}, Keep)
        BY <1>3 DEF Users, Colleges, Emails, UpdateBegins, CatInv
    <2>. DEFINE j == [Rest EXCEPT !.at = "lists", !.assigned = doc.assigned \cup {},
                                  !.todo = doc.invited]
                k == [j EXCEPT !.op = "update"]
    <2>2. Begin(r, "update", j) /\ UNCHANGED <<doc, version, account>>
        BY <2>1, CatalogueAssumption DEF UpdateBegins, NoWrite
    <2>3. job' = [job EXCEPT ![r] = k]
        BY <2>2 DEF Begin
    <2>4. k.at = "lists" /\ Held(k) = OnLists
        BY DEF Rest, Held, OnLists
    <2>5. version # 0
        BY <2>1 DEF KeptInv
    <2>. HIDE DEF k, j
    <2>6. Agrees(k)
        BY <2>4, <2>5 DEF Agrees
    <2>. QED
        BY <2>2, <2>3, <2>6, NothingWritten, SameGone
<1>4. CASE \E users \in SUBSET Active : AssignBegins(r, users)
    BY <1>4 DEF AssignBegins, Begin
<1>5. ASSUME NEW at \in {"activate", "question", "fetch"}
      PROVE  [Rest EXCEPT !.at = at] \in Job /\ [Rest EXCEPT !.at = at].at = at
    BY DEF Rest, Job, Step
<1>6. CASE ActivateBegins(r)
    BY <1>5, <1>6, CarriesNothing DEF ActivateBegins, NoWrite
<1>7. CASE QuestionBegins(r)
    BY <1>5, <1>7, CarriesNothing DEF QuestionBegins, NoWrite
<1>8. CASE ViewBegins(r)
    BY <1>5, <1>8, CarriesNothing DEF ViewBegins, NoWrite
<1>9. ASSUME NEW s \in Student, StartBegins(r, s)
      PROVE  KeptInv' /\ Keeps
    <2>. DEFINE j == [Rest EXCEPT !.who = s, !.saw = copy,
                           !.at = IF copy = NoCopy THEN "fetch" ELSE "check"]
    <2>1. j \in Job /\ j.at \in {"fetch", "check"}
        BY DEF Rest, Job, Step, CatInv
    <2>2. Begin(r, "start", j) /\ UNCHANGED <<doc, version, account>>
        BY <1>9 DEF StartBegins, NoWrite
    <2>. HIDE DEF j
    <2>. QED
        BY <2>1, <2>2, CarriesNothing
<1>10. ASSUME NEW s \in Student, RegisterBegins(r, s)
       PROVE  KeptInv' /\ Keeps
    <2>. DEFINE j == [Rest EXCEPT !.at = "insert", !.who = s]
    <2>1. j \in Job /\ j.at = "insert"
        BY DEF Rest, Job, Step
    <2>2. Begin(r, "register", j) /\ UNCHANGED <<doc, version, account>>
        BY <1>10 DEF RegisterBegins, NoWrite
    <2>. HIDE DEF j
    <2>. QED
        BY <2>1, <2>2, CarriesNothing
<1>11. ASSUME NEW s \in Student, RemoveBegins(r, s)
       PROVE  KeptInv' /\ Keeps
    <2>. DEFINE k == [[Rest EXCEPT !.at = "pull", !.who = s] EXCEPT !.op = "remove"]
    <2>1. job' = [job EXCEPT ![r] = k] /\ UNCHANGED <<doc, version>>
        BY <1>11 DEF RemoveBegins, Begin, NoWrite
    <2>2. k.at = "pull" /\ k.who = s
        BY DEF Rest
    <2>3. Gone \subseteq Gone' /\ s \in Gone'
        BY <1>11 DEF RemoveBegins, Gone, CatInv
    <2>. HIDE DEF k
    <2>4. Agrees(k)'
        BY <2>2, <2>3 DEF Agrees, Carrying
    <2>5. Keeps
        BY <2>1 DEF Keeps, OnLists
    <2>6. doc' # NoDoc => version' # 0
        BY <2>1 DEF KeptInv
    <2>. QED
        BY <2>1, <2>3, <2>4, <2>5, <2>6, SlotAgrees
<1>. QED
    BY <1>2, <1>3, <1>4, <1>6, <1>7, <1>8, <1>9, <1>10, <1>11

LEMMA WritesKeep ==
    ASSUME CatInv, KeptInv, NEW r \in Request,
           \/ Create(r) \/ \E status \in Statuses : Update(r, status)
           \/ Activate(r) \/ Deactivate(r) \/ Assign(r) \/ AddQuestion(r) \/ Delete(r)
           \/ Enrol(r) \/ Remove(r)
    PROVE  KeptInv' /\ Keeps
<1>1. Agrees(job[r]) /\ (doc # NoDoc => doc \in Doc)
    BY DEF KeptInv, CatInv
<1>2. ASSUME Finish(r), account' = account, NEW op, NEW d, Store(op, d), doc # NoDoc,
             d # NoDoc => (d.assigned \cup d.invited) \ Gone = OnLists \ Gone
      PROVE  KeptInv' /\ Keeps
    BY <1>2, SameStudents, RestAgrees DEF Finish, GoOn
<1>3. CASE Create(r)
    <2>. DEFINE d == [status |-> "active", assigned |-> job[r].assigned,
                      invited |-> job[r].invited]
    <2>1. /\ doc = NoDoc /\ version = 0 /\ version' = 1
          /\ job' = [job EXCEPT ![r] = Rest] /\ account' = account
        BY <1>3 DEF Create, Store, Finish, GoOn
    <2>2. Agrees(Rest)' /\ Keeps
        BY <2>1, RestAgrees DEF Agrees, Carrying, Keeps
    <2>3. version' \in {version, version + 1} /\ version' # 0 /\ Gone \subseteq Gone'
        BY <2>1, SameGone
    <2>4. KeptInv'
        BY <2>1, <2>2, <2>3, SlotAgrees
    <2>. QED
        BY <2>2, <2>4
<1>4. ASSUME NEW status \in Statuses, Update(r, status)
      PROVE  KeptInv' /\ Keeps
    <2>. DEFINE new == [doc EXCEPT !.assigned = job[r].assigned,
                                   !.invited = job[r].invited,
                                   !.status = IF status = Keep THEN @ ELSE status]
                j == [job[r] EXCEPT !.at = "invalidate", !.saw = Written(new)]
    <2>1. CASE doc = NoDoc
        BY <1>4, <2>1, GoesHome, SameGone DEF Update, NoWrite
    <2>2. CASE doc # NoDoc
        <3>1. /\ Store("update", new) /\ job' = [job EXCEPT ![r] = j]
              /\ account' = account
            BY <1>4, <2>2 DEF Update, GoOn
        <3>2. new.assigned = job[r].assigned /\ new.invited = job[r].invited
            BY <1>1, <2>2 DEF Doc
        <3>3. job[r] \in Job
            BY DEF CatInv, JobsOK
        <3>4. j.at = "invalidate"
            BY <3>3 DEF Job
        <3>5. /\ job[r].op = "update" /\ job[r].at = "lists" /\ job[r].todo = {}
            BY <1>4 DEF Update
        <3>6. (job[r].assigned \cup job[r].invited) \ Gone = OnLists \ Gone
            BY <1>1, <2>2, <3>5 DEF Agrees, Carrying, Held
        <3>. HIDE DEF new, j
        <3>. QED
            BY <2>2, <3>1, <3>2, <3>4, <3>6, SameStudents
    <2>. QED
        BY <2>1, <2>2
<1>5. CASE Activate(r)
    <2>. DEFINE new == [doc EXCEPT !.status = "active"]
                j == [job[r] EXCEPT !.at = "refresh", !.saw = Written(new)]
    <2>1. CASE doc = NoDoc
        BY <1>5, <2>1, GoesHome, SameGone DEF Activate, NoWrite
    <2>2. CASE doc # NoDoc
        <3>1. /\ Store("activate", new) /\ job' = [job EXCEPT ![r] = j]
              /\ account' = account
            BY <1>5, <2>2 DEF Activate, GoOn
        <3>2. new.assigned \cup new.invited = OnLists
            BY <1>1, <2>2 DEF Doc, OnLists
        <3>3. job[r] \in Job
            BY DEF CatInv, JobsOK
        <3>4. j.at = "refresh"
            BY <3>3 DEF Job
        <3>. HIDE DEF new, j
        <3>. QED
            BY <2>2, <3>1, <3>2, <3>4, SameStudents
    <2>. QED
        BY <2>1, <2>2
<1>6. CASE Deactivate(r)
    <2>. DEFINE new == [doc EXCEPT !.status = "inactive"]
    <2>1. /\ doc # NoDoc /\ Store("deactivate", new) /\ job' = job
          /\ account' = account /\ job[r] = Rest
        BY <1>6 DEF Deactivate, AtOnce
    <2>2. new.assigned \cup new.invited = OnLists
        BY <1>1, <2>1 DEF Doc, OnLists
    <2>3. job' = [job EXCEPT ![r] = Rest]
        BY <2>1 DEF CatInv, JobsOK
    <2>. HIDE DEF new
    <2>. QED
        BY <2>1, <2>2, <2>3, RestAgrees, SameStudents
<1>7. CASE Assign(r)
    BY <1>1, <1>7 DEF Assign, Agrees
<1>8. CASE AddQuestion(r)
    <2>1. CASE doc = NoDoc
        BY <1>8, <2>1, GoesHome, SameGone DEF AddQuestion, NoWrite
    <2>2. CASE doc # NoDoc
        BY <1>2, <1>8, <2>2 DEF AddQuestion, OnLists
    <2>. QED
        BY <2>1, <2>2
<1>9. CASE Delete(r)
    <2>. DEFINE k == [[Rest EXCEPT !.at = "invalidate"] EXCEPT !.op = "delete"]
    <2>1. /\ doc # NoDoc /\ Store("delete", NoDoc) /\ account' = account
          /\ job' = [job EXCEPT ![r] = k]
        BY <1>9 DEF Delete, Begin
    <2>2. k.at = "invalidate"
        BY DEF Rest
    <2>. HIDE DEF k
    <2>. QED
        BY <2>1, <2>2, SameStudents
<1>10. CASE Enrol(r)
    <2>. DEFINE new == [doc EXCEPT !.assigned = job[r].assigned,
                                   !.invited = job[r].invited]
    <2>1. CASE doc = NoDoc
        BY <1>10, <2>1, GoesHome, SameGone DEF Enrol, NoWrite
    <2>2. CASE doc # NoDoc
        <3>1. Store("register", new) /\ Finish(r) /\ account' = account
            BY <1>10, <2>2 DEF Enrol
        <3>2. new.assigned = job[r].assigned /\ new.invited = job[r].invited
            BY <1>1, <2>2 DEF Doc
        <3>3. (job[r].assigned \cup job[r].invited) \ Gone = OnLists \ Gone
            BY <1>1, <1>10, <2>2 DEF Enrol, Agrees, Carrying, Held
        <3>. HIDE DEF new
        <3>. QED
            BY <1>2, <2>2, <3>1, <3>2, <3>3
    <2>. QED
        BY <2>1, <2>2
<1>11. CASE Remove(r)
    <2>. DEFINE new == [doc EXCEPT !.assigned = @ \ {job[r].who}]
    <2>1. CASE ~(doc # NoDoc /\ job[r].who \in doc.assigned)
        BY <1>11, <2>1, GoesHome, SameGone DEF Remove, NoWrite
    <2>2. CASE doc # NoDoc /\ job[r].who \in doc.assigned
        <3>1. Store("remove", new) /\ Finish(r) /\ account' = account
            BY <1>11, <2>2 DEF Remove
        <3>2. new.assigned = doc.assigned \ {job[r].who} /\ new.invited = doc.invited
            BY <1>1, <2>2 DEF Doc
        <3>3. job[r].who \in Gone
            BY <1>1, <1>11 DEF Remove, Agrees
        <3>4. (new.assigned \cup new.invited) \ Gone = OnLists \ Gone
            BY <3>2, <3>3 DEF OnLists
        <3>. HIDE DEF new
        <3>. QED
            BY <1>2, <2>2, <3>1, <3>4
    <2>. QED
        BY <2>1, <2>2
<1>. QED
    BY <1>3, <1>4, <1>5, <1>6, <1>7, <1>8, <1>9, <1>10, <1>11

LEMMA ReadsKeep ==
    ASSUME CatInv, KeptInv, NEW r \in Request,
           Fetch(r) \/ Check(r) \/ Register(r) \/ Invited(r)
    PROVE  KeptInv' /\ Keeps
<1>1. job[r] \in Job /\ UNCHANGED <<doc, version>>
    BY DEF CatInv, JobsOK, Fetch, Check, Register, Invited, NoWrite
<1>2. CASE Fetch(r)
    <2>. DEFINE j == [job[r] EXCEPT !.at = "refresh",
                        !.saw = [version |-> version, status |-> doc.status]]
    <2>1. j.at = "refresh"
        BY <1>1 DEF Job
    <2>2. (Finish(r) \/ GoOn(r, j)) /\ account' = account
        BY <1>2 DEF Fetch
    <2>. HIDE DEF j
    <2>. QED
        BY <1>1, <2>1, <2>2, LetsGo, GoesHome, SameGone
<1>3. CASE Check(r)
    BY <1>1, <1>3, GoesHome, SameGone DEF Check
<1>4. CASE Register(r)
    <2>1. [job[r] EXCEPT !.at = "enrol"].at = "enrol"
        BY <1>1 DEF Job
    <2>2. Gone' = Gone
        BY <1>4 DEF Register, Gone, CatInv
    <2>. QED
        BY <1>1, <1>4, <2>1, <2>2, LetsGo, GoesHome DEF Register
<1>5. CASE Invited(r)
    <2>1. account' = account
        BY <1>5 DEF Invited
    <2>2. CASE Finish(r)
        BY <1>1, <2>1, <2>2, GoesHome, SameGone
    <2>3. CASE ~Finish(r)
        <3>. DEFINE k == [job[r] EXCEPT !.at = "add",
                              !.assigned = doc.assigned \cup {job[r].who},
                              !.invited = doc.invited \ {job[r].who}]
        <3>1. /\ job' = [job EXCEPT ![r] = k]
              /\ doc # NoDoc /\ job[r].who \in doc.invited
            BY <1>5, <2>3 DEF Invited, GoOn
        <3>2. /\ k.at = "add" /\ k.assigned = doc.assigned \cup {job[r].who}
              /\ k.invited = doc.invited \ {job[r].who}
            BY <1>1 DEF Job
        <3>. HIDE DEF k
        <3>3. Held(k) = OnLists /\ version # 0
            BY <3>1, <3>2 DEF Held, OnLists, KeptInv
        <3>4. Agrees(k)
            BY <3>2, <3>3 DEF Agrees
        <3>. QED
            BY <1>1, <2>1, <3>1, <3>4, NothingWritten, SameGone
    <2>. QED
        BY <2>2, <2>3
<1>. QED
    BY <1>2, <1>3, <1>4, <1>5

\* As long as no request gives lists of its own, no student with an account
\* drops off both lists, however many requests read the lists, await and write
\* them back over each other (updateAssessment,
\* checkAndProcessPendingInvitations).
THEOREM EnrolmentKept ==
    ASSUME ~Lists, "assign" \notin Ops
    PROVE  CatalogueSpec => EnrolmentIsKept
<1>1. CatalogueInit => KeptInv
    BY RestAgrees DEF CatalogueInit, KeptInv
<1>2. ASSUME CatInv, KeptInv, CatalogueNext
      PROVE  KeptInv' /\ Keeps
    <2>1. ASSUME NEW r \in Request, Write(r) PROVE KeptInv' /\ Keeps
        BY <1>2, <2>1, BeginsKeeps, WritesKeep DEF Write
    <2>2. ASSUME NEW r \in Request, View(r) PROVE KeptInv' /\ Keeps
        BY <1>2, <2>2, BeginsKeeps, ReadsKeep DEF View
    <2>3. ASSUME NEW r \in Request, Account(r) PROVE KeptInv' /\ Keeps
        BY <1>2, <2>3, BeginsKeeps, WritesKeep, ReadsKeep DEF Account
    <2>. QED
        BY <1>2, <2>1, <2>2, <2>3, SharedKeeps DEF CatalogueNext
<1>3. ASSUME CatInv, KeptInv, UNCHANGED catVars
      PROVE  KeptInv'
    BY <1>3 DEF catVars, KeptInv, Agrees, Carrying, Held, Gone, OnLists
<1>4. ASSUME CatInv, KeptInv, CatalogueNext
      PROVE  doc # NoDoc /\ doc' # NoDoc =>
               \A s \in doc.assigned \cup doc.invited :
                  s \in doc'.assigned \cup doc'.invited \/ account'[s] = "deleted"
    BY <1>2, <1>4 DEF Keeps, OnLists, Gone
<1>. QED
    BY <1>1, <1>2, <1>3, <1>4, CatInvHolds, PTL DEF CatalogueSpec, EnrolmentIsKept

-----------------------------------------------------------------------------
(* One request at a time, and nothing fails *)

Unassigned == \A v \in 1..version : writtenBy[v] # "assign"

\* Nothing but bypassing writes since version n.
Lag(n) == \A v \in (n + 1)..version : writtenBy[v] \in Bypassing

\* While the handler is at the enrolment of a student, this one may be missing
\* among the assigned; the lists it computes are complete when they are done.
ListsInv(r) ==
    /\ doc # NoDoc /\ Unassigned =>
          /\ doc.invited \cap Active \subseteq
                doc.assigned \cup (IF job[r].at \in {"enrol", "add"} THEN {job[r].who} ELSE {})
          /\ job[r].at = "add" => job[r].invited \cap Active \subseteq job[r].assigned
    /\ job[r].at = "lists" =>
          (job[r].invited \ job[r].todo) \cap Active \subseteq job[r].assigned
    /\ job[r].at = "pull" => job[r].who \notin Active

\* The copy is out of date only until the handler that wrote has refreshed it,
\* with the version that it wrote.
CopyInv(r) ==
    /\ version = 0 => doc = NoDoc /\ copy = NoCopy
    /\ copy # NoCopy /\ job[r].at \notin {"invalidate", "refresh"} => Lag(copy.version)
    /\ job[r].at = "refresh" \/ (job[r].at = "invalidate" /\ job[r].op = "update")
          => job[r].saw.version = version /\ version # 0

AloneInv(r) == ListsInv(r) /\ CopyInv(r)

\* A write is the next version.
LEMMA NextVersion ==
    ASSUME CatInv, NEW op \in AllOps, NEW d, Store(op, d),
           version + 1 \in 0..MaxRequests
    PROVE  /\ Unassigned' => Unassigned /\ op # "assign"
           /\ \A n \in Nat : Lag(n) /\ op \in Bypassing => Lag(n)'
           /\ version' = version + 1 /\ version' # 0 /\ version \in Nat /\ doc' = d
<1>1. version \in Nat /\ version' = version + 1 /\ doc' = d
    BY DEF CatInv, Store
<1>2. /\ writtenBy'[version + 1] = op
      /\ \A v \in 1..version : writtenBy'[v] = writtenBy[v]
    BY <1>1, CatalogueAssumption DEF CatInv, Store
<1>3. Unassigned' => Unassigned /\ op # "assign"
    BY <1>1, <1>2 DEF Unassigned
<1>4. ASSUME NEW n \in Nat, Lag(n), op \in Bypassing
      PROVE  Lag(n)'
    <2>. SUFFICES ASSUME NEW v \in (n + 1)..(version + 1)
                  PROVE  writtenBy'[v] \in Bypassing
        BY <1>1 DEF Lag
    <2>1. CASE v = version + 1
        BY <1>2, <1>4, <2>1
    <2>2. CASE v # version + 1
        BY <1>1, <1>2, <1>4, <2>2 DEF Lag
    <2>. QED
        BY <2>1, <2>2
<1>. QED
    BY <1>1, <1>3, <1>4

LEMMA RoomAtOnce ==
    ASSUME CatInv, made < MaxRequests
    PROVE  version + 1 \in 0..MaxRequests
<1>1. Cardinality(Writing) \in Nat
    BY FS_CardinalityType DEF CatInv, WritesFit
<1>. QED
    BY <1>1, CatalogueAssumption DEF CatInv, WritesFit

\* The beginning of a request; reading.
LEMMA AloneBegins ==
    ASSUME CatInv, NEW r \in Request, AloneInv(r),
           \/ \E users \in SUBSET Active, emails \in SUBSET Student :
                  CreateBegins(r, users, emails)
           \/ \E users \in Users, colleges \in Colleges, emails \in Emails :
                  UpdateBegins(r, users, colleges, emails)
           \/ \E users \in SUBSET Active : AssignBegins(r, users)
           \/ ActivateBegins(r) \/ QuestionBegins(r) \/ ViewBegins(r)
           \/ \E s \in Student : StartBegins(r, s) \/ RegisterBegins(r, s)
                                 \/ RemoveBegins(r, s)
    PROVE  AloneInv(r)'
<1>1. job[r] = Rest /\ Rest.at = "idle" /\ NoWrite /\ copy' = copy
    BY DEF CreateBegins, UpdateBegins, AssignBegins, ActivateBegins, QuestionBegins,
           ViewBegins, StartBegins, RegisterBegins, RemoveBegins, Begin, Rest
\* The job of the request, once it has begun.
<1>2. ASSUME job'[r].at \notin {"enrol", "add", "refresh", "invalidate"},
             Active' \subseteq Active,
             job'[r].at = "lists" => job'[r].invited \subseteq job'[r].todo,
             job'[r].at = "pull" => job'[r].who \notin Active'
      PROVE  AloneInv(r)'
    <2>1. CopyInv(r)'
        BY <1>1, <1>2 DEF AloneInv, CopyInv, Lag, NoWrite
    <2>2. ListsInv(r)'
        BY <1>1, <1>2 DEF AloneInv, ListsInv, Unassigned, NoWrite
    <2>. QED
        BY <2>1, <2>2 DEF AloneInv
<1>3. ASSUME NEW op, NEW j, Begin(r, op, j)
      PROVE  job'[r] = [j EXCEPT !.op = op]
    BY <1>3 DEF Begin, CatInv, JobsOK
<1>4. account' = account => Active' = Active
    BY DEF Active
<1>5. ASSUME NEW op, NEW j, Begin(r, op, j), account' = account,
             [j EXCEPT !.op = op].at
                 \in {"activate", "question", "fetch", "check", "insert", "assign"}
      PROVE  AloneInv(r)'
    BY <1>2, <1>3, <1>4, <1>5
<1>6. ASSUME NEW users \in SUBSET Active, NEW emails \in SUBSET Student,
             CreateBegins(r, users, emails)
      PROVE  AloneInv(r)'
    <2>. DEFINE k == [[Rest EXCEPT !.at = "lists", !.assigned = users,
                              !.invited = emails, !.todo = emails] EXCEPT !.op = "create"]
    <2>1. job'[r] = k /\ account' = account
        BY <1>3, <1>6 DEF CreateBegins
    <2>2. k.at = "lists" /\ k.invited = k.todo
        BY DEF Rest
    <2>. HIDE DEF k
    <2>. QED
        BY <1>2, <1>4, <2>1, <2>2
<1>7. ASSUME NEW users, NEW colleges, NEW emails, UpdateBegins(r, users, colleges, emails)
      PROVE  AloneInv(r)'
    <2>1. PICK a, t : Begin(r, "update", [Rest EXCEPT !.at = "lists", !.assigned = a,
                                                      !.todo = t])
        BY <1>7 DEF UpdateBegins
    <2>. DEFINE k == [[Rest EXCEPT !.at = "lists", !.assigned = a, !.todo = t]
                         EXCEPT !.op = "update"]
    <2>2. job'[r] = k /\ account' = account
        BY <1>3, <1>7, <2>1 DEF UpdateBegins
    <2>3. k.at = "lists" /\ k.invited = {}
        BY DEF Rest
    <2>. HIDE DEF k
    <2>. QED
        BY <1>2, <1>4, <2>2, <2>3
<1>8. ASSUME NEW users, AssignBegins(r, users)
      PROVE  AloneInv(r)'
    <2>1. /\ Begin(r, "assign", [Rest EXCEPT !.at = "assign", !.assigned = users])
          /\ account' = account
        BY <1>8 DEF AssignBegins
    <2>2. [[Rest EXCEPT !.at = "assign", !.assigned = users] EXCEPT !.op = "assign"].at
              = "assign"
        BY DEF Rest
    <2>. QED
        BY <1>5, <2>1, <2>2
<1>9. CASE ActivateBegins(r) \/ QuestionBegins(r) \/ ViewBegins(r)
    <2>1. \A op, at : [[Rest EXCEPT !.at = at] EXCEPT !.op = op].at = at
        BY DEF Rest
    <2>2. \E op : \E at \in {"activate", "question", "fetch"} :
              Begin(r, op, [Rest EXCEPT !.at = at]) /\ account' = account
        BY <1>9 DEF ActivateBegins, QuestionBegins, ViewBegins
    <2>. QED
        BY <1>5, <2>1, <2>2
<1>10. ASSUME NEW s \in Student, StartBegins(r, s)
       PROVE  AloneInv(r)'
    <2>. DEFINE k == [[Rest EXCEPT !.who = s, !.saw = copy,
                           !.at = IF copy = NoCopy THEN "fetch" ELSE "check"]
                         EXCEPT !.op = "start"]
    <2>1. job'[r] = k /\ account' = account
        BY <1>3, <1>10 DEF StartBegins
    <2>2. k.at \in {"fetch", "check"}
        BY DEF Rest
    <2>. HIDE DEF k
    <2>. QED
        BY <1>2, <1>4, <2>1, <2>2
<1>11. ASSUME NEW s \in Student, RegisterBegins(r, s)
       PROVE  AloneInv(r)'
    <2>. DEFINE k == [[Rest EXCEPT !.at = "insert", !.who = s] EXCEPT !.op = "register"]
    <2>1. job'[r] = k /\ account' = account
        BY <1>3, <1>11 DEF RegisterBegins
    <2>2. k.at = "insert"
        BY DEF Rest
    <2>. HIDE DEF k
    <2>. QED
        BY <1>2, <1>4, <2>1, <2>2
<1>12. ASSUME NEW s \in Student, RemoveBegins(r, s)
       PROVE  AloneInv(r)'
    <2>. DEFINE k == [[Rest EXCEPT !.at = "pull", !.who = s] EXCEPT !.op = "remove"]
    <2>1. job'[r] = k
        BY <1>3, <1>12 DEF RemoveBegins
    <2>2. k.at = "pull" /\ k.who = s
        BY DEF Rest
    <2>3. Active' \subseteq Active /\ s \notin Active'
        BY <1>12 DEF RemoveBegins, Active, CatInv
    <2>. HIDE DEF k
    <2>. QED
        BY <1>2, <2>1, <2>2, <2>3
<1>. QED
    BY <1>6, <1>7, <1>8, <1>9, <1>10, <1>11, <1>12

LEMMA AloneReads ==
    ASSUME CatInv, ~Faults, NEW r \in Request, AloneInv(r),
           \/ \E e \in Student : Lookup(r, e)
           \/ Refresh(r) \/ Invalidate(r) \/ Fail(r)
           \/ Fetch(r) \/ Check(r) \/ Register(r) \/ Invited(r)
    PROVE  AloneInv(r)'
<1>1. /\ job[r] \in Job /\ NoWrite /\ version \in Nat
      /\ \A j : GoOn(r, j) => job'[r] = j
    BY DEF CatInv, JobsOK, Lookup, Refresh, Invalidate, Fail, Fetch, Check, Register,
           Invited, GoOn
<1>2. Unassigned' = Unassigned /\ (\A n : Lag(n)' = Lag(n))
    BY <1>1 DEF Unassigned, Lag, NoWrite
<1>3. Rest.at = "idle" /\ (Finish(r) => job'[r] = Rest)
    BY <1>1 DEF Rest, Finish
<1>4. account' = account => Active' = Active
    BY DEF Active
<1>5. ASSUME NEW e \in Student, Lookup(r, e)
      PROVE  AloneInv(r)'
    <2>. DEFINE found  == [job[r] EXCEPT !.todo = @ \ {e}, !.assigned = @ \cup {e}]
                absent == [job[r] EXCEPT !.todo = @ \ {e}, !.invited = @ \cup {e}]
    <2>1. /\ found.at = job[r].at /\ found.todo = job[r].todo \ {e}
          /\ found.assigned = job[r].assigned \cup {e} /\ found.invited = job[r].invited
        BY <1>1 DEF Job
    <2>2. /\ absent.at = job[r].at /\ absent.todo = job[r].todo \ {e}
          /\ absent.assigned = job[r].assigned /\ absent.invited = job[r].invited \cup {e}
        BY <1>1 DEF Job
    <2>3. /\ job[r].at = "lists" /\ job'[r].at = "lists" /\ Active' = Active
          /\ copy' = copy
          /\ \/ job'[r] = found
             \/ job'[r] = absent /\ e \notin Active
        BY <1>1, <1>4, <1>5, <2>1, <2>2 DEF Lookup
    <2>. HIDE DEF found, absent
    <2>4. (job'[r].invited \ job'[r].todo) \cap Active \subseteq job'[r].assigned
        BY <2>1, <2>2, <2>3 DEF AloneInv, ListsInv
    <2>5. CopyInv(r)'
        BY <1>1, <1>2, <2>3 DEF AloneInv, CopyInv, NoWrite
    <2>6. ListsInv(r)'
        BY <1>1, <1>2, <2>3, <2>4 DEF AloneInv, ListsInv, NoWrite
    <2>. QED
        BY <2>5, <2>6 DEF AloneInv
\* A step to a place where nothing is held against the copy or the lists.
<1>6. ASSUME job'[r].at \in {"idle", "check", "enrol"}, account' = account,
             copy' = copy \/ copy' = NoCopy \/ copy'.version = version,
             job[r].at \in {"invalidate", "refresh"} => copy' # copy \/ copy'.version = version
                                                       \/ copy' = NoCopy,
             job[r].at \notin {"enrol", "add"} \/
                (doc # NoDoc => \/ job[r].who \notin doc.invited
                                \/ job[r].who \in doc.assigned),
             version = 0 => copy' = NoCopy
      PROVE  AloneInv(r)'
    <2>1. copy' # NoCopy => Lag(copy'.version)
        <3>1. CASE copy' = copy /\ job[r].at \notin {"invalidate", "refresh"}
            BY <3>1 DEF AloneInv, CopyInv
        <3>2. CASE copy'.version = version
            BY <1>1, <3>2 DEF Lag
        <3>. QED
            BY <1>6, <3>1, <3>2
    <2>2. CopyInv(r)'
        BY <1>1, <1>2, <1>6, <2>1 DEF AloneInv, CopyInv, NoWrite
    <2>3. ListsInv(r)'
        BY <1>1, <1>2, <1>4, <1>6 DEF AloneInv, ListsInv, NoWrite
    <2>. QED
        BY <2>2, <2>3 DEF AloneInv
<1>7. CASE Refresh(r)
    <2>1. /\ job[r].at = "refresh" /\ copy' = job[r].saw /\ account' = account
          /\ job[r].saw.version = version /\ version # 0
        BY <1>7 DEF Refresh, AloneInv, CopyInv
    <2>2. [job[r] EXCEPT !.at = "check"].at = "check"
        BY <1>1 DEF Job
    <2>3. job'[r].at \in {"idle", "check"}
        BY <1>1, <1>3, <1>7, <2>2 DEF Refresh
    <2>. QED
        BY <1>6, <2>1, <2>3
<1>8. CASE Invalidate(r)
    <2>1. job[r].at = "invalidate" /\ copy' = NoCopy /\ account' = account
        BY <1>8 DEF Invalidate
    <2>2. CASE job[r].op = "update"
        <3>. DEFINE k == [job[r] EXCEPT !.at = "refresh"]
        <3>1. k.at = "refresh" /\ k.saw = job[r].saw
            BY <1>1 DEF Job
        <3>2. job'[r] = k /\ Active' = Active
            BY <1>1, <1>4, <1>8, <2>1, <2>2 DEF Invalidate
        <3>. HIDE DEF k
        <3>3. CopyInv(r)'
            BY <1>1, <2>1, <2>2, <3>1, <3>2 DEF AloneInv, CopyInv, NoWrite
        <3>4. ListsInv(r)'
            BY <1>1, <1>2, <2>1, <3>1, <3>2 DEF AloneInv, ListsInv, NoWrite
        <3>. QED
            BY <3>3, <3>4 DEF AloneInv
    <2>3. CASE job[r].op # "update"
        <3>1. job'[r].at = "idle"
            BY <1>3, <1>8, <2>3 DEF Invalidate
        <3>. QED
            BY <1>6, <2>1, <3>1
    <2>. QED
        BY <2>2, <2>3
<1>9. CASE Fail(r)
    BY <1>9 DEF Fail
<1>10. CASE Fetch(r)
    <2>1. job[r].at = "fetch" /\ copy' = copy /\ account' = account
        BY <1>10 DEF Fetch
    <2>2. CASE doc = NoDoc
        <3>1. job'[r].at = "idle"
            BY <1>3, <1>10, <2>2 DEF Fetch
        <3>. QED
            BY <1>6, <2>1, <3>1 DEF AloneInv, CopyInv
    <2>3. CASE doc # NoDoc
        <3>. DEFINE k == [job[r] EXCEPT !.at = "refresh",
                            !.saw = [version |-> version, status |-> doc.status]]
        <3>1. k.at = "refresh" /\ k.saw.version = version
            BY <1>1 DEF Job
        <3>2. job'[r] = k /\ Active' = Active
            BY <1>1, <1>4, <1>10, <2>1, <2>3 DEF Fetch
        <3>. HIDE DEF k
        <3>3. CopyInv(r)'
            BY <1>1, <2>1, <2>3, <3>1, <3>2 DEF AloneInv, CopyInv, NoWrite
        <3>4. ListsInv(r)'
            BY <1>1, <1>2, <2>1, <3>1, <3>2 DEF AloneInv, ListsInv, NoWrite
        <3>. QED
            BY <3>3, <3>4 DEF AloneInv
    <2>. QED
        BY <2>2, <2>3
<1>11. CASE Check(r)
    <2>1. /\ job[r].at = "check" /\ copy' = copy /\ account' = account
          /\ job'[r].at = "idle"
        BY <1>3, <1>11 DEF Check
    <2>. QED
        BY <1>6, <2>1 DEF AloneInv, CopyInv
<1>12. CASE Register(r)
    <2>1. job[r].at = "insert" /\ copy' = copy
        BY <1>12 DEF Register
    <2>2. CASE account[job[r].who] # "none"
        <3>1. job'[r].at = "idle" /\ account' = account
            BY <1>3, <1>12, <2>2 DEF Register
        <3>. QED
            BY <1>6, <2>1, <3>1 DEF AloneInv, CopyInv
    <2>3. CASE account[job[r].who] = "none"
        <3>. DEFINE k == [job[r] EXCEPT !.at = "enrol"]
        <3>1. k.at = "enrol" /\ k.who = job[r].who
            BY <1>1 DEF Job
        <3>2. job'[r] = k /\ account' = [account EXCEPT ![job[r].who] = "active"]
            BY <1>1, <1>12, <2>3 DEF Register
        <3>3. Active' \subseteq Active \cup {job[r].who}
            BY <3>2 DEF Active, CatInv
        <3>. HIDE DEF k
        <3>4. CopyInv(r)'
            BY <1>1, <1>2, <2>1, <3>1, <3>2 DEF AloneInv, CopyInv, NoWrite
        <3>5. ListsInv(r)'
            BY <1>1, <1>2, <2>1, <3>1, <3>2, <3>3 DEF AloneInv, ListsInv, NoWrite
        <3>. QED
            BY <3>4, <3>5 DEF AloneInv
    <2>. QED
        BY <2>2, <2>3
<1>13. CASE Invited(r)
    <2>1. job[r].at = "enrol" /\ copy' = copy /\ account' = account
        BY <1>13 DEF Invited
    <2>2. CASE doc = NoDoc \/ job[r].who \notin doc.invited \/ job[r].who \in doc.assigned
        <3>1. job'[r].at = "idle"
            BY <1>3, <1>13, <2>2 DEF Invited
        <3>. QED
            BY <1>6, <2>1, <2>2, <3>1 DEF AloneInv, CopyInv
    <2>3. CASE ~(doc = NoDoc \/ job[r].who \notin doc.invited \/ job[r].who \in doc.assigned)
        <3>. DEFINE k == [job[r] EXCEPT !.at = "add",
                              !.assigned = doc.assigned \cup {job[r].who},
                              !.invited = doc.invited \ {job[r].who}]
        <3>1. /\ k.at = "add" /\ k.assigned = doc.assigned \cup {job[r].who}
              /\ k.invited = doc.invited \ {job[r].who} /\ k.who = job[r].who
            BY <1>1 DEF Job
        <3>2. job'[r] = k /\ Active' = Active
            BY <1>1, <1>4, <1>13, <2>1, <2>3 DEF Invited
        <3>. HIDE DEF k
        <3>3. CopyInv(r)'
            BY <1>1, <1>2, <2>1, <3>1, <3>2 DEF AloneInv, CopyInv, NoWrite
        <3>4. ListsInv(r)'
            BY <1>1, <1>2, <2>1, <3>1, <3>2 DEF AloneInv, ListsInv, NoWrite
        <3>. QED
            BY <3>3, <3>4 DEF AloneInv
    <2>. QED
        BY <2>2, <2>3
<1>. QED
    BY <1>5, <1>7, <1>8, <1>9, <1>10, <1>11, <1>12, <1>13

LEMMA AloneWrites ==
    ASSUME CatInv, NEW r \in Request, AloneInv(r),
           \/ Create(r) \/ \E status \in Statuses : Update(r, status)
           \/ Activate(r) \/ Deactivate(r) \/ Assign(r) \/ AddQuestion(r) \/ Delete(r)
           \/ Enrol(r) \/ Remove(r)
    PROVE  AloneInv(r)'
<1>1. /\ job[r] \in Job /\ (doc # NoDoc => doc \in Doc)
      /\ account' = account /\ copy' = copy /\ version \in Nat
      /\ copy # NoCopy => copy.version \in Nat
    <2>1. account' = account /\ copy' = copy
        BY DEF Create, Update, Activate, Deactivate, Assign, AddQuestion, Delete, Enrol,
               Remove
    <2>2. copy # NoCopy => copy.version \in Nat
        BY CatalogueAssumption DEF CatInv, Copy
    <2>. QED
        BY <2>1, <2>2 DEF CatInv, JobsOK
<1>2. Active' = Active
    BY <1>1 DEF Active
<1>3. job[r].at \in Writers => version + 1 \in 0..MaxRequests
    BY Room
<1>4. Rest.at = "idle" /\ (Finish(r) => job'[r] = Rest)
    BY DEF Rest, Finish, GoOn, CatInv, JobsOK
\* Nothing was written.
<1>5. ASSUME NoWrite, Finish(r), doc = NoDoc
      PROVE  AloneInv(r)'
    <2>1. job[r].at \notin {"invalidate", "refresh"} => CopyInv(r)'
        BY <1>1, <1>4, <1>5 DEF AloneInv, CopyInv, Lag, NoWrite
    <2>2. ListsInv(r)'
        BY <1>4, <1>5 DEF ListsInv, NoWrite
    <2>3. job[r].at \notin {"invalidate", "refresh"}
        BY <1>4 DEF Create, Update, Activate, Deactivate, Assign, AddQuestion, Delete,
                    Enrol, Remove, AtOnce, Begin
    <2>. QED
        BY <2>1, <2>2, <2>3 DEF AloneInv
\* A bypassing write of d.
<1>6. ASSUME NEW op \in Bypassing, NEW d \in Doc, Store(op, d), job'[r] = Rest,
             version + 1 \in 0..MaxRequests,
             job[r].at \notin {"invalidate", "refresh"},
             Unassigned /\ op # "assign" => d.invited \cap Active \subseteq d.assigned
      PROVE  AloneInv(r)'
    <2>1. op \in AllOps
        BY DEF Bypassing, AllOps
    <2>2. /\ Unassigned' => Unassigned /\ op # "assign"
          /\ \A n \in Nat : Lag(n) => Lag(n)'
          /\ version' # 0 /\ doc' = d
        BY <1>6, <2>1, NextVersion
    <2>3. copy # NoCopy => Lag(copy.version)'
        <3>1. copy # NoCopy => Lag(copy.version) /\ copy.version \in Nat
            BY <1>1, <1>6 DEF AloneInv, CopyInv
        <3>2. ASSUME NEW n \in Nat, copy.version = n, Lag(n)
              PROVE  Lag(copy.version)'
            BY <1>1, <2>2, <3>2 DEF Lag
        <3>. QED
            BY <3>1, <3>2
    <2>4. CopyInv(r)'
        BY <1>1, <1>4, <1>6, <2>2, <2>3 DEF CopyInv
    <2>5. ListsInv(r)'
        BY <1>2, <1>4, <1>6, <2>2 DEF ListsInv
    <2>. QED
        BY <2>4, <2>5 DEF AloneInv
\* A write of d whose handler goes on to the copy.
<1>7. ASSUME NEW op \in AllOps, NEW d \in Doc \cup {NoDoc}, Store(op, d),
             version + 1 \in 0..MaxRequests,
             job'[r].at \in {"refresh", "invalidate"},
             job'[r].at = "refresh" \/ job'[r].op = "update"
                => job'[r].saw.version = version + 1,
             d # NoDoc /\ Unassigned => d.invited \cap Active \subseteq d.assigned
      PROVE  AloneInv(r)'
    <2>1. /\ Unassigned' => Unassigned
          /\ version' = version + 1 /\ version' # 0 /\ doc' = d
        BY <1>7, NextVersion
    <2>2. CopyInv(r)'
        BY <1>1, <1>7, <2>1 DEF CopyInv
    <2>3. ListsInv(r)'
        BY <1>2, <1>7, <2>1 DEF ListsInv
    <2>. QED
        BY <2>2, <2>3 DEF AloneInv
<1>8. CASE Create(r)
    <2>. DEFINE d == [status |-> "active", assigned |-> job[r].assigned,
                      invited |-> job[r].invited]
    <2>1. /\ job[r].at = "lists" /\ job[r].todo = {} /\ version = 0
          /\ Store("create", d) /\ job'[r] = Rest
        BY <1>4, <1>8 DEF Create
    <2>2. /\ d.assigned = job[r].assigned /\ d.invited = job[r].invited
          /\ "create" \in AllOps /\ version + 1 \in 0..MaxRequests
        BY <1>3, <2>1 DEF AllOps, Writers
    <2>. HIDE DEF d
    <2>3. /\ Unassigned' => Unassigned
          /\ version' = version + 1 /\ version' # 0 /\ doc' = d
        BY <2>1, <2>2, NextVersion
    <2>4. copy' = NoCopy
        BY <1>1, <2>1 DEF AloneInv, CopyInv
    <2>5. CopyInv(r)'
        BY <1>4, <2>1, <2>3, <2>4 DEF CopyInv
    <2>6. d.invited \cap Active \subseteq d.assigned
        BY <2>1, <2>2 DEF AloneInv, ListsInv
    <2>7. ListsInv(r)'
        BY <1>2, <1>4, <2>1, <2>3, <2>6 DEF ListsInv
    <2>. QED
        BY <2>5, <2>7 DEF AloneInv
<1>9. ASSUME NEW status \in Statuses, Update(r, status)
      PROVE  AloneInv(r)'
    <2>. DEFINE new == [doc EXCEPT !.assigned = job[r].assigned,
                                   !.invited = job[r].invited,
                                   !.status = IF status = Keep THEN @ ELSE status]
                k == [job[r] EXCEPT !.at = "invalidate", !.saw = Written(new)]
    <2>1. CASE doc = NoDoc
        BY <1>5, <1>9, <2>1 DEF Update
    <2>2. CASE doc # NoDoc
        <3>1. /\ Store("update", new) /\ job'[r] = k
              /\ job[r].at = "lists" /\ job[r].todo = {}
            BY <1>9, <2>2 DEF Update, GoOn, CatInv, JobsOK
        <3>2. job[r].assigned \in SUBSET Student /\ job[r].invited \in SUBSET Student
            BY <1>1 DEF Job
        <3>3. Keep \notin Statuses \/ status = Keep \/ status \in Status
            BY <1>9 DEF Statuses
        <3>4. /\ new \in Doc /\ new.assigned = job[r].assigned
              /\ new.invited = job[r].invited
            <4>1. (IF status = Keep THEN doc.status ELSE status) \in Status
                BY <1>1, <1>9, <2>2 DEF Doc, Statuses
            <4>. QED
                BY <1>1, <2>2, <3>2, <4>1 DEF Doc
        <3>5. k.at = "invalidate" /\ k.saw.version = version + 1
            BY <1>1 DEF Job, Written
        <3>6. "update" \in AllOps /\ version + 1 \in 0..MaxRequests
            BY <1>3, <3>1 DEF AllOps, Writers
        <3>7. job[r].invited \cap Active \subseteq job[r].assigned
            BY <3>1 DEF AloneInv, ListsInv
        <3>. HIDE DEF new, k
        <3>. QED
            BY <1>7, <3>1, <3>4, <3>5, <3>6, <3>7
    <2>. QED
        BY <2>1, <2>2
\* The lists of the stored assessment while no enrolment is going on.
<1>10. ASSUME doc # NoDoc, Unassigned, job[r].at \notin {"enrol", "add"}
       PROVE  doc.invited \cap Active \subseteq doc.assigned
    BY <1>10 DEF AloneInv, ListsInv
<1>11. CASE Activate(r)
    <2>. DEFINE new == [doc EXCEPT !.status = "active"]
                k == [job[r] EXCEPT !.at = "refresh", !.saw = Written(new)]
    <2>1. CASE doc = NoDoc
        BY <1>5, <1>11, <2>1 DEF Activate
    <2>2. CASE doc # NoDoc
        <3>1. Store("activate", new) /\ job'[r] = k /\ job[r].at = "activate"
            BY <1>11, <2>2 DEF Activate, GoOn, CatInv, JobsOK
        <3>2. /\ new \in Doc /\ new.assigned = doc.assigned /\ new.invited = doc.invited
            BY <1>1, <2>2 DEF Doc, Status
        <3>3. k.at = "refresh" /\ k.saw.version = version + 1
            BY <1>1 DEF Job, Written
        <3>4. "activate" \in AllOps /\ version + 1 \in 0..MaxRequests
            BY <1>3, <3>1 DEF AllOps, Writers
        <3>. HIDE DEF new, k
        <3>. QED
            BY <1>7, <1>10, <2>2, <3>1, <3>2, <3>3, <3>4
    <2>. QED
        BY <2>1, <2>2
<1>12. CASE Deactivate(r)
    <2>. DEFINE new == [doc EXCEPT !.status = "inactive"]
    <2>1. /\ doc # NoDoc /\ Store("deactivate", new) /\ job[r] = Rest /\ job'[r] = Rest
          /\ made < MaxRequests
        BY <1>12 DEF Deactivate, AtOnce
    <2>2. new \in Doc /\ new.assigned = doc.assigned /\ new.invited = doc.invited
        BY <1>1, <2>1 DEF Doc, Status
    <2>3. "deactivate" \in Bypassing /\ version + 1 \in 0..MaxRequests
        BY <2>1, RoomAtOnce DEF Bypassing
    <2>. HIDE DEF new
    <2>. QED
        BY <1>4, <1>6, <1>10, <2>1, <2>2, <2>3
<1>13. CASE Delete(r)
    <2>. DEFINE k == [[Rest EXCEPT !.at = "invalidate"] EXCEPT !.op = "delete"]
    <2>1. Store("delete", NoDoc) /\ job'[r] = k /\ made < MaxRequests
        BY <1>13 DEF Delete, Begin, CatInv, JobsOK
    <2>2. k.at = "invalidate" /\ k.op = "delete"
        BY DEF Rest
    <2>3. "delete" \in AllOps /\ version + 1 \in 0..MaxRequests
        BY <2>1, RoomAtOnce DEF AllOps
    <2>. HIDE DEF k
    <2>. QED
        BY <1>7, <2>1, <2>2, <2>3
<1>14. CASE Assign(r)
    <2>1. CASE doc = NoDoc
        BY <1>5, <1>14, <2>1 DEF Assign
    <2>2. CASE doc # NoDoc
        <3>. DEFINE new == [doc EXCEPT !.assigned = job[r].assigned]
        <3>1. Store("assign", new) /\ job'[r] = Rest /\ job[r].at = "assign"
            BY <1>4, <1>14, <2>2 DEF Assign
        <3>2. job[r].assigned \in SUBSET Student
            BY <1>1 DEF Job
        <3>3. new \in Doc
            BY <1>1, <2>2, <3>2 DEF Doc
        <3>4. "assign" \in Bypassing /\ version + 1 \in 0..MaxRequests
            BY <1>3, <3>1 DEF Bypassing, Writers
        <3>. HIDE DEF new
        <3>. QED
            BY <1>6, <3>1, <3>3, <3>4
    <2>. QED
        BY <2>1, <2>2
<1>15. CASE AddQuestion(r)
    <2>1. CASE doc = NoDoc
        BY <1>5, <1>15, <2>1 DEF AddQuestion
    <2>2. CASE doc # NoDoc
        <3>1. Store("question", doc) /\ job'[r] = Rest /\ job[r].at = "question"
            BY <1>4, <1>15, <2>2 DEF AddQuestion
        <3>2. "question" \in Bypassing /\ version + 1 \in 0..MaxRequests
            BY <1>3, <3>1 DEF Bypassing, Writers
        <3>. QED
            BY <1>1, <1>6, <1>10, <2>2, <3>1, <3>2
    <2>. QED
        BY <2>1, <2>2
<1>16. CASE Enrol(r)
    <2>1. CASE doc = NoDoc
        BY <1>5, <1>16, <2>1 DEF Enrol
    <2>2. CASE doc # NoDoc
        <3>. DEFINE new == [doc EXCEPT !.assigned = job[r].assigned,
                                       !.invited = job[r].invited]
        <3>1. Store("register", new) /\ job'[r] = Rest /\ job[r].at = "add"
            BY <1>4, <1>16, <2>2 DEF Enrol
        <3>2. job[r].assigned \in SUBSET Student /\ job[r].invited \in SUBSET Student
            BY <1>1 DEF Job
        <3>3. /\ new \in Doc /\ new.assigned = job[r].assigned
              /\ new.invited = job[r].invited
            BY <1>1, <2>2, <3>2 DEF Doc
        <3>4. "register" \in Bypassing /\ version + 1 \in 0..MaxRequests
            BY <1>3, <3>1 DEF Bypassing, Writers
        <3>5. Unassigned => job[r].invited \cap Active \subseteq job[r].assigned
            BY <2>2, <3>1 DEF AloneInv, ListsInv
        <3>. HIDE DEF new
        <3>. QED
            BY <1>6, <3>1, <3>3, <3>4, <3>5
    <2>. QED
        BY <2>1, <2>2
<1>17. CASE Remove(r)
    <2>1. job[r].at = "pull" /\ job'[r] = Rest
        BY <1>4, <1>17 DEF Remove
    <2>2. CASE ~(doc # NoDoc /\ job[r].who \in doc.assigned)
        <3>1. NoWrite
            BY <1>17, <2>2 DEF Remove
        <3>2. CopyInv(r)'
            BY <1>1, <1>4, <2>1, <3>1 DEF AloneInv, CopyInv, Lag, NoWrite
        <3>3. ListsInv(r)'
            BY <1>2, <1>4, <2>1, <3>1 DEF AloneInv, ListsInv, Unassigned, NoWrite
        <3>. QED
            BY <3>2, <3>3 DEF AloneInv
    <2>3. CASE doc # NoDoc /\ job[r].who \in doc.assigned
        <3>. DEFINE new == [doc EXCEPT !.assigned = @ \ {job[r].who}]
        <3>1. Store("remove", new)
            BY <1>17, <2>3 DEF Remove
        <3>2. /\ new \in Doc /\ new.assigned = doc.assigned \ {job[r].who}
              /\ new.invited = doc.invited
            BY <1>1, <2>3 DEF Doc
        <3>3. job[r].who \notin Active
            BY <2>1 DEF AloneInv, ListsInv
        <3>4. Unassigned => new.invited \cap Active \subseteq new.assigned
            BY <1>10, <2>1, <2>3, <3>2, <3>3
        <3>5. "remove" \in Bypassing /\ version + 1 \in 0..MaxRequests
            BY <1>3, <2>1 DEF Bypassing, Writers
        <3>. HIDE DEF new
        <3>. QED
            BY <1>6, <2>1, <3>1, <3>2, <3>4, <3>5
    <2>. QED
        BY <2>2, <2>3
<1>. QED
    BY <1>8, <1>9, <1>11, <1>12, <1>13, <1>14, <1>15, <1>16, <1>17

LEMMA AloneHolds ==
    ASSUME NEW r, Request = {r}, ~Faults
    PROVE  CatalogueSpec => []AloneInv(r)
<1>1. CatalogueInit => AloneInv(r)
    BY DEF CatalogueInit, AloneInv, ListsInv, CopyInv, Rest
<1>2. ASSUME CatInv, AloneInv(r), [CatalogueNext]_catVars
      PROVE  AloneInv(r)'
    <2>1. CASE Write(r)
        BY <1>2, <2>1, AloneBegins, AloneWrites DEF Write
    <2>2. CASE View(r)
        BY <1>2, <2>2, AloneBegins, AloneReads DEF View
    <2>3. CASE Account(r)
        BY <1>2, <2>3, AloneBegins, AloneReads, AloneWrites DEF Account
    <2>4. CASE UNCHANGED catVars
        BY <1>2, <2>4 DEF catVars, AloneInv, ListsInv, CopyInv, Unassigned, Lag, Active
    <2>5. CASE (\E e \in Student : Lookup(r, e)) \/ Refresh(r) \/ Invalidate(r) \/ Fail(r)
        BY <1>2, <2>5, AloneReads
    <2>. QED
        BY <1>2, <2>1, <2>2, <2>3, <2>4, <2>5 DEF CatalogueNext
<1>. QED
    BY <1>1, <1>2, CatInvHolds, PTL DEF CatalogueSpec

\* Requests one at a time, none of which fails: once a request has ended, every
\* invited student with an account is assigned, unless the users were replaced
\* (createAssessment, updateAssessment, checkAndProcessPendingInvitations).
THEOREM InvitationsAreKept ==
    ASSUME NEW r, Request = {r}, ~Faults
    PROVE  CatalogueSpec => []InvitedStudentsGetIn
<1>1. AloneInv(r) => InvitedStudentsGetIn
    BY DEF AloneInv, ListsInv, Unassigned, InvitedStudentsGetIn, Quiet, Rest
<1>2. CatalogueSpec => []AloneInv(r)
    BY AloneHolds
<1>. QED
    BY <1>1, <1>2, PTL

\* Requests one at a time, none of which fails: the cached copy lacks only what
\* the bypassing routes wrote (updateAssessment, activateAssessment,
\* deleteAssessment, getAssessmentById).
THEOREM CopyIsRefreshed ==
    ASSUME NEW r, Request = {r}, ~Faults
    PROVE  CatalogueSpec => []CopyLacksBypassesOnly
<1>1. AloneInv(r) => CopyLacksBypassesOnly
    BY DEF AloneInv, CopyInv, Lag, CopyLacksBypassesOnly, Quiet, Rest
<1>2. CatalogueSpec => []AloneInv(r)
    BY AloneHolds
<1>. QED
    BY <1>1, <1>2, PTL

-----------------------------------------------------------------------------
(* The status that a start sees *)

\* The assessment was deactivated after version n.
Deactivated(n) == \E v \in (n + 1)..version : writtenBy[v] = "deactivate"

\* A copy has the status of the assessment, but for a deactivation.
Truthful(c) == doc # NoDoc => c.status = doc.status \/ Deactivated(c.version)

\* A handler on its way to the copy holds the status that it wrote or read.
StatusInv(r) ==
    /\ copy # NoCopy /\ job[r].at \notin {"invalidate", "refresh"} => Truthful(copy)
    /\ job[r].at = "check" => Lag(job[r].saw.version) /\ Truthful(job[r].saw)
    /\ job[r].at = "refresh" \/ (job[r].at = "invalidate" /\ job[r].op = "update")
          => (doc # NoDoc => job[r].saw.status = doc.status)

\* A bypassing write that changes the status is a deactivation.
LEMMA StaysTruthful ==
    ASSUME CatInv, NEW op \in AllOps, NEW d, Store(op, d), doc # NoDoc,
           version + 1 \in 0..MaxRequests,
           d.status = doc.status \/ op = "deactivate",
           NEW c \in Copy, c.version <= version, Truthful(c)
    PROVE  Truthful(c)'
<1>1. version \in Nat /\ version' = version + 1 /\ doc' = d /\ c.version \in Nat
    BY CatalogueAssumption DEF CatInv, Store, Copy
<1>2. /\ writtenBy'[version + 1] = op
      /\ \A v \in 1..version : writtenBy'[v] = writtenBy[v]
    BY <1>1, CatalogueAssumption DEF CatInv, Store
<1>3. Deactivated(c.version) => Deactivated(c.version)'
    BY <1>1, <1>2 DEF Deactivated
<1>4. op = "deactivate" => Deactivated(c.version)'
    BY <1>1, <1>2 DEF Deactivated
<1>. QED
    BY <1>1, <1>3, <1>4 DEF Truthful

\* Copies are of versions that were written.
CopyWritten == copy # NoCopy => copy.version <= version

\* Nothing is written, and the request holds no copy.
LEMMA HoldsNoCopy ==
    ASSUME NEW r \in Request, StatusInv(r), NoWrite, copy' = copy,
           job[r].at \notin {"invalidate", "refresh"},
           job'[r].at \notin {"invalidate", "refresh", "check"}
    PROVE  StatusInv(r)'
BY DEF StatusInv, Truthful, Deactivated, NoWrite

LEMMA StatusBegins ==
    ASSUME CatInv, NEW r \in Request, AloneInv(r), StatusInv(r),
           \/ \E users \in SUBSET Active, emails \in SUBSET Student :
                  CreateBegins(r, users, emails)
           \/ \E users \in Users, colleges \in Colleges, emails \in Emails :
                  UpdateBegins(r, users, colleges, emails)
           \/ \E users \in SUBSET Active : AssignBegins(r, users)
           \/ ActivateBegins(r) \/ QuestionBegins(r) \/ ViewBegins(r)
           \/ \E s \in Student : StartBegins(r, s) \/ RegisterBegins(r, s)
                                 \/ RemoveBegins(r, s)
    PROVE  StatusInv(r)'
<1>1. job[r] = Rest /\ Rest.at = "idle" /\ NoWrite /\ copy' = copy
    BY DEF CreateBegins, UpdateBegins, AssignBegins, ActivateBegins, QuestionBegins,
           ViewBegins, StartBegins, RegisterBegins, RemoveBegins, Begin, Rest
<1>2. ASSUME NEW op, NEW j, Begin(r, op, j)
      PROVE  job'[r] = [j EXCEPT !.op = op]
    BY <1>2 DEF Begin, CatInv, JobsOK
<1>3. ASSUME NEW s \in Student, StartBegins(r, s)
      PROVE  StatusInv(r)'
    <2>. DEFINE k == [[Rest EXCEPT !.who = s, !.saw = copy,
                           !.at = IF copy = NoCopy THEN "fetch" ELSE "check"]
                         EXCEPT !.op = "start"]
    <2>1. job'[r] = k
        BY <1>2, <1>3 DEF StartBegins
    <2>2. k.saw = copy /\ k.at = IF copy = NoCopy THEN "fetch" ELSE "check"
        BY DEF Rest
    <2>. HIDE DEF k
    <2>3. CASE copy = NoCopy
        BY <1>1, <2>1, <2>2, <2>3, HoldsNoCopy
    <2>4. CASE copy # NoCopy
        <3>1. Lag(copy.version) /\ Truthful(copy)
            BY <1>1, <2>4 DEF AloneInv, CopyInv, StatusInv
        <3>. QED
            BY <1>1, <2>1, <2>2, <2>4, <3>1
               DEF StatusInv, Lag, Truthful, Deactivated, NoWrite
    <2>. QED
        BY <2>3, <2>4
\* The other requests begin without a copy.
<1>4. ASSUME NEW op, NEW j, Begin(r, op, j),
             j.at \in {"lists", "assign", "activate", "question", "fetch", "insert", "pull"},
             [j EXCEPT !.op = op].at = j.at
      PROVE  StatusInv(r)'
    BY <1>1, <1>2, <1>4, HoldsNoCopy
<1>5. ASSUME NEW users, NEW emails, CreateBegins(r, users, emails)
      PROVE  StatusInv(r)'
    <2>. DEFINE j == [Rest EXCEPT !.at = "lists", !.assigned = users,
                              !.invited = emails, !.todo = emails]
    <2>1. j.at = "lists" /\ [j EXCEPT !.op = "create"].at = j.at
        BY DEF Rest
    <2>2. Begin(r, "create", j)
        BY <1>5 DEF CreateBegins
    <2>. QED
        BY <1>4, <2>1, <2>2
<1>6. ASSUME NEW users, NEW colleges, NEW emails, UpdateBegins(r, users, colleges, emails)
      PROVE  StatusInv(r)'
    <2>1. PICK a, t : Begin(r, "update", [Rest EXCEPT !.at = "lists", !.assigned = a,
                                                      !.todo = t])
        BY <1>6 DEF UpdateBegins
    <2>. DEFINE j == [Rest EXCEPT !.at = "lists", !.assigned = a, !.todo = t]
    <2>2. j.at = "lists" /\ [j EXCEPT !.op = "update"].at = j.at
        BY DEF Rest
    <2>. QED
        BY <1>4, <2>1, <2>2
<1>7. ASSUME NEW users, AssignBegins(r, users)
      PROVE  StatusInv(r)'
    <2>. DEFINE j == [Rest EXCEPT !.at = "assign", !.assigned = users]
    <2>1. j.at = "assign" /\ [j EXCEPT !.op = "assign"].at = j.at
        BY DEF Rest
    <2>2. Begin(r, "assign", j)
        BY <1>7 DEF AssignBegins
    <2>. QED
        BY <1>4, <2>1, <2>2
<1>8. CASE ActivateBegins(r) \/ QuestionBegins(r) \/ ViewBegins(r)
    <2>1. \A op, at : /\ [[Rest EXCEPT !.at = at] EXCEPT !.op = op].at = at
                      /\ [Rest EXCEPT !.at = at].at = at
        BY DEF Rest
    <2>2. \E op : \E at \in {"activate", "question", "fetch"} :
              Begin(r, op, [Rest EXCEPT !.at = at])
        BY <1>8 DEF ActivateBegins, QuestionBegins, ViewBegins
    <2>. QED
        BY <1>4, <2>1, <2>2
<1>9. ASSUME NEW s \in Student, RegisterBegins(r, s) \/ RemoveBegins(r, s)
      PROVE  StatusInv(r)'
    <2>1. \A op, at : /\ [[Rest EXCEPT !.at = at, !.who = s] EXCEPT !.op = op].at = at
                      /\ [Rest EXCEPT !.at = at, !.who = s].at = at
        BY DEF Rest
    <2>2. \E op : \E at \in {"insert", "pull"} :
              Begin(r, op, [Rest EXCEPT !.at = at, !.who = s])
        BY <1>9 DEF RegisterBegins, RemoveBegins
    <2>. QED
        BY <1>4, <2>1, <2>2
<1>. QED
    BY <1>3, <1>5, <1>6, <1>7, <1>8, <1>9

LEMMA StatusReads ==
    ASSUME CatInv, ~Faults, NEW r \in Request, AloneInv(r), StatusInv(r),
           \/ \E e \in Student : Lookup(r, e)
           \/ Refresh(r) \/ Invalidate(r) \/ Fail(r)
           \/ Fetch(r) \/ Check(r) \/ Register(r) \/ Invited(r)
    PROVE  StatusInv(r)'
<1>1. /\ job[r] \in Job /\ NoWrite /\ version \in Nat
      /\ \A j : GoOn(r, j) => job'[r] = j
    BY DEF CatInv, JobsOK, Lookup, Refresh, Invalidate, Fail, Fetch, Check, Register,
           Invited, GoOn
<1>2. Rest.at = "idle" /\ (Finish(r) => job'[r] = Rest)
    BY <1>1 DEF Rest, Finish
<1>3. ASSUME NEW e \in Student, Lookup(r, e)
      PROVE  StatusInv(r)'
    <2>1. /\ [job[r] EXCEPT !.todo = @ \ {e}, !.assigned = @ \cup {e}].at = job[r].at
          /\ [job[r] EXCEPT !.todo = @ \ {e}, !.invited = @ \cup {e}].at = job[r].at
        BY <1>1 DEF Job
    <2>2. job[r].at = "lists" /\ job'[r].at = "lists" /\ copy' = copy
        BY <1>1, <1>3, <2>1 DEF Lookup
    <2>. QED
        BY <1>1, <2>2, HoldsNoCopy
<1>4. CASE Refresh(r)
    <2>. DEFINE k == [job[r] EXCEPT !.at = "check"]
    <2>1. k.at = "check" /\ k.saw = job[r].saw
        BY <1>1 DEF Job
    <2>2. /\ copy' = job[r].saw
          /\ job'[r] = Rest \/ job'[r] = k
          /\ job[r].saw.version = version
          /\ doc # NoDoc => job[r].saw.status = doc.status
        BY <1>1, <1>2, <1>4 DEF Refresh, AloneInv, CopyInv, StatusInv
    <2>. HIDE DEF k
    <2>3. Truthful(job[r].saw) /\ Lag(job[r].saw.version)
        BY <1>1, <2>2 DEF Truthful, Lag
    <2>4. doc' = doc /\ version' = version /\ writtenBy' = writtenBy
        BY <1>1 DEF NoWrite
    <2>5. Truthful(copy)' /\ Lag(copy.version)'
        BY <2>2, <2>3, <2>4 DEF Truthful, Lag, Deactivated
    <2>6. job'[r].at = "check" => job'[r].saw = copy'
        BY <1>2, <2>1, <2>2
    <2>7. job'[r].at \notin {"refresh", "invalidate"}
        BY <1>2, <2>1, <2>2
    <2>8. job'[r].at = "check" => Lag(job[r].saw.version)' /\ Truthful(job[r].saw)'
        BY <2>5, <2>6 DEF Truthful, Lag, Deactivated
    <2>. QED
        BY <2>5, <2>7, <2>8 DEF StatusInv
<1>5. CASE Invalidate(r)
    <2>. DEFINE k == [job[r] EXCEPT !.at = "refresh"]
    <2>1. k.at = "refresh" /\ k.saw = job[r].saw
        BY <1>1 DEF Job
    <2>2. /\ copy' = NoCopy /\ job[r].at = "invalidate"
          /\ \/ job'[r] = k /\ job[r].op = "update"
             \/ job'[r] = Rest
        BY <1>1, <1>2, <1>5 DEF Invalidate
    <2>. HIDE DEF k
    <2>. QED
        BY <1>1, <1>2, <2>1, <2>2 DEF StatusInv, NoWrite
<1>6. CASE Fail(r)
    BY <1>6 DEF Fail
<1>7. CASE Fetch(r)
    <2>. DEFINE k == [job[r] EXCEPT !.at = "refresh",
                        !.saw = [version |-> version, status |-> doc.status]]
    <2>1. k.at = "refresh" /\ k.saw.status = doc.status
        BY <1>1 DEF Job
    <2>2. job[r].at = "fetch" /\ copy' = copy /\ (job'[r] = Rest \/ job'[r] = k)
        BY <1>1, <1>2, <1>7 DEF Fetch
    <2>. HIDE DEF k
    <2>. QED
        BY <1>1, <1>2, <2>1, <2>2, HoldsNoCopy DEF StatusInv, NoWrite
<1>8. CASE Check(r)
    <2>1. job[r].at = "check" /\ copy' = copy /\ job'[r].at = "idle"
        BY <1>2, <1>8 DEF Check
    <2>. QED
        BY <1>1, <2>1, HoldsNoCopy
<1>9. CASE Register(r) \/ Invited(r)
    <2>1. /\ [job[r] EXCEPT !.at = "enrol"].at = "enrol"
          /\ [job[r] EXCEPT !.at = "add",
                            !.assigned = doc.assigned \cup {job[r].who},
                            !.invited = doc.invited \ {job[r].who}].at = "add"
        BY <1>1 DEF Job
    <2>2. /\ job[r].at \in {"insert", "enrol"} /\ copy' = copy
          /\ job'[r].at \in {"idle", "enrol", "add"}
        BY <1>1, <1>2, <1>9, <2>1 DEF Register, Invited
    <2>. QED
        BY <1>1, <2>2, HoldsNoCopy
<1>. QED
    BY <1>3, <1>4, <1>5, <1>6, <1>7, <1>8, <1>9

LEMMA StatusWrites ==
    ASSUME CatInv, NEW r \in Request, AloneInv(r), StatusInv(r), CopyWritten,
           \/ Create(r) \/ \E status \in Statuses : Update(r, status)
           \/ Activate(r) \/ Deactivate(r) \/ Assign(r) \/ AddQuestion(r) \/ Delete(r)
           \/ Enrol(r) \/ Remove(r)
    PROVE  StatusInv(r)'
<1>1. /\ job[r] \in Job /\ (doc # NoDoc => doc \in Doc) /\ version \in Nat
      /\ copy' = copy /\ (copy # NoCopy => copy \in Copy)
    BY DEF CatInv, JobsOK, Create, Update, Activate, Deactivate, Assign, AddQuestion,
           Delete, Enrol, Remove
<1>2. Rest.at = "idle" /\ (Finish(r) => job'[r] = Rest)
    BY DEF Rest, Finish, GoOn, CatInv, JobsOK
<1>3. job[r].at \in Writers => version + 1 \in 0..MaxRequests
    BY Room
<1>4. job[r].at \notin {"invalidate", "refresh"}
    BY <1>2 DEF Create, Update, Activate, Deactivate, Assign, AddQuestion, Delete,
                Enrol, Remove, AtOnce, Begin
\* Nothing was written.
<1>5. ASSUME NoWrite, Finish(r)
      PROVE  StatusInv(r)'
    BY <1>1, <1>2, <1>4, <1>5, HoldsNoCopy
\* A write that leaves the copy alone.
<1>6. ASSUME NEW op \in AllOps, NEW d, Store(op, d), doc # NoDoc, job'[r] = Rest,
             version + 1 \in 0..MaxRequests,
             d.status = doc.status \/ op = "deactivate"
      PROVE  StatusInv(r)'
    <2>1. ASSUME copy # NoCopy
          PROVE  Truthful(copy)'
        <3>1. Truthful(copy) /\ copy \in Copy /\ copy.version <= version
            BY <1>1, <1>4, <2>1 DEF StatusInv, CopyWritten
        <3>. DEFINE c == copy
        <3>2. c \in Copy /\ c.version <= version /\ Truthful(c)
            BY <3>1
        <3>3. ASSUME NEW e \in Copy, e.version <= version, Truthful(e)
              PROVE  Truthful(e)'
            BY <1>6, <3>3, StaysTruthful
        <3>4. \A e \in Copy : e = copy => Truthful(e)'
            BY <3>1, <3>3
        <3>. QED
            BY <1>1, <3>1, <3>4 DEF Truthful, Deactivated
    <2>. QED
        BY <1>1, <1>2, <1>6, <2>1 DEF StatusInv
\* A write whose handler goes on to the copy with the status that it wrote.
<1>7. ASSUME NEW op, NEW d, Store(op, d), job'[r].at \in {"refresh", "invalidate"},
             \/ d = NoDoc
             \/ job'[r].saw.status = d.status
      PROVE  StatusInv(r)'
    BY <1>7 DEF StatusInv, Store
<1>8. CASE Create(r)
    <2>1. copy' = NoCopy /\ job'[r] = Rest
        BY <1>1, <1>2, <1>8 DEF Create, AloneInv, CopyInv
    <2>. QED
        BY <1>2, <2>1 DEF StatusInv
<1>9. ASSUME NEW status \in Statuses, Update(r, status)
      PROVE  StatusInv(r)'
    <2>. DEFINE new == [doc EXCEPT !.assigned = job[r].assigned,
                                   !.invited = job[r].invited,
                                   !.status = IF status = Keep THEN @ ELSE status]
                k == [job[r] EXCEPT !.at = "invalidate", !.saw = Written(new)]
    <2>1. CASE doc = NoDoc
        BY <1>5, <1>9, <2>1 DEF Update
    <2>2. CASE doc # NoDoc
        <3>1. Store("update", new) /\ job'[r] = k
            BY <1>9, <2>2 DEF Update, GoOn, CatInv, JobsOK
        <3>2. k.at = "invalidate" /\ k.saw.status = new.status
            BY <1>1 DEF Job, Written
        <3>. HIDE DEF new, k
        <3>. QED
            BY <1>7, <3>1, <3>2
    <2>. QED
        BY <2>1, <2>2
<1>10. CASE Activate(r)
    <2>. DEFINE new == [doc EXCEPT !.status = "active"]
                k == [job[r] EXCEPT !.at = "refresh", !.saw = Written(new)]
    <2>1. CASE doc = NoDoc
        BY <1>5, <1>10, <2>1 DEF Activate
    <2>2. CASE doc # NoDoc
        <3>1. Store("activate", new) /\ job'[r] = k
            BY <1>10, <2>2 DEF Activate, GoOn, CatInv, JobsOK
        <3>2. k.at = "refresh" /\ k.saw.status = new.status
            BY <1>1 DEF Job, Written
        <3>. HIDE DEF new, k
        <3>. QED
            BY <1>7, <3>1, <3>2
    <2>. QED
        BY <2>1, <2>2
<1>11. CASE Delete(r)
    <2>. DEFINE k == [[Rest EXCEPT !.at = "invalidate"] EXCEPT !.op = "delete"]
    <2>1. Store("delete", NoDoc) /\ job'[r] = k
        BY <1>11 DEF Delete, Begin, CatInv, JobsOK
    <2>2. k.at = "invalidate"
        BY DEF Rest
    <2>. HIDE DEF k
    <2>. QED
        BY <1>7, <2>1, <2>2
<1>12. CASE Deactivate(r)
    <2>1. /\ doc # NoDoc /\ Store("deactivate", [doc EXCEPT !.status = "inactive"])
          /\ job'[r] = Rest /\ made < MaxRequests
        BY <1>12 DEF Deactivate, AtOnce
    <2>2. "deactivate" \in AllOps /\ version + 1 \in 0..MaxRequests
        BY <2>1, RoomAtOnce DEF AllOps
    <2>. QED
        BY <1>6, <2>1, <2>2
\* The other bypassing writes keep the status.
<1>13. CASE Assign(r) \/ AddQuestion(r) \/ Enrol(r) \/ Remove(r)
    <2>1. job[r].at \in {"assign", "question", "add", "pull"} /\ Finish(r)
        BY <1>13 DEF Assign, AddQuestion, Enrol, Remove
    <2>2. version + 1 \in 0..MaxRequests /\ job'[r] = Rest
        BY <1>2, <1>3, <2>1 DEF Writers
    <2>3. CASE NoWrite
        BY <1>5, <2>1, <2>3
    <2>4. CASE ~NoWrite
        <3>1. doc # NoDoc
            BY <1>13, <2>4 DEF Assign, AddQuestion, Enrol, Remove
        <3>2. /\ [doc EXCEPT !.assigned = job[r].assigned].status = doc.status
              /\ [doc EXCEPT !.assigned = job[r].assigned,
                             !.invited = job[r].invited].status = doc.status
              /\ [doc EXCEPT !.assigned = @ \ {job[r].who}].status = doc.status
            BY <1>1, <3>1 DEF Doc
        <3>3. \E op \in {"assign", "question", "register", "remove"} :
                 \E d : Store(op, d) /\ d.status = doc.status
            BY <1>13, <2>4, <3>1, <3>2 DEF Assign, AddQuestion, Enrol, Remove
        <3>4. {"assign", "question", "register", "remove"} \subseteq AllOps
            BY DEF AllOps
        <3>. QED
            BY <1>6, <2>2, <3>1, <3>3, <3>4
    <2>. QED
        BY <2>3, <2>4
<1>. QED
    BY <1>8, <1>9, <1>10, <1>11, <1>12, <1>13

LEMMA CopyStaysWritten ==
    ASSUME CatInv, ~Faults, NEW r, Request = {r}, AloneInv(r), CopyWritten,
           [CatalogueNext]_catVars
    PROVE  CopyWritten'
<1>1. /\ version \in Nat
      /\ copy # NoCopy => copy.version \in Nat
    BY CatalogueAssumption DEF CatInv, Copy
<1>2. ASSUME copy' = copy, NoWrite \/ \E op, d : Store(op, d)
      PROVE  CopyWritten'
    <2>1. version' = version \/ version' = version + 1
        BY <1>2 DEF NoWrite, Store
    <2>. QED
        BY <1>1, <1>2, <2>1 DEF CopyWritten
<1>3. CASE Refresh(r)
    <2>1. copy' = job[r].saw /\ job[r].saw.version = version /\ version' = version
        BY <1>3 DEF Refresh, AloneInv, CopyInv, NoWrite
    <2>. QED
        BY <1>1, <2>1 DEF CopyWritten
<1>4. CASE Invalidate(r)
    BY <1>4 DEF Invalidate, CopyWritten
<1>5. CASE (\E e \in Student : Lookup(r, e)) \/ Fail(r)
    BY <1>2, <1>5 DEF Lookup, Fail
<1>6. CASE Write(r)
    BY <1>2, <1>6
       DEF Write, CreateBegins, Create, UpdateBegins, Update, ActivateBegins, Activate,
           Deactivate, AssignBegins, Assign, QuestionBegins, AddQuestion, Delete
<1>7. CASE View(r)
    BY <1>2, <1>7 DEF View, ViewBegins, Fetch, Check, StartBegins
<1>8. CASE Account(r)
    BY <1>2, <1>8 DEF Account, RegisterBegins, RemoveBegins, Register, Invited, Enrol, Remove
<1>9. CASE UNCHANGED catVars
    BY <1>2, <1>9 DEF catVars, NoWrite
<1>. QED
    BY <1>3, <1>4, <1>5, <1>6, <1>7, <1>8, <1>9 DEF CatalogueNext

LEMMA StatusHolds ==
    ASSUME NEW r, Request = {r}, ~Faults
    PROVE  CatalogueSpec => [](CopyWritten /\ StatusInv(r))
<1>1. CatalogueInit => CopyWritten /\ StatusInv(r)
    BY DEF CatalogueInit, CopyWritten, StatusInv, Rest
<1>2. ASSUME CatInv, AloneInv(r), CopyWritten, StatusInv(r), [CatalogueNext]_catVars
      PROVE  (CopyWritten /\ StatusInv(r))'
    <2>1. CopyWritten'
        BY <1>2, CopyStaysWritten
    <2>2. StatusInv(r)'
        <3>1. CASE Write(r)
            BY <1>2, <3>1, StatusBegins, StatusWrites DEF Write
        <3>2. CASE View(r)
            BY <1>2, <3>2, StatusBegins, StatusReads DEF View
        <3>3. CASE Account(r)
            BY <1>2, <3>3, StatusBegins, StatusReads, StatusWrites DEF Account
        <3>4. CASE UNCHANGED catVars
            BY <1>2, <3>4 DEF catVars, StatusInv, Truthful, Deactivated, Lag
        <3>5. CASE (\E e \in Student : Lookup(r, e)) \/ Refresh(r) \/ Invalidate(r) \/ Fail(r)
            BY <1>2, <3>5, StatusReads
        <3>. QED
            BY <1>2, <3>1, <3>2, <3>3, <3>4, <3>5 DEF CatalogueNext
    <2>. QED
        BY <2>1, <2>2
<1>3. CatalogueSpec => []AloneInv(r)
    BY AloneHolds
<1>. QED
    BY <1>1, <1>2, <1>3, CatInvHolds, PTL DEF CatalogueSpec

\* Requests one at a time, none of which fails: a start of an assessment that is
\* not active comes after a deactivation, since which nothing has refreshed the
\* copy (startAssessment, updateAssessment, deactivateAssessment).
THEOREM StatusIsMissedAfterDeactivations ==
    ASSUME NEW r, Request = {r}, ~Faults
    PROVE  CatalogueSpec => StartsMissDeactivationsOnly
<1>. DEFINE Justified ==
        /\ doc # NoDoc
        /\ \/ doc.status = "active"
           \/ \E v \in 1..version :
                 /\ writtenBy[v] = "deactivate"
                 /\ \A w \in (v + 1)..version : writtenBy[w] \in Bypassing
\* Only the check of a start admits anybody.
<1>1. ASSUME CatInv, [CatalogueNext]_catVars, admitted' # admitted
      PROVE  Check(r)
    <2>1. CatalogueNext
        BY <1>1 DEF catVars
    <2>2. /\ ~Refresh(r) /\ ~Invalidate(r) /\ ~Fail(r)
          /\ ~\E e \in Student : Lookup(r, e)
        BY <1>1 DEF Refresh, Invalidate, Fail, Lookup
    <2>3. ~Write(r)
        BY <1>1 DEF Write, CreateBegins, Create, UpdateBegins, Update, ActivateBegins,
                    Activate, Deactivate, AssignBegins, Assign, QuestionBegins,
                    AddQuestion, Delete
    <2>4. ~Account(r)
        BY <1>1 DEF Account, RegisterBegins, RemoveBegins, Register, Invited, Enrol, Remove
    <2>. QED
        BY <1>1, <2>1, <2>2, <2>3, <2>4
           DEF CatalogueNext, View, ViewBegins, StartBegins, Fetch
<1>2. ASSUME CatInv, StatusInv(r), [CatalogueNext]_catVars, admitted' # admitted
      PROVE  Justified
    <2>1. /\ job[r].at = "check" /\ job[r].saw.status = "active" /\ doc # NoDoc
        BY <1>1, <1>2 DEF Check
    <2>2. /\ Lag(job[r].saw.version)
          /\ doc.status = "active" \/ Deactivated(job[r].saw.version)
        BY <1>2, <2>1 DEF StatusInv, Truthful
    <2>3. version \in Nat /\ job[r].saw.version \in Nat
        BY <1>2, <2>1, Busy, CatalogueAssumption DEF CatInv, JobOK, Job, Copy
    <2>4. ASSUME Deactivated(job[r].saw.version)
          PROVE  Justified
        <3>1. PICK v \in (job[r].saw.version + 1)..version : writtenBy[v] = "deactivate"
            BY <2>4 DEF Deactivated
        <3>2. v \in 1..version
            BY <2>3, <3>1
        <3>3. \A w \in (v + 1)..version : writtenBy[w] \in Bypassing
            BY <2>2, <2>3, <3>1 DEF Lag
        <3>. QED
            BY <2>1, <3>1, <3>2, <3>3
    <2>. QED
        BY <2>1, <2>2, <2>4
<1>. HIDE DEF Justified
<1>3. CatInv /\ StatusInv(r) /\ [CatalogueNext]_catVars
         => [admitted' # admitted => Justified]_catVars
    BY <1>2
<1>4. CatalogueSpec => [](CopyWritten /\ StatusInv(r))
    BY StatusHolds
<1>5. CatalogueSpec => [][admitted' # admitted => Justified]_catVars
    BY <1>3, <1>4, CatInvHolds, PTL DEF CatalogueSpec
<1>. QED
    BY <1>5 DEF Justified, StartsMissDeactivationsOnly

===============================================================================
