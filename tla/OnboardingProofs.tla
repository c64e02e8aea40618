--------------------------- MODULE OnboardingProofs ---------------------------
(***************************************************************************)
(* The safety properties of Onboarding, for any number of calls, accounts, *)
(* companies and addresses.                                                *)
(***************************************************************************)
EXTENDS Onboarding, SequenceTheorems, TLAPS

CompanyRows == [name : Names, email : Emails \cup {None}, status : CompanyStatuses] \cup {NoCompany}
UserRows == AccountRows \cup {NoAccount, Deleted}
CallRows == [step : Steps, kind : Kinds \cup {None}, email : Emails \cup {None},
             name : Names \cup {None}, companyId : Companies \cup {None},
             keepsEmail : BOOLEAN, req : Nat, userId : Accounts \cup {None},
             status : CompanyStatuses \cup {None}, ended : SUBSET Calls]

\* The types of the tables, the calls left out.
TablesOK ==
    /\ company \in [Companies -> CompanyRows]
    /\ account \in [Accounts -> UserRows]
    /\ requests \in Seq(Requests)
    /\ touched \subseteq Accounts
    /\ removed \subseteq Emails
    /\ overwritten \subseteq DOMAIN requests

AgentReviews == {"approveAgent", "rejectAgent"}

\* What a call in progress knows still fits the tables, whatever the others have done.
Knows(c) ==
    LET q == call[c] IN
    /\ q.step = "create_company_request" => q.email \in Emails /\ q.name \in Names
    /\ q.step = "create_agent_request" => q.email \in Emails /\ q.companyId \in Companies
    /\ q.step = "review" =>
         /\ q.req \in DOMAIN requests /\ q.kind \in Reviews
         /\ q.kind \in AgentReviews <=> requests[q.req].kind = "agent"
         /\ q.kind = "approveCompany" => q.status \in {"ACTIVE", "TRIAL"}
         /\ q.userId # None => \/ account[q.userId] = Deleted
                               \/ account[q.userId].email = requests[q.req].email
         /\ q.kind \in AgentReviews /\ q.userId = None => requests[q.req].email \in removed

CallsKnow == \A c \in Calls : Knows(c)

\* A company's request has a name, an agent's a company.
RequestsKnow ==
    \A r \in DOMAIN requests :
        /\ requests[r].kind = "company" => requests[r].name \in Names /\ requests[r].userId = None
        /\ requests[r].kind = "agent" => requests[r].companyId \in Companies

\* The unique index on the email of a user.
UniqueEmails ==
    \A u, v \in Accounts : account[u].email = account[v].email /\ Exists(u) => u = v

\* An address that has lost no account keeps the one its registration created.
RequestsHaveAccounts ==
    \A r \in DOMAIN requests :
        requests[r].email \notin removed => \E u \in Accounts : account[u].email = requests[r].email

\* The user that a request names has its address.
UsersOfRequests ==
    \A r \in DOMAIN requests :
        LET q == requests[r] IN
        /\ q.userId # None => account[q.userId].email = q.email
        /\ q.kind = "agent" /\ q.email \notin removed => q.userId # None

\* The account of a company's registration is an administrator's, approved from the start.
AdminsApproved ==
    \A r \in DOMAIN requests, u \in Accounts :
        /\ requests[r].kind = "company" /\ requests[r].email \notin removed
        /\ account[u].email = requests[r].email
        => account[u].role = "COMPANY_ADMIN" /\ account[u].approvalStatus = "APPROVED"

\* Nobody is active before the approval.
ActiveApproved ==
    \A u \in Accounts : 
        Exists(u) /\ account[u].email \notin removed /\ account[u].isActive => account[u].approvalStatus = "APPROVED"

\* What ties the tables together: by address, and by status.
IdInv == UniqueEmails /\ RequestsHaveAccounts /\ OneRegistrationPerAddress /\ UsersOfRequests
StInv == AdminsApproved /\ ActiveApproved /\ AccountFollowsRequest

TablesInv == TablesOK /\ RequestsKnow /\ IdInv /\ StInv

IInv == TablesInv /\ call \in [Calls -> CallRows] /\ CallsKnow

\* What no step takes back: requests keep their kind and their address, an account
\* its address until it is deleted, and then for good.
Stable ==
    /\ \A r \in DOMAIN requests : /\ r \in DOMAIN requests'
                                  /\ requests'[r].kind = requests[r].kind
                                  /\ requests'[r].email = requests[r].email
    /\ removed \subseteq removed'
    /\ \A u \in Accounts :
          /\ account[u] = Deleted => account'[u] = Deleted
          /\ Exists(u) => account'[u] = Deleted \/ account'[u].email = account[u].email

-----------------------------------------------------------------------------
(* Types *)

LEMMA TypeParts == TypeOK <=> TablesOK /\ call \in [Calls -> CallRows]
BY DEF TypeOK, TablesOK, CompanyRows, UserRows, CallRows

\* An account that exists is a row.
LEMMA ExistingRow ==
    ASSUME TablesOK, NEW u \in Accounts
    PROVE  /\ account[u] \in UserRows
           /\ Exists(u) <=> account[u] \in AccountRows
           /\ account[u] = NoAccount \/ account[u] = Deleted => account[u].email = None
BY OnboardingAssumption
   DEF TablesOK, UserRows, Exists, AccountRows, NoAccount, Deleted, Account

\* A write of one account.
LEMMA AccountWrite ==
    ASSUME TablesOK, NEW u \in Accounts, NEW row \in UserRows, account' = [account EXCEPT ![u] = row]
    PROVE  /\ account' \in [Accounts -> UserRows]
           /\ account'[u] = row
           /\ \A v \in Accounts : v # u => account'[v] = account[v]
BY DEF TablesOK

LEMMA CompanyWrite ==
    ASSUME TablesOK, NEW k \in Companies, NEW name \in Names, NEW email \in Emails \cup {None},
           NEW status \in CompanyStatuses,
           company' = [company EXCEPT ![k] = Company(name, email, status)]
    PROVE  company' \in [Companies -> CompanyRows]
BY DEF TablesOK, CompanyRows, Company

\* A write of the status of a company that exists.
LEMMA CompanyStatusWrite ==
    ASSUME TablesOK, NEW k \in Companies, NEW status \in CompanyStatuses, company[k] # NoCompany,
           company' = [company EXCEPT ![k].status = status]
    PROVE  company' \in [Companies -> CompanyRows]
<1>1. company[k] \in [name : Names, email : Emails \cup {None}, status : CompanyStatuses]
  BY DEF TablesOK, CompanyRows
<1>2. [company[k] EXCEPT !.status = status] \in CompanyRows
  BY <1>1 DEF CompanyRows
<1>3. company' = [company EXCEPT ![k] = [company[k] EXCEPT !.status = status]]
  OBVIOUS
<1>4. QED
  BY <1>2, <1>3 DEF TablesOK

\* The rows of the requests.
LEMMA RequestRows ==
    ASSUME requests \in Seq(Requests)
    PROVE  \A r \in DOMAIN requests : requests[r] \in Requests
BY LenProperties

\* A function on the positions of the requests is a sequence of requests.
LEMMA RequestsMap ==
    ASSUME requests \in Seq(Requests), NEW f \in [DOMAIN requests -> Requests]
    PROVE  f \in Seq(Requests)
<1>1. DOMAIN requests = 1..Len(requests) /\ Len(requests) \in Nat
  BY LenProperties
<1>2. f \in [1..Len(requests) -> Requests]
  BY <1>1
<1>3. QED
  BY <1>1, <1>2, SeqDef

\* A write of one request.
LEMMA RequestWrite ==
    ASSUME requests \in Seq(Requests), NEW r \in DOMAIN requests, NEW row \in Requests,
           requests' = [requests EXCEPT ![r] = row]
    PROVE  /\ requests' \in Seq(Requests)
           /\ DOMAIN requests' = DOMAIN requests
           /\ requests'[r] = row
           /\ \A p \in DOMAIN requests : p # r => requests'[p] = requests[p]
<1>1. DOMAIN requests = 1..Len(requests)
  BY LenProperties
<1>2. [requests EXCEPT ![r] = row] \in Seq(Requests)
  BY <1>1, ExceptSeq
<1>3. QED
  BY <1>2

\* What the decision of a request writes.
LEMMA DecidedEffect ==
    ASSUME requests \in Seq(Requests), NEW r \in DOMAIN requests, NEW s \in RequestStatuses,
           Decided(r, s)
    PROVE  /\ requests' \in Seq(Requests)
           /\ DOMAIN requests' = DOMAIN requests
           /\ \A p \in DOMAIN requests :
                 /\ requests'[p].kind = requests[p].kind
                 /\ requests'[p].name = requests[p].name
                 /\ requests'[p].email = requests[p].email
                 /\ requests'[p].companyId = requests[p].companyId
                 /\ requests'[p].userId = requests[p].userId
           /\ requests'[r].status = s
           /\ \A p \in DOMAIN requests : p # r => requests'[p] = requests[p]
<1> DEFINE row == [requests[r] EXCEPT !.status = s]
<1>1. requests[r] \in Requests
  BY RequestRows
<1>2. /\ row \in Requests /\ row.status = s /\ row.kind = requests[r].kind
      /\ row.name = requests[r].name /\ row.email = requests[r].email
      /\ row.companyId = requests[r].companyId /\ row.userId = requests[r].userId
  BY <1>1 DEF Requests
<1>3. requests' = [requests EXCEPT ![r] = row]
  BY DEF Decided
<1> HIDE DEF row
<1>4. /\ requests' \in Seq(Requests) /\ DOMAIN requests' = DOMAIN requests /\ requests'[r] = row
      /\ \A p \in DOMAIN requests : p # r => requests'[p] = requests[p]
  BY <1>2, <1>3, RequestWrite
<1>5. QED
  BY <1>2, <1>4

\* A new request has a place of its own.
LEMMA AppendEffect ==
    ASSUME requests \in Seq(Requests), NEW row \in Requests, requests' = Append(requests, row)
    PROVE  /\ requests' \in Seq(Requests)
           /\ \E n : /\ n \notin DOMAIN requests /\ DOMAIN requests' = DOMAIN requests \cup {n}
                     /\ requests'[n] = row
           /\ \A p \in DOMAIN requests : requests'[p] = requests[p]
<1> DEFINE n == Len(requests) + 1
<1>1. Len(requests) \in Nat /\ DOMAIN requests = 1..Len(requests)
  BY LenProperties
<1>2. /\ requests' \in Seq(Requests) /\ Len(requests') = n /\ requests'[n] = row
      /\ \A p \in DOMAIN requests : requests'[p] = requests[p]
  BY <1>1
<1>3. DOMAIN requests' = 1..n
  BY <1>2, LenProperties
<1>4. n \notin DOMAIN requests /\ 1..n = DOMAIN requests \cup {n}
  BY <1>1
<1>5. QED
  BY <1>2, <1>3, <1>4

-----------------------------------------------------------------------------
(* Calls *)

LEMMA NewCallRow == NewCall \in CallRows /\ NewCall.step = "idle"
BY DEF NewCall, CallRows, Steps

LEMMA EndEffect ==
    ASSUME call \in [Calls -> CallRows], NEW c \in Calls, End(c)
    PROVE  /\ call' \in [Calls -> CallRows]
           /\ call'[c].step = "done"
           /\ \A d \in Calls : d # c => call'[d] = call[d]
<1> DEFINE row == [NewCall EXCEPT !.step = "done", !.kind = call[c].kind, !.req = call[c].req,
                                  !.ended = call[c].ended]
<1>1. row \in CallRows /\ row.step = "done"
  BY DEF NewCall, CallRows, Steps
<1>2. call' = [call EXCEPT ![c] = row]
  BY DEF End
<1>3. QED
  BY <1>1, <1>2

LEMMA AtOnceEffect ==
    ASSUME call \in [Calls -> CallRows], NEW c \in Calls, NEW kind, AtOnce(c, kind)
    PROVE  /\ call' \in [Calls -> CallRows]
           /\ call'[c].step = "done"
           /\ \A d \in Calls : d # c => call'[d] = call[d]
<1> DEFINE row == [NewCall EXCEPT !.step = "done", !.kind = kind, !.ended = Ended]
<1>1. Ended \subseteq Calls /\ kind \in Kinds
  BY DEF Ended, AtOnce
<1>2. row \in CallRows /\ row.step = "done"
  BY <1>1 DEF NewCall, CallRows, Steps
<1>3. call' = [call EXCEPT ![c] = row]
  BY DEF AtOnce
<1>4. QED
  BY <1>2, <1>3

\* A call that is refused when it begins.
LEMMA RefusedRow ==
    LET row == [NewCall EXCEPT !.step = "done"] IN row \in CallRows /\ row.step = "done"
BY DEF NewCall, CallRows, Steps

\* A call that begins is refused at once, or knows what it has read.
LEMMA BeginEffect ==
    ASSUME call \in [Calls -> CallRows], NEW c \in Calls, NEW kind, NEW admitted \in BOOLEAN,
           NEW first \in CallRows, Begin(c, kind, admitted, first)
    PROVE  /\ call' \in [Calls -> CallRows]
           /\ \/ call'[c].step = "done"
              \/ /\ admitted
                 /\ call'[c].step = first.step /\ call'[c].kind = kind /\ call'[c].req = first.req
                 /\ call'[c].email = first.email /\ call'[c].name = first.name
                 /\ call'[c].companyId = first.companyId /\ call'[c].userId = first.userId
                 /\ call'[c].status = first.status
           /\ \A d \in Calls : d # c => call'[d] = call[d]
<1> DEFINE before == IF admitted THEN first ELSE [NewCall EXCEPT !.step = "done"]
           row == [before EXCEPT !.kind = kind, !.ended = Ended]
<1>1. Ended \subseteq Calls /\ kind \in Kinds
  BY DEF Ended, Begin
<1>2. before \in CallRows /\ ((admitted /\ before = first) \/ before.step = "done")
  BY RefusedRow
<1> HIDE DEF before
<1>3. /\ row \in CallRows /\ row.step = before.step /\ row.kind = kind
      /\ row.email = before.email /\ row.name = before.name /\ row.req = before.req
      /\ row.companyId = before.companyId /\ row.userId = before.userId
      /\ row.status = before.status
  BY <1>1, <1>2 DEF CallRows
<1>4. call' = [call EXCEPT ![c] = row]
  BY DEF Begin, before
<1> HIDE DEF row
<1>5. /\ call' \in [Calls -> CallRows] /\ call'[c] = row
      /\ \A d \in Calls : d # c => call'[d] = call[d]
  BY <1>3, <1>4
<1>6. QED
  BY <1>2, <1>3, <1>5

\* What a call knows survives the writes of the others.
LEMMA KnowsKept ==
    ASSUME TablesOK, call \in [Calls -> CallRows], Stable, NEW d \in Calls, Knows(d),
           call'[d] = call[d]
    PROVE  Knows(d)'
<1>1. call[d] \in CallRows
  OBVIOUS
<1>2. \A r \in DOMAIN requests : requests[r].email \in Emails
  BY RequestRows DEF TablesOK, Requests
<1>3. \A u \in Accounts : account[u].email \in Emails => Exists(u)
  BY OnboardingAssumption DEF Exists
<1> DEFINE q == call[d]
<1>4. ASSUME q.step = "review"
      PROVE  /\ q.req \in DOMAIN requests' /\ q.kind \in Reviews
             /\ q.kind \in AgentReviews <=> requests'[q.req].kind = "agent"
             /\ q.kind = "approveCompany" => q.status \in {"ACTIVE", "TRIAL"}
             /\ q.kind \in AgentReviews /\ q.userId = None => requests'[q.req].email \in removed'
  BY <1>4 DEF Knows, Stable
<1>5. ASSUME q.step = "review", q.userId # None
      PROVE  \/ account'[q.userId] = Deleted
             \/ account'[q.userId].email = requests'[q.req].email
  <2>1. q.userId \in Accounts /\ q.req \in DOMAIN requests
    BY <1>1, <1>5 DEF CallRows, Knows
  <2>2. CASE account[q.userId] = Deleted
    BY <2>1, <2>2 DEF Stable
  <2>3. CASE account[q.userId].email = requests[q.req].email
    BY <1>2, <1>3, <2>1, <2>3 DEF Stable
  <2>4. QED
    BY <1>5, <2>2, <2>3 DEF Knows
<1>6. QED
  BY <1>4, <1>5 DEF Knows

\* From the tables, and from the one call that moves, to the invariant.
LEMMA Combine ==
    ASSUME IInv, TablesInv', Stable, NEW c \in Calls, call' \in [Calls -> CallRows],
           \A d \in Calls : d # c => call'[d] = call[d],
           call'[c].step = "done" \/ Knows(c)'
    PROVE  IInv'
<1>1. Knows(c)'
  BY DEF Knows
<1>2. \A d \in Calls : d # c => Knows(d)'
  BY KnowsKept DEF IInv, TablesInv, CallsKnow
<1>3. QED
  BY <1>1, <1>2 DEF IInv, CallsKnow

\* A step that leaves the tables alone.
LEMMA TablesKept ==
    ASSUME TablesInv, UNCHANGED <<company, account, requests, touched, removed, overwritten>>
    PROVE  TablesInv' /\ Stable
BY DEF TablesInv, TablesOK, RequestsKnow, IdInv, UniqueEmails, Exists, RequestsHaveAccounts,
       OneRegistrationPerAddress, UsersOfRequests, StInv, AdminsApproved, ActiveApproved,
       AccountFollowsRequest, Stable

LEMMA RefusedKeeps ==
    ASSUME IInv, NEW c \in Calls, Refused(c)
    PROVE  IInv'
BY TablesKept, EndEffect, Combine DEF Refused, IInv

-----------------------------------------------------------------------------
(* Entries that only read *)

LEMMA BeginKeeps ==
    ASSUME IInv, NEW c \in Calls, NEW kind, NEW admitted \in BOOLEAN, NEW first \in CallRows,
           Begin(c, kind, admitted, first),
           call'[c].step = "done" \/ Knows(c)'
    PROVE  IInv'
BY TablesKept, BeginEffect, Combine DEF Begin, IInv

\* The company found by name or by email, when there is one.
LEMMA FoundCompany ==
    ASSUME NEW found \in SUBSET Companies
    PROVE  (IF found = {} THEN None ELSE CHOOSE j \in found : TRUE) \in Companies \cup {None}
OBVIOUS

LEMMA registerCompanyKeeps ==
    ASSUME IInv, NEW c \in Calls, NEW email \in Emails, NEW name \in Names,
           registerCompany(c, email, name)
    PROVE  IInv'
<1> DEFINE found == IF Named(name) # {} THEN Named(name) ELSE WithEmail(email)
           k == IF found = {} THEN None ELSE CHOOSE j \in found : TRUE
           keeps == k # None /\ company[k].email \notin {None, email}
           admitted == /\ AccountsOf(email) = {}
                       /\ LatestStatus("company", email) \subseteq {"REJECTED", "APPROVED"}
                       /\ Named(name) = {} \/ WithEmail(email) = {} \/ Named(name) = WithEmail(email)
                       /\ k # None => ~isActive(k)
           first == [NewCall EXCEPT !.step = "create_company_request", !.email = email,
                                    !.name = name, !.companyId = k, !.keepsEmail = keeps]
<1>1. found \in SUBSET Companies
  BY DEF Named, WithEmail
<1> HIDE DEF found
<1>2. k \in Companies \cup {None}
  BY <1>1, FoundCompany
<1> HIDE DEF k
<1>3. keeps \in BOOLEAN /\ admitted \in BOOLEAN
  OBVIOUS
<1>4. Begin(c, "registerCompany", admitted, first)
  BY DEF registerCompany, found, k
<1> HIDE DEF keeps, admitted
<1>5. /\ first \in CallRows /\ first.step = "create_company_request"
      /\ first.email = email /\ first.name = name
  BY <1>2, <1>3 DEF NewCall, CallRows, Steps
<1> HIDE DEF first
<1>6. call'[c].step = "done" \/ /\ call'[c].step = "create_company_request"
                                /\ call'[c].email = email /\ call'[c].name = name
  BY <1>3, <1>4, <1>5, BeginEffect DEF IInv
<1>7. call'[c].step = "done" \/ Knows(c)'
  BY <1>6 DEF Knows
<1>8. QED
  BY <1>3, <1>4, <1>5, <1>7, BeginKeeps

LEMMA registerAgentKeeps ==
    ASSUME IInv, NEW c \in Calls, NEW email \in Emails, NEW name \in Names,
           registerAgent(c, email, name)
    PROVE  IInv'
<1> DEFINE k == IF Named(name) = {} THEN None ELSE CHOOSE j \in Named(name) : TRUE
           admitted == /\ AccountsOf(email) = {} /\ Named(name) # {}
                       /\ LatestStatus("agent", email) \subseteq {"REJECTED"}
           first == [NewCall EXCEPT !.step = "create_agent_request", !.email = email, !.companyId = k]
<1>1. /\ Named(name) \in SUBSET Companies
      /\ Named(name) # {} => k \in Companies
  BY DEF Named
<1>2. k \in Companies \cup {None}
  BY <1>1
<1>3. admitted \in BOOLEAN /\ (admitted => k \in Companies)
  BY <1>1
<1>4. Begin(c, "registerAgent", admitted, first)
  BY DEF registerAgent
<1> HIDE DEF k, admitted
<1>5. /\ first \in CallRows /\ first.step = "create_agent_request"
      /\ first.email = email /\ first.companyId = k
  BY <1>2 DEF NewCall, CallRows, Steps
<1> HIDE DEF first
<1>6. call'[c].step = "done" \/ /\ call'[c].step = "create_agent_request"
                                /\ call'[c].email = email /\ call'[c].companyId \in Companies
  BY <1>3, <1>4, <1>5, BeginEffect DEF IInv
<1>7. call'[c].step = "done" \/ Knows(c)'
  BY <1>6 DEF Knows
<1>8. QED
  BY <1>3, <1>4, <1>5, <1>7, BeginKeeps

\* A review keeps the user that the request named.
LEMMA BeginReviewKeeps ==
    ASSUME IInv, NEW c \in Calls, NEW kind \in Reviews, NEW r \in DOMAIN requests, NEW statuses,
           NEW status \in {"ACTIVE", "TRIAL", None},
           kind \in AgentReviews <=> requests[r].kind = "agent",
           kind = "approveCompany" => status \in {"ACTIVE", "TRIAL"},
           BeginReview(c, kind, r, statuses, status)
    PROVE  IInv'
<1> DEFINE admitted == requests[r].status \in statuses
           first == [NewCall EXCEPT !.step = "review", !.req = r, !.userId = requests[r].userId,
                                    !.status = status]
<1>1. requests[r] \in Requests /\ r \in Nat
  <2>1. requests \in Seq(Requests)
    BY DEF IInv, TablesInv, TablesOK
  <2>2. DOMAIN requests = 1..Len(requests)
    BY <2>1, LenProperties
  <2>3. QED
    BY <2>1, <2>2, RequestRows
<1>2. /\ first \in CallRows /\ first.step = "review" /\ first.req = r
      /\ first.userId = requests[r].userId /\ first.status = status
  BY <1>1 DEF NewCall, CallRows, Steps, Requests, CompanyStatuses
<1>3. Begin(c, kind, admitted, first) /\ admitted \in BOOLEAN
  BY DEF BeginReview
<1> HIDE DEF admitted, first
<1>4. call'[c].step = "done" \/ /\ call'[c].step = "review" /\ call'[c].req = r
                                /\ call'[c].kind = kind /\ call'[c].status = status
                                /\ call'[c].userId = requests[r].userId
  BY <1>2, <1>3, BeginEffect DEF IInv
<1>5. UNCHANGED <<account, requests, removed>>
  BY <1>3 DEF Begin
<1>6. requests[r].userId # None => account[requests[r].userId].email = requests[r].email
  BY DEF IInv, TablesInv, IdInv, UsersOfRequests
<1>7. kind \in AgentReviews /\ requests[r].userId = None => requests[r].email \in removed
  BY DEF IInv, TablesInv, IdInv, UsersOfRequests
<1>8. ASSUME call'[c].step # "done" PROVE Knows(c)'
  BY <1>4, <1>5, <1>6, <1>7, <1>8 DEF Knows
<1>9. QED
  BY <1>2, <1>3, <1>8, BeginKeeps

-----------------------------------------------------------------------------
(* Three shapes of writes: what they keep of the ties by address *)

\* The requests keep what they say, their status and their user aside.
SameRequests ==
    /\ DOMAIN requests' = DOMAIN requests
    /\ \A r \in DOMAIN requests :
          /\ requests'[r].kind = requests[r].kind
          /\ requests'[r].name = requests[r].name
          /\ requests'[r].email = requests[r].email
          /\ requests'[r].companyId = requests[r].companyId

\* The user of a request is the same, or another one with its address.
SameUsers ==
    \A r \in DOMAIN requests :
        \/ requests'[r].userId = requests[r].userId
        \/ /\ requests'[r].userId \in Accounts /\ requests'[r].userId # None
           /\ account'[requests'[r].userId].email = requests[r].email
           /\ requests[r].kind = "agent"

\* Every account keeps its address.
SameAddresses ==
    \A u \in Accounts : /\ account'[u].email = account[u].email
                        /\ account[u] = Deleted => account'[u] = Deleted

\* u is a new account with an address that nobody has.
NewAccount(u, email) ==
    /\ account[u] = NoAccount /\ AccountsOf(email) = {}
    /\ account'[u].email = email
    /\ \A v \in Accounts : v # u => account'[v] = account[v]

LEMMA SameRequestsKnow ==
    ASSUME RequestsKnow, SameRequests, SameUsers
    PROVE  RequestsKnow'
BY DEF RequestsKnow, SameRequests, SameUsers

LEMMA NoneIsNoAddress == None \notin Emails
BY OnboardingAssumption

LEMMA SameAddressesKeep ==
    ASSUME TablesInv, SameRequests, SameUsers, SameAddresses, removed' = removed,
           requests' \in Seq(Requests)
    PROVE  IdInv' /\ Stable /\ RequestsKnow'
<1>1. UniqueEmails'
  BY DEF TablesInv, IdInv, UniqueEmails, Exists, SameAddresses
<1>2. RequestsHaveAccounts'
  BY DEF TablesInv, IdInv, RequestsHaveAccounts, SameAddresses, SameRequests
<1>3. OneRegistrationPerAddress'
  BY DEF TablesInv, IdInv, OneRegistrationPerAddress, SameRequests
<1>4. \A r \in DOMAIN requests : requests[r].userId \in Accounts \cup {None}
  BY RequestRows DEF TablesInv, TablesOK, Requests
<1>5. UsersOfRequests'
  BY <1>4 DEF TablesInv, IdInv, UsersOfRequests, SameAddresses, SameRequests, SameUsers
<1>6. Stable
  BY DEF Stable, SameAddresses, SameRequests
<1>7. QED
  BY <1>1, <1>2, <1>3, <1>5, <1>6, SameRequestsKnow DEF IdInv, TablesInv

\* The part about accounts alone.
LEMMA NewAccountKeeps ==
    ASSUME TablesInv, NEW u \in Accounts, NEW email \in Emails, NewAccount(u, email)
    PROVE  /\ UniqueEmails'
           /\ \A v \in Accounts : /\ Exists(v) => v # u /\ account'[v] = account[v]
                                  /\ account[v] = Deleted => account'[v] = Deleted
                                  /\ account[v].email # email
<1>1. \A v \in Accounts : account[v].email # email
  BY DEF NewAccount, AccountsOf
<1>2. account[u].email = None
  BY DEF NewAccount, NoAccount, Account
<1>3. NoAccount # Deleted
  BY DEF NoAccount, Deleted, Account
<1>4. UniqueEmails'
  BY <1>1, NoneIsNoAddress DEF NewAccount, UniqueEmails, Exists, TablesInv, IdInv
<1>5. QED
  BY <1>1, <1>2, <1>3, <1>4 DEF NewAccount, Exists

LEMMA NewAccountIds ==
    ASSUME TablesInv, NEW u \in Accounts, NEW email \in Emails, NewAccount(u, email),
           SameRequests, SameUsers, removed' = removed
    PROVE  IdInv' /\ Stable /\ RequestsKnow'
<1>0. \A r \in DOMAIN requests : /\ requests[r].userId \in Accounts \cup {None}
                                 /\ requests[r].email \in Emails
  BY RequestRows DEF TablesInv, TablesOK, Requests
<1>1. \A v \in Accounts : Exists(v) => account'[v] = account[v]
  BY NewAccountKeeps
<1>2. RequestsHaveAccounts'
  BY <1>0, <1>1, NoneIsNoAddress
     DEF TablesInv, IdInv, RequestsHaveAccounts, SameRequests, Exists
<1>3. OneRegistrationPerAddress'
  BY DEF TablesInv, IdInv, OneRegistrationPerAddress, SameRequests
<1>4. \A r \in DOMAIN requests :
         requests[r].userId # None => account'[requests[r].userId].email = requests[r].email
  BY <1>0, <1>1, NoneIsNoAddress DEF TablesInv, IdInv, UsersOfRequests, Exists
<1>5. UsersOfRequests'
  BY <1>4 DEF TablesInv, IdInv, UsersOfRequests, SameRequests, SameUsers
<1>6. Stable
  BY <1>1, NewAccountKeeps DEF Stable, SameRequests
<1>7. QED
  BY <1>2, <1>3, <1>5, <1>6, NewAccountKeeps, SameRequestsKnow DEF IdInv, TablesInv

\* A new account together with the request that it comes from.
LEMMA NewRegistrationIds ==
    ASSUME TablesInv, NEW u \in Accounts, NEW email \in Emails, NewAccount(u, email),
           NEW row \in Requests, row.email = email,
           row.kind = "company" => row.userId = None /\ row.name \in Names,
           row.kind = "agent" => row.userId = u /\ row.companyId \in Companies,
           requests' = Append(requests, row), removed' = removed
    PROVE  IdInv' /\ Stable /\ RequestsKnow'
<1> USE NoneIsNoAddress
<1>0. \A r \in DOMAIN requests : /\ requests[r].userId \in Accounts \cup {None}
                                 /\ requests[r].email \in Emails
  BY RequestRows DEF TablesInv, TablesOK, Requests
<1>1. PICK n : /\ n \notin DOMAIN requests /\ DOMAIN requests' = DOMAIN requests \cup {n}
               /\ requests'[n] = row
  BY AppendEffect DEF TablesInv, TablesOK
<1>2. \A p \in DOMAIN requests : requests'[p] = requests[p]
  BY AppendEffect DEF TablesInv, TablesOK
<1>3. \A v \in Accounts : Exists(v) => account'[v] = account[v]
  BY NewAccountKeeps
<1>4. \A r \in DOMAIN requests : requests[r].email = email => email \in removed
  BY NewAccountKeeps DEF TablesInv, IdInv, RequestsHaveAccounts
<1>5. account'[u].email = email
  BY DEF NewAccount
<1>6. RequestsHaveAccounts'
  BY <1>0, <1>1, <1>2, <1>3, <1>5 DEF TablesInv, IdInv, RequestsHaveAccounts, Exists
<1>7. OneRegistrationPerAddress'
  BY <1>1, <1>2, <1>4 DEF TablesInv, IdInv, OneRegistrationPerAddress
<1>8. UsersOfRequests'
  <2>1. \A r \in DOMAIN requests :
           requests[r].userId # None => account'[requests[r].userId].email = requests[r].email
    BY <1>0, <1>3 DEF TablesInv, IdInv, UsersOfRequests, Exists
  <2>2. row.kind \in {"company", "agent"} /\ u # None
    BY OnboardingAssumption DEF Requests
  <2>3. QED
    BY <1>1, <1>2, <1>5, <2>1, <2>2 DEF TablesInv, IdInv, UsersOfRequests
<1>9. RequestsKnow'
  BY <1>1, <1>2 DEF TablesInv, RequestsKnow
<1>10. Stable
  BY <1>1, <1>2, <1>3, NewAccountKeeps DEF Stable
<1>11. QED
  BY <1>6, <1>7, <1>8, <1>9, <1>10, NewAccountKeeps DEF IdInv

-----------------------------------------------------------------------------
(* What the shapes keep of the ties by status *)

LEMMA EndKeeps ==
    ASSUME IInv, NEW c \in Calls, End(c), TablesInv', Stable
    PROVE  IInv'
BY EndEffect, Combine DEF IInv

LEMMA AtOnceKeeps ==
    ASSUME IInv, NEW c \in Calls, NEW kind, AtOnce(c, kind), TablesInv', Stable
    PROVE  IInv'
BY AtOnceEffect, Combine DEF IInv

\* An address that a request has and nobody uses has lost its account.
LEMMA UnusedAddress ==
    ASSUME TablesInv, NEW email \in Emails, AccountsOf(email) = {}, NEW r \in DOMAIN requests,
           requests[r].email = email
    PROVE  email \in removed
BY DEF TablesInv, IdInv, RequestsHaveAccounts, AccountsOf

LEMMA NewAccountStatus ==
    ASSUME TablesInv, NEW u \in Accounts, NEW email \in Emails, NewAccount(u, email),
           SameRequests, removed' = removed, overwritten' = overwritten, touched \subseteq touched',
           account'[u].approvalStatus = "APPROVED",
           \A r \in DOMAIN requests : \/ requests'[r].status = requests[r].status
                                      \/ requests[r].email = email
    PROVE  StInv'
<1>1. \A r \in DOMAIN requests : requests[r].email = email => email \in removed
  BY UnusedAddress DEF NewAccount
<1>2. \A v \in Accounts : v # u => account'[v] = account[v]
  BY DEF NewAccount
<1>3. account'[u].email = email
  BY DEF NewAccount
<1>4. AdminsApproved'
  BY <1>1, <1>2, <1>3 DEF TablesInv, StInv, AdminsApproved, SameRequests
<1>5. ActiveApproved'
  BY <1>2 DEF TablesInv, StInv, ActiveApproved, Exists
<1>6. ASSUME NEW r \in DOMAIN requests, NEW v \in Accounts, account'[v].email = requests[r].email,
             v \notin touched', requests[r].email \notin removed, r \notin overwritten
      PROVE  account'[v].isActive <=> requests'[r].status = "APPROVED"
  <2>1. v # u /\ requests[r].email # email
    BY <1>1, <1>3, <1>6
  <2>2. account'[v] = account[v] /\ requests'[r].status = requests[r].status
    BY <1>2, <2>1
  <2>3. v \notin touched
    BY <1>6
  <2>4. QED
    BY <1>6, <2>2, <2>3 DEF TablesInv, StInv, AccountFollowsRequest
<1>7. AccountFollowsRequest'
  BY <1>6 DEF AccountFollowsRequest, SameRequests
<1>8. QED
  BY <1>4, <1>5, <1>7 DEF StInv

LEMMA NewRegistrationStatus ==
    ASSUME TablesInv, NEW u \in Accounts, NEW email \in Emails, NewAccount(u, email),
           NEW row \in Requests, row.email = email, row.status = "PENDING",
           requests' = Append(requests, row), UNCHANGED <<touched, removed, overwritten>>,
           account'[u].isActive = FALSE,
           row.kind = "company" => /\ account'[u].role = "COMPANY_ADMIN"
                                   /\ account'[u].approvalStatus = "APPROVED"
    PROVE  StInv'
<1>1. PICK n : /\ n \notin DOMAIN requests /\ DOMAIN requests' = DOMAIN requests \cup {n}
               /\ requests'[n] = row
  BY AppendEffect DEF TablesInv, TablesOK
<1>2. \A p \in DOMAIN requests : requests'[p] = requests[p]
  BY AppendEffect DEF TablesInv, TablesOK
<1>3. \A r \in DOMAIN requests : requests[r].email = email => email \in removed
  BY UnusedAddress DEF NewAccount
<1>4. \A v \in Accounts : v # u => account'[v] = account[v] /\ account[v].email # email
  BY DEF NewAccount, AccountsOf
<1>5. account'[u].email = email
  BY DEF NewAccount
<1>6. AdminsApproved'
  BY <1>1, <1>2, <1>3, <1>4, <1>5 DEF TablesInv, StInv, AdminsApproved
<1>7. ActiveApproved'
  BY <1>4 DEF TablesInv, StInv, ActiveApproved, Exists
<1>8. ASSUME NEW r \in DOMAIN requests', NEW v \in Accounts, account'[v].email = requests'[r].email,
             v \notin touched, requests'[r].email \notin removed, r \notin overwritten
      PROVE  account'[v].isActive <=> requests'[r].status = "APPROVED"
  <2>1. CASE r = n
    BY <1>1, <1>4, <1>8, <2>1
  <2>2. CASE r # n
    <3>1. r \in DOMAIN requests /\ requests'[r] = requests[r]
      BY <1>1, <1>2, <2>2
    <3>2. v # u
      BY <1>3, <1>5, <1>8, <3>1
    <3>3. QED
      BY <1>4, <1>8, <3>1, <3>2 DEF TablesInv, StInv, AccountFollowsRequest
  <2>3. QED
    BY <2>1, <2>2
<1>9. AccountFollowsRequest'
  BY <1>8 DEF AccountFollowsRequest
<1>10. QED
  BY <1>6, <1>7, <1>9 DEF StInv

\* The one request with an address that has lost no account, and the one account.
LEMMA OneOfEach ==
    ASSUME TablesInv, NEW r \in DOMAIN requests, requests[r].email \notin removed
    PROVE  /\ \A p \in DOMAIN requests : requests[p].email = requests[r].email => p = r
           /\ \A u, v \in Accounts :
                 account[u].email = requests[r].email /\ account[v].email = requests[r].email => u = v
<1>1. requests[r].email # None
  BY RequestRows, NoneIsNoAddress DEF TablesInv, TablesOK, Requests
<1>2. QED
  BY <1>1 DEF TablesInv, IdInv, OneRegistrationPerAddress, UniqueEmails, Exists

\* Only request r changes its status.
OnlyDecides(r, status) ==
    /\ requests'[r].status = status
    /\ \A p \in DOMAIN requests : p # r => requests'[p].status = requests[p].status

LEMMA ApprovalStatus ==
    ASSUME TablesInv, NEW r \in DOMAIN requests, NEW u \in Accounts,
           account[u].email = requests[r].email, account'[u].email = requests[r].email,
           account'[u].isActive = TRUE,
           \/ account'[u].approvalStatus = "APPROVED"
           \/ account'[u].approvalStatus = account[u].approvalStatus /\ requests[r].kind = "company",
           requests[r].kind = "company" => account'[u].role = "COMPANY_ADMIN",
           \A v \in Accounts : v # u => account'[v] = account[v],
           SameRequests, OnlyDecides(r, "APPROVED"), UNCHANGED <<touched, removed, overwritten>>
    PROVE  StInv'
<1>1. requests[r].email \notin removed => account'[u].approvalStatus = "APPROVED"
  BY DEF TablesInv, StInv, AdminsApproved
<1>2. ASSUME NEW p \in DOMAIN requests, NEW v \in Accounts, account'[v].email = requests[p].email,
             requests[p].email \notin removed
      PROVE  \/ p = r /\ v = u
             \/ p # r /\ v # u
  BY <1>2, OneOfEach
<1>3. AdminsApproved'
  BY <1>1, <1>2 DEF TablesInv, StInv, AdminsApproved, SameRequests
<1>4. ActiveApproved'
  BY <1>1 DEF TablesInv, StInv, ActiveApproved, Exists
<1>5. ASSUME NEW p \in DOMAIN requests, NEW v \in Accounts, account'[v].email = requests[p].email,
             v \notin touched, requests[p].email \notin removed, p \notin overwritten
      PROVE  account'[v].isActive <=> requests'[p].status = "APPROVED"
  <2>1. CASE p = r /\ v = u
    BY <2>1 DEF OnlyDecides
  <2>2. CASE p # r /\ v # u
    <3>1. account'[v] = account[v] /\ requests'[p].status = requests[p].status
      BY <2>2 DEF OnlyDecides
    <3>2. QED
      BY <1>5, <3>1 DEF TablesInv, StInv, AccountFollowsRequest
  <2>3. QED
    BY <1>2, <1>5, <2>1, <2>2
<1>6. AccountFollowsRequest'
  BY <1>5 DEF AccountFollowsRequest, SameRequests
<1>7. QED
  BY <1>3, <1>4, <1>6 DEF StInv

LEMMA RejectionStatus ==
    ASSUME TablesInv, NEW r \in DOMAIN requests, SameRequests, OnlyDecides(r, "REJECTED"),
           UNCHANGED <<touched, removed, overwritten>>,
           \A v \in Accounts :
              \/ /\ account'[v] = account[v]
                 /\ account[v].email # requests[r].email \/ requests[r].email \in removed
              \/ /\ account'[v].email = account[v].email /\ account'[v].role = account[v].role
                 /\ account[v].email = requests[r].email /\ account'[v].isActive = FALSE
                 /\ \/ account'[v].approvalStatus = account[v].approvalStatus
                    \/ requests[r].kind = "agent"
    PROVE  StInv'
<1>1. ASSUME NEW p \in DOMAIN requests, NEW v \in Accounts, account'[v].email = requests[p].email,
             requests[p].email \notin removed
      PROVE  \/ p = r /\ account'[v].isActive = FALSE
             \/ p # r /\ account'[v] = account[v]
  BY <1>1, OneOfEach
<1>2. AdminsApproved'
  <2>1. ASSUME NEW p \in DOMAIN requests, NEW v \in Accounts, requests[p].kind = "company",
               requests[p].email \notin removed, account'[v].email = requests[p].email
        PROVE  account'[v].role = "COMPANY_ADMIN" /\ account'[v].approvalStatus = "APPROVED"
    <3>1. account[v].email = requests[p].email
      BY <2>1
    <3>2. account[v].role = "COMPANY_ADMIN" /\ account[v].approvalStatus = "APPROVED"
      BY <2>1, <3>1 DEF TablesInv, StInv, AdminsApproved
    <3>3. CASE p = r
      BY <2>1, <3>2, <3>3
    <3>4. CASE p # r
      BY <1>1, <2>1, <3>2, <3>4
    <3>5. QED
      BY <3>3, <3>4
  <2>2. QED
    BY <2>1 DEF AdminsApproved, SameRequests
<1>3. ActiveApproved'
  BY DEF TablesInv, StInv, ActiveApproved, Exists
<1>4. ASSUME NEW p \in DOMAIN requests, NEW v \in Accounts, account'[v].email = requests[p].email,
             v \notin touched, requests[p].email \notin removed, p \notin overwritten
      PROVE  account'[v].isActive <=> requests'[p].status = "APPROVED"
  <2>1. CASE p = r /\ account'[v].isActive = FALSE
    BY <2>1 DEF OnlyDecides
  <2>2. CASE p # r /\ account'[v] = account[v]
    <3>1. requests'[p].status = requests[p].status
      BY <2>2 DEF OnlyDecides
    <3>2. QED
      BY <1>4, <2>2, <3>1 DEF TablesInv, StInv, AccountFollowsRequest
  <2>3. QED
    BY <1>1, <1>4, <2>1, <2>2
<1>5. AccountFollowsRequest'
  BY <1>4 DEF AccountFollowsRequest, SameRequests
<1>6. QED
  BY <1>2, <1>3, <1>5 DEF StInv

-----------------------------------------------------------------------------
(* company-registration.service.ts *)

\* The facts about the request that a review has read.
LEMMA ReviewKnows ==
    ASSUME IInv, NEW c \in Calls, call[c].step = "review"
    PROVE  /\ call[c].req \in DOMAIN requests
           /\ requests[call[c].req] \in Requests
           /\ call[c].kind \in Reviews
           /\ call[c].kind \in AgentReviews <=> requests[call[c].req].kind = "agent"
           /\ call[c].kind \notin AgentReviews => /\ requests[call[c].req].kind = "company"
                                                  /\ requests[call[c].req].name \in Names
           /\ call[c].kind \in AgentReviews => requests[call[c].req].companyId \in Companies
<1>1. /\ call[c].req \in DOMAIN requests /\ call[c].kind \in Reviews
      /\ call[c].kind \in AgentReviews <=> requests[call[c].req].kind = "agent"
  BY DEF IInv, CallsKnow, Knows
<1>2. requests[call[c].req] \in Requests
  BY <1>1, RequestRows DEF IInv, TablesInv, TablesOK
<1>3. QED
  BY <1>1, <1>2 DEF IInv, TablesInv, RequestsKnow, Requests

LEMMA createCompanyRequestKeeps ==
    ASSUME IInv, NEW c \in Calls, createCompanyRequest(c)
    PROVE  IInv'
<1> DEFINE q == call[c]
<1>0. TablesInv /\ TablesOK /\ requests \in Seq(Requests)
  BY DEF IInv, TablesInv, TablesOK
<1>1. q.email \in Emails /\ q.name \in Names /\ q.companyId \in Companies \cup {None}
  BY DEF createCompanyRequest, IInv, CallsKnow, Knows, CallRows
<1>2. PICK k \in Companies, u \in Accounts :
         LET email == IF q.keepsEmail THEN company[k].email ELSE q.email IN
         /\ account[u] = NoAccount
         /\ IF AccountsOf(q.email) # {} \/ ~Unique(k, q.name, email) THEN Refused(c)
            ELSE /\ company' = [company EXCEPT ![k] = Company(q.name, email, "PENDING")]
                 /\ account' = [account EXCEPT
                                  ![u] = Account(q.email, "COMPANY_ADMIN", FALSE, "APPROVED", k)]
                 /\ requests' = Append(requests, CompanyRequest(q.name, q.email))
                 /\ End(c)
                 /\ UNCHANGED <<touched, removed, overwritten>>
  BY <1>1 DEF createCompanyRequest
<1> DEFINE email == IF q.keepsEmail THEN company[k].email ELSE q.email
           user == Account(q.email, "COMPANY_ADMIN", FALSE, "APPROVED", k)
           row == CompanyRequest(q.name, q.email)
<1>3. CASE Refused(c)
  BY <1>3, RefusedKeeps
<1>4. CASE ~Refused(c)
  <2>1. /\ AccountsOf(q.email) = {}
        /\ company' = [company EXCEPT ![k] = Company(q.name, email, "PENDING")]
        /\ account' = [account EXCEPT ![u] = user]
        /\ requests' = Append(requests, row)
        /\ End(c)
        /\ UNCHANGED <<touched, removed, overwritten>>
    BY <1>2, <1>4
  <2>2. email \in Emails \cup {None}
    BY <1>0, <1>1 DEF TablesOK, CompanyRows, NoCompany, Company
  <2>3. company' \in [Companies -> CompanyRows]
    BY <1>0, <1>1, <2>1, <2>2, CompanyWrite DEF CompanyStatuses
  <2>4. /\ user \in UserRows /\ user.email = q.email /\ user.role = "COMPANY_ADMIN"
        /\ user.isActive = FALSE /\ user.approvalStatus = "APPROVED"
    BY <1>1 DEF user, Account, AccountRows, UserRows
  <2>5. /\ row \in Requests /\ row.email = q.email /\ row.status = "PENDING"
        /\ row.kind = "company" /\ row.userId = None /\ row.name = q.name
    BY <1>1 DEF CompanyRequest, Requests, RequestStatuses
  <2> HIDE DEF user, row, email
  <2>6. /\ account' \in [Accounts -> UserRows] /\ account'[u] = user
        /\ \A v \in Accounts : v # u => account'[v] = account[v]
    BY <1>0, <2>1, <2>4, AccountWrite
  <2>7. NewAccount(u, q.email)
    BY <1>2, <2>1, <2>4, <2>6 DEF NewAccount
  <2>8. IdInv' /\ Stable /\ RequestsKnow'
    BY <1>0, <1>1, <2>1, <2>5, <2>7, NewRegistrationIds
  <2>9. StInv'
    BY <1>0, <1>1, <2>1, <2>4, <2>5, <2>6, <2>7, NewRegistrationStatus
  <2>10. requests' \in Seq(Requests) /\ DOMAIN requests \subseteq DOMAIN requests'
    BY <1>0, <2>1, <2>5, AppendEffect
  <2>11. TablesOK'
    BY <1>0, <2>1, <2>3, <2>6, <2>10 DEF TablesOK
  <2>12. QED
    BY <2>1, <2>8, <2>9, <2>11, EndKeeps DEF TablesInv
<1>5. QED
  BY <1>3, <1>4

LEMMA approveCompanyKeeps ==
    ASSUME IInv, NEW c \in Calls, approveCompany(c)
    PROVE  IInv'
<1> DEFINE r == call[c].req
           q == requests[r]
           users == AccountsOf(q.email)
           named == Named(q.name) \cup WithEmail(q.email)
           homes == IF users # {} THEN {account[u].companyId : u \in users} ELSE named
<1>0. TablesInv /\ TablesOK /\ requests \in Seq(Requests)
  BY DEF IInv, TablesInv, TablesOK
<1>1. /\ r \in DOMAIN requests /\ q.email \in Emails /\ q.name \in Names /\ q.kind = "company"
      /\ call[c].status \in {"ACTIVE", "TRIAL"}
  <2>1. call[c].step = "review" /\ call[c].kind = "approveCompany"
    BY DEF approveCompany
  <2>2. q \in Requests /\ q.name \in Names /\ q.kind = "company" /\ r \in DOMAIN requests
    BY <2>1, ReviewKnows DEF AgentReviews
  <2>3. call[c].status \in {"ACTIVE", "TRIAL"}
    BY <2>1 DEF IInv, CallsKnow, Knows
  <2>4. QED
    BY <2>2, <2>3 DEF Requests
<1>2. \A u \in users : account[u] \in AccountRows /\ account[u].email = q.email
  BY <1>0, <1>1, ExistingRow, NoneIsNoAddress DEF AccountsOf, Exists
<1>3. homes \subseteq Companies
  BY <1>2 DEF Named, WithEmail, AccountRows
<1>4. PICK k \in Companies, u \in Accounts :
         /\ IF users # {} THEN u \in users ELSE account[u] = NoAccount
         /\ IF ~Unique(k, q.name, q.email) THEN Refused(c)
            ELSE /\ company' = [company EXCEPT ![k] = Company(q.name, q.email, call[c].status)]
                 /\ account' = [account EXCEPT
                      ![u] = Account(q.email, "COMPANY_ADMIN", TRUE,
                                     IF users # {} THEN account[u].approvalStatus ELSE "APPROVED", k)]
                 /\ Decided(r, "APPROVED")
                 /\ End(c)
                 /\ UNCHANGED <<touched, removed, overwritten>>
  <2> HIDE DEF homes
  <2>1. users \subseteq Accounts
    BY DEF AccountsOf
  <2>2. PICK k \in (IF homes # {} THEN homes ELSE {j \in Companies : company[j] = NoCompany}),
             u \in (IF users # {} THEN users ELSE {v \in Accounts : account[v] = NoAccount}) :
         IF ~Unique(k, q.name, q.email) THEN Refused(c)
         ELSE /\ company' = [company EXCEPT ![k] = Company(q.name, q.email, call[c].status)]
              /\ account' = [account EXCEPT
                   ![u] = Account(q.email, "COMPANY_ADMIN", TRUE,
                                  IF users # {} THEN account[u].approvalStatus ELSE "APPROVED", k)]
              /\ Decided(r, "APPROVED")
              /\ End(c)
              /\ UNCHANGED <<touched, removed, overwritten>>
    BY DEF approveCompany, homes
  <2>3. k \in Companies /\ u \in Accounts /\ IF users # {} THEN u \in users ELSE account[u] = NoAccount
    BY <1>3, <2>1, <2>2
  <2>4. QED
    BY <2>2, <2>3
<1> DEFINE approval == IF users # {} THEN account[u].approvalStatus ELSE "APPROVED"
           user == Account(q.email, "COMPANY_ADMIN", TRUE, approval, k)
<1> HIDE DEF homes, named
<1>5. CASE Refused(c)
  BY <1>5, RefusedKeeps
<1>6. CASE ~Refused(c)
  <2>1. /\ company' = [company EXCEPT ![k] = Company(q.name, q.email, call[c].status)]
        /\ account' = [account EXCEPT ![u] = user]
        /\ Decided(r, "APPROVED") /\ End(c)
        /\ UNCHANGED <<touched, removed, overwritten>>
    BY <1>4, <1>6
  <2>2. approval \in {"PENDING", "APPROVED", "REJECTED"}
    BY <1>2, <1>4 DEF AccountRows
  <2> HIDE DEF approval
  <2>3. company' \in [Companies -> CompanyRows]
    BY <1>0, <1>1, <2>1, CompanyWrite DEF CompanyStatuses
  <2>4. /\ user \in UserRows /\ user.email = q.email /\ user.role = "COMPANY_ADMIN"
        /\ user.isActive = TRUE /\ user.approvalStatus = approval
    BY <1>1, <2>2 DEF user, Account, AccountRows, UserRows
  <2> HIDE DEF user
  <2>5. /\ account' \in [Accounts -> UserRows] /\ account'[u] = user
        /\ \A v \in Accounts : v # u => account'[v] = account[v]
    BY <1>0, <2>1, <2>4, AccountWrite
  <2>6. SameRequests /\ SameUsers /\ OnlyDecides(r, "APPROVED") /\ requests' \in Seq(Requests)
    BY <1>0, <1>1, <2>1, DecidedEffect DEF SameRequests, SameUsers, OnlyDecides, RequestStatuses
  <2>7. TablesOK'
    BY <1>0, <2>1, <2>3, <2>5, <2>6 DEF TablesOK, SameRequests
  <2>8. CASE users # {}
    <3>1. account[u].email = q.email /\ account[u] # Deleted /\ approval = account[u].approvalStatus
      BY <1>0, <1>1, <1>2, <1>4, <2>8, ExistingRow, NoneIsNoAddress DEF approval
    <3>2. SameAddresses
      BY <2>4, <2>5, <3>1 DEF SameAddresses
    <3>3. IdInv' /\ Stable /\ RequestsKnow'
      BY <1>0, <2>1, <2>6, <3>2, SameAddressesKeep
    <3>4. StInv'
      BY <1>0, <1>1, <2>1, <2>4, <2>5, <2>6, <3>1, ApprovalStatus
    <3>5. QED
      BY <2>1, <2>7, <3>3, <3>4, EndKeeps DEF TablesInv
  <2>9. CASE users = {}
    <3>1. NewAccount(u, q.email) /\ approval = "APPROVED"
      BY <1>4, <2>4, <2>5, <2>9 DEF NewAccount, approval
    <3>2. IdInv' /\ Stable /\ RequestsKnow'
      BY <1>0, <1>1, <2>1, <2>6, <3>1, NewAccountIds
    <3>3. StInv'
      BY <1>0, <1>1, <2>1, <2>4, <2>5, <2>6, <3>1, NewAccountStatus DEF OnlyDecides
    <3>4. QED
      BY <2>1, <2>7, <3>2, <3>3, EndKeeps DEF TablesInv
  <2>10. QED
    BY <2>8, <2>9
<1>7. QED
  BY <1>5, <1>6

LEMMA rejectCompanyKeeps ==
    ASSUME IInv, NEW c \in Calls, rejectCompany(c)
    PROVE  IInv'
<1> DEFINE r == call[c].req
           q == requests[r]
           users == AccountsOf(q.email)
           named == Named(q.name) \cup WithEmail(q.email)
<1>0. TablesInv /\ TablesOK /\ requests \in Seq(Requests)
  BY DEF IInv, TablesInv, TablesOK
<1>1. /\ account' = [u \in Accounts |-> IF u \in users
                                        THEN [account[u] EXCEPT !.isActive = FALSE] ELSE account[u]]
      /\ IF named = {} THEN UNCHANGED company
         ELSE \E k \in named : company' = [company EXCEPT ![k].status = "SUSPENDED"]
      /\ Decided(r, "REJECTED") /\ End(c)
      /\ UNCHANGED <<touched, removed, overwritten>>
  BY DEF rejectCompany
<1>2. /\ r \in DOMAIN requests /\ q.email \in Emails /\ q.name \in Names /\ q.kind = "company"
  BY ReviewKnows DEF rejectCompany, AgentReviews, Requests
<1>3. company' \in [Companies -> CompanyRows]
  <2>1. \A k \in named : k \in Companies /\ company[k] # NoCompany
    BY <1>2, OnboardingAssumption DEF Named, WithEmail, NoCompany, Company
  <2>2. QED
    BY <1>0, <1>1, <2>1, CompanyStatusWrite DEF CompanyStatuses, TablesOK
<1>4. \A u \in users : /\ account[u] \in AccountRows /\ account[u].email = q.email
                       /\ account[u] # Deleted
  BY <1>0, <1>2, ExistingRow, NoneIsNoAddress DEF AccountsOf, Exists
<1>5. ASSUME NEW u \in users
      PROVE  LET row == [account[u] EXCEPT !.isActive = FALSE] IN
             /\ row \in UserRows /\ row.email = q.email /\ row.role = account[u].role
             /\ row.isActive = FALSE /\ row.approvalStatus = account[u].approvalStatus
  BY <1>4 DEF UserRows, AccountRows
<1>6. \A u \in Accounts : u \notin users => account[u].email # q.email
  BY DEF AccountsOf
<1> HIDE DEF users, named
<1>7. account' \in [Accounts -> UserRows]
  BY <1>0, <1>1, <1>5 DEF TablesOK
<1>8. \A u \in Accounts :
         \/ account'[u] = account[u] /\ account[u].email # q.email
         \/ /\ account'[u].email = account[u].email /\ account'[u].role = account[u].role
            /\ account[u].email = q.email /\ account'[u].isActive = FALSE
            /\ account'[u].approvalStatus = account[u].approvalStatus
            /\ account[u] # Deleted
  BY <1>1, <1>4, <1>5, <1>6
<1>9. SameRequests /\ SameUsers /\ OnlyDecides(r, "REJECTED") /\ requests' \in Seq(Requests)
  BY <1>0, <1>1, <1>2, DecidedEffect DEF SameRequests, SameUsers, OnlyDecides, RequestStatuses
<1>10. IdInv' /\ Stable /\ RequestsKnow'
  BY <1>0, <1>1, <1>8, <1>9, SameAddressesKeep DEF SameAddresses
<1>11. StInv'
  BY <1>0, <1>1, <1>2, <1>8, <1>9, RejectionStatus
<1>12. TablesOK'
  BY <1>0, <1>1, <1>3, <1>7, <1>9 DEF TablesOK, SameRequests
<1>13. QED
  BY <1>1, <1>10, <1>11, <1>12, EndKeeps DEF TablesInv

LEMMA requestMoreInfoKeeps ==
    ASSUME IInv, NEW c \in Calls, requestMoreInfo(c)
    PROVE  IInv'
<1> DEFINE r == call[c].req
<1>0. TablesInv /\ TablesOK /\ requests \in Seq(Requests)
  BY DEF IInv, TablesInv, TablesOK
<1>1. /\ overwritten' = IF requests[r].status = "APPROVED" THEN overwritten \cup {r} ELSE overwritten
      /\ Decided(r, "NEEDS_MORE_INFO") /\ End(c)
      /\ UNCHANGED <<company, account, touched, removed>>
  BY DEF requestMoreInfo
<1>2. r \in DOMAIN requests
  BY ReviewKnows DEF requestMoreInfo
<1>3. SameRequests /\ SameUsers /\ OnlyDecides(r, "NEEDS_MORE_INFO") /\ requests' \in Seq(Requests)
  BY <1>0, <1>1, <1>2, DecidedEffect DEF SameRequests, SameUsers, OnlyDecides, RequestStatuses
<1>4. IdInv' /\ Stable /\ RequestsKnow'
  BY <1>0, <1>1, <1>3, SameAddressesKeep DEF SameAddresses
<1>5. AdminsApproved' /\ ActiveApproved'
  BY <1>0, <1>1, <1>3
     DEF TablesInv, StInv, AdminsApproved, ActiveApproved, SameRequests, Exists
<1>6. ASSUME NEW p \in DOMAIN requests, NEW v \in Accounts, account[v].email = requests[p].email,
             v \notin touched, requests[p].email \notin removed, p \notin overwritten'
      PROVE  account[v].isActive <=> requests'[p].status = "APPROVED"
  <2>1. p \notin overwritten
    BY <1>1, <1>6
  <2>2. account[v].isActive <=> requests[p].status = "APPROVED"
    BY <1>0, <1>6, <2>1 DEF TablesInv, StInv, AccountFollowsRequest
  <2>3. CASE p = r
    BY <1>1, <1>3, <1>6, <2>2, <2>3 DEF OnlyDecides
  <2>4. CASE p # r
    BY <1>3, <2>2, <2>4 DEF OnlyDecides
  <2>5. QED
    BY <2>3, <2>4
<1>7. AccountFollowsRequest'
  BY <1>1, <1>3, <1>6 DEF AccountFollowsRequest, SameRequests
<1>8. TablesOK'
  BY <1>0, <1>1, <1>2, <1>3 DEF TablesOK, SameRequests
<1>9. QED
  BY <1>1, <1>4, <1>5, <1>7, <1>8, EndKeeps DEF TablesInv, StInv

-----------------------------------------------------------------------------
(* agent-registration.service.ts *)

LEMMA createAgentRequestKeeps ==
    ASSUME IInv, NEW c \in Calls, createAgentRequest(c)
    PROVE  IInv'
<1> DEFINE q == call[c]
<1>0. TablesInv /\ TablesOK /\ requests \in Seq(Requests)
  BY DEF IInv, TablesInv, TablesOK
<1>1. q.email \in Emails /\ q.companyId \in Companies
  BY DEF createAgentRequest, IInv, CallsKnow, Knows
<1>2. PICK u \in Accounts :
         /\ account[u] = NoAccount
         /\ IF AccountsOf(q.email) # {} THEN Refused(c)
            ELSE /\ account' = [account EXCEPT
                                  ![u] = Account(q.email, "AGENT", FALSE, "PENDING", q.companyId)]
                 /\ requests' = Append(requests, AgentRequest(q.email, q.companyId, u))
                 /\ End(c)
                 /\ UNCHANGED <<company, touched, removed, overwritten>>
  BY DEF createAgentRequest
<1> DEFINE user == Account(q.email, "AGENT", FALSE, "PENDING", q.companyId)
           row == AgentRequest(q.email, q.companyId, u)
<1>3. CASE AccountsOf(q.email) # {}
  BY <1>2, <1>3, RefusedKeeps
<1>4. CASE AccountsOf(q.email) = {}
  <2>1. /\ account' = [account EXCEPT ![u] = user]
        /\ requests' = Append(requests, row) /\ End(c)
        /\ UNCHANGED <<company, touched, removed, overwritten>>
    BY <1>2, <1>4
  <2>2. user \in UserRows /\ user.email = q.email /\ user.isActive = FALSE
    BY <1>1 DEF user, Account, AccountRows, UserRows
  <2>3. /\ row \in Requests /\ row.email = q.email /\ row.status = "PENDING"
        /\ row.kind = "agent" /\ row.userId = u /\ row.companyId = q.companyId
    BY <1>1 DEF AgentRequest, Requests, RequestStatuses
  <2> HIDE DEF user, row
  <2>4. /\ account' \in [Accounts -> UserRows] /\ account'[u] = user
        /\ \A v \in Accounts : v # u => account'[v] = account[v]
    BY <1>0, <2>1, <2>2, AccountWrite
  <2>5. NewAccount(u, q.email)
    BY <1>2, <1>4, <2>2, <2>4 DEF NewAccount
  <2>6. IdInv' /\ Stable /\ RequestsKnow'
    BY <1>0, <1>1, <2>1, <2>3, <2>5, NewRegistrationIds
  <2>7. StInv'
    BY <1>0, <1>1, <2>1, <2>2, <2>3, <2>4, <2>5, NewRegistrationStatus
  <2>8. requests' \in Seq(Requests) /\ DOMAIN requests \subseteq DOMAIN requests'
    BY <1>0, <2>1, <2>3, AppendEffect
  <2>9. TablesOK'
    BY <1>0, <2>1, <2>4, <2>8 DEF TablesOK
  <2>10. QED
    BY <2>1, <2>6, <2>7, <2>9, EndKeeps DEF TablesInv
<1>5. QED
  BY <1>3, <1>4

\* Who a review is about, when there is somebody, has the address of the request.
LEMMA ReviewedHasAddress ==
    ASSUME IInv, NEW c \in Calls, call[c].step = "review", NEW u \in Reviewed(c)
    PROVE  /\ u \in Accounts /\ account[u].email = requests[call[c].req].email
           /\ account[u] \in AccountRows /\ account[u] # Deleted
<1> DEFINE q == requests[call[c].req]
<1>0. TablesOK /\ q.email \in Emails /\ call[c].userId \in Accounts \cup {None}
  BY ReviewKnows DEF IInv, TablesInv, Requests, CallRows
<1>1. u \in Accounts /\ Exists(u)
  BY <1>0, NoneIsNoAddress DEF Reviewed, AccountsOf, Exists
<1>2. account[u] \in AccountRows /\ account[u] # Deleted
  BY <1>0, <1>1, ExistingRow DEF Exists
<1>3. account[u].email = q.email
  BY <1>2 DEF Reviewed, AccountsOf, IInv, CallsKnow, Knows
<1>4. QED
  BY <1>1, <1>2, <1>3

LEMMA approveAgentKeeps ==
    ASSUME IInv, NEW c \in Calls, approveAgent(c)
    PROVE  IInv'
<1> DEFINE r == call[c].req
           q == requests[r]
           users == Reviewed(c)
<1>0. TablesInv /\ TablesOK /\ requests \in Seq(Requests) /\ call[c].step = "review"
  BY DEF IInv, TablesInv, TablesOK, approveAgent
<1>1. /\ r \in DOMAIN requests /\ q \in Requests /\ q.email \in Emails
      /\ q.companyId \in Companies /\ q.kind = "agent"
  BY ReviewKnows DEF approveAgent, AgentReviews, Requests
<1>2. PICK u \in Accounts :
         /\ IF users # {} THEN u \in users ELSE account[u] = NoAccount
         /\ \/ Refused(c)
            \/ /\ AccountsOf(q.email) \subseteq {u}
               /\ account' = [account EXCEPT
                                ![u] = Account(q.email, "AGENT", TRUE, "APPROVED", q.companyId)]
               /\ requests' = [requests EXCEPT ![r].status = "APPROVED", ![r].userId = u]
               /\ End(c)
               /\ UNCHANGED <<company, touched, removed, overwritten>>
  BY <1>0, ReviewedHasAddress DEF approveAgent
<1> DEFINE user == Account(q.email, "AGENT", TRUE, "APPROVED", q.companyId)
           row == [q EXCEPT !.status = "APPROVED", !.userId = u]
<1>3. CASE Refused(c)
  BY <1>3, RefusedKeeps
<1>4. CASE ~Refused(c)
  <2>1. /\ AccountsOf(q.email) \subseteq {u}
        /\ account' = [account EXCEPT ![u] = user]
        /\ requests' = [requests EXCEPT ![r] = row]
        /\ End(c) /\ UNCHANGED <<company, touched, removed, overwritten>>
    <3>1. requests' = [requests EXCEPT ![r].status = "APPROVED", ![r].userId = u]
      BY <1>2, <1>4
    <3>2. requests' = [requests EXCEPT ![r] = row]
      BY <1>0, <1>1, <3>1
    <3>3. QED
      BY <1>2, <1>4, <3>2
  <2>2. /\ user \in UserRows /\ user.email = q.email /\ user.isActive = TRUE
        /\ user.approvalStatus = "APPROVED"
    BY <1>1 DEF user, Account, AccountRows, UserRows
  <2>3. /\ row \in Requests /\ row.email = q.email /\ row.status = "APPROVED" /\ row.name = q.name
        /\ row.kind = q.kind /\ row.userId = u /\ row.companyId = q.companyId
    BY <1>1 DEF row, Requests, RequestStatuses
  <2> HIDE DEF user, row
  <2>4. /\ account' \in [Accounts -> UserRows] /\ account'[u] = user
        /\ \A v \in Accounts : v # u => account'[v] = account[v]
    BY <1>0, <2>1, <2>2, AccountWrite
  <2>5. /\ requests' \in Seq(Requests) /\ DOMAIN requests' = DOMAIN requests /\ requests'[r] = row
        /\ \A p \in DOMAIN requests : p # r => requests'[p] = requests[p]
    BY <1>0, <1>1, <2>1, <2>3, RequestWrite
  <2>6. SameRequests /\ OnlyDecides(r, "APPROVED")
    BY <2>3, <2>5 DEF SameRequests, OnlyDecides
  <2>7. SameUsers
    BY <1>1, <2>2, <2>3, <2>4, <2>5, OnboardingAssumption DEF SameUsers
  <2>8. TablesOK'
    BY <1>0, <2>1, <2>4, <2>5 DEF TablesOK
  <2>9. CASE users # {}
    <3>1. account[u].email = q.email /\ account[u] # Deleted
      BY <1>0, <1>2, <2>9, ReviewedHasAddress
    <3>2. SameAddresses
      BY <2>2, <2>4, <3>1 DEF SameAddresses
    <3>3. IdInv' /\ Stable /\ RequestsKnow'
      BY <1>0, <2>1, <2>5, <2>6, <2>7, <3>2, SameAddressesKeep
    <3>4. StInv'
      BY <1>0, <1>1, <2>1, <2>2, <2>4, <2>6, <3>1, ApprovalStatus
    <3>5. QED
      BY <2>1, <2>8, <3>3, <3>4, EndKeeps DEF TablesInv
  <2>10. CASE users = {}
    <3>1. account[u] = NoAccount /\ account[u].email # q.email
      BY <1>1, <1>2, <2>10, NoneIsNoAddress DEF NoAccount, Account
    <3>2. NewAccount(u, q.email)
      BY <2>1, <2>2, <2>4, <3>1 DEF NewAccount, AccountsOf
    <3>3. IdInv' /\ Stable /\ RequestsKnow'
      BY <1>0, <1>1, <2>1, <2>6, <2>7, <3>2, NewAccountIds
    <3>4. StInv'
      BY <1>0, <1>1, <2>1, <2>2, <2>4, <2>6, <3>2, NewAccountStatus DEF OnlyDecides
    <3>5. QED
      BY <2>1, <2>8, <3>3, <3>4, EndKeeps DEF TablesInv
  <2>11. QED
    BY <2>9, <2>10
<1>5. QED
  BY <1>3, <1>4

LEMMA rejectAgentKeeps ==
    ASSUME IInv, NEW c \in Calls, rejectAgent(c)
    PROVE  IInv'
<1> DEFINE r == call[c].req
           q == requests[r]
           users == IF call[c].userId # None THEN Reviewed(c)
                    ELSE {u \in AccountsOf(q.email) : account[u].role = "AGENT"}
<1>0. TablesInv /\ TablesOK /\ requests \in Seq(Requests) /\ call[c].step = "review"
  BY DEF IInv, TablesInv, TablesOK, rejectAgent
<1>1. r \in DOMAIN requests /\ q \in Requests /\ q.email \in Emails /\ q.kind = "agent"
  BY ReviewKnows DEF rejectAgent, AgentReviews, Requests
<1>2. CASE Refused(c)
  BY <1>2, RefusedKeeps
<1>3. CASE ~Refused(c)
  <2>1. /\ account' = [u \in Accounts |->
               IF u \in users
               THEN [account[u] EXCEPT !.isActive = FALSE, !.approvalStatus = "REJECTED"]
               ELSE account[u]]
        /\ Decided(r, "REJECTED") /\ End(c)
        /\ UNCHANGED <<company, touched, removed, overwritten>>
        /\ call[c].userId # None => users # {}
    BY <1>3 DEF rejectAgent
  <2>2. \A u \in users : /\ u \in Accounts /\ account[u].email = q.email
                         /\ account[u] \in AccountRows /\ account[u] # Deleted
    <3>1. CASE call[c].userId # None
      BY <1>0, <3>1, ReviewedHasAddress
    <3>2. CASE call[c].userId = None
      BY <1>0, <1>1, <3>2, ExistingRow, NoneIsNoAddress DEF AccountsOf, Exists
    <3>3. QED
      BY <3>1, <3>2
  <2>3. ASSUME NEW u \in Accounts, u \notin users
        PROVE  account[u].email # q.email \/ q.email \in removed
    <3>1. CASE call[c].userId # None
      <4>1. PICK v : v \in users
        BY <2>1, <3>1
      <4>2. u # v /\ v \in Accounts /\ account[v].email = q.email
        BY <2>2, <2>3, <4>1
      <4>3. QED
        BY <1>0, <1>1, <4>2, OneOfEach
    <3>2. CASE call[c].userId = None
      BY <1>0, <3>2 DEF IInv, CallsKnow, Knows, rejectAgent, AgentReviews
    <3>3. QED
      BY <3>1, <3>2
  <2>4. ASSUME NEW u \in users
        PROVE  LET row == [account[u] EXCEPT !.isActive = FALSE, !.approvalStatus = "REJECTED"] IN
               /\ row \in UserRows /\ row.email = q.email /\ row.role = account[u].role
               /\ row.isActive = FALSE
    BY <2>2 DEF UserRows, AccountRows
  <2> HIDE DEF users
  <2>5. account' \in [Accounts -> UserRows]
    BY <1>0, <2>1, <2>4 DEF TablesOK
  <2>6. \A u \in Accounts :
           \/ /\ account'[u] = account[u]
              /\ account[u].email # q.email \/ q.email \in removed
           \/ /\ account'[u].email = account[u].email /\ account'[u].role = account[u].role
              /\ account[u].email = q.email /\ account'[u].isActive = FALSE
              /\ account[u] # Deleted
    BY <2>1, <2>2, <2>3, <2>4
  <2>7. SameRequests /\ SameUsers /\ OnlyDecides(r, "REJECTED") /\ requests' \in Seq(Requests)
    BY <1>0, <1>1, <2>1, DecidedEffect DEF SameRequests, SameUsers, OnlyDecides, RequestStatuses
  <2>8. IdInv' /\ Stable /\ RequestsKnow'
    BY <1>0, <2>1, <2>6, <2>7, SameAddressesKeep DEF SameAddresses
  <2>9. StInv'
    <3>1. \A u \in Accounts :
             \/ /\ account'[u] = account[u]
                /\ account[u].email # requests[r].email \/ requests[r].email \in removed
             \/ /\ account'[u].email = account[u].email /\ account'[u].role = account[u].role
                /\ account[u].email = requests[r].email /\ account'[u].isActive = FALSE
                /\ \/ account'[u].approvalStatus = account[u].approvalStatus
                   \/ requests[r].kind = "agent"
      BY <1>1, <2>6
    <3>2. UNCHANGED <<touched, removed, overwritten>>
      BY <2>1
    <3> HIDE DEF q, r
    <3>3. QED
      BY <1>0, <1>1, <2>7, <3>1, <3>2, RejectionStatus
  <2>10. TablesOK'
    BY <1>0, <2>1, <2>5, <2>7 DEF TablesOK, SameRequests
  <2>11. QED
    BY <2>1, <2>8, <2>9, <2>10, EndKeeps DEF TablesInv
<1>4. QED
  BY <1>2, <1>3

-----------------------------------------------------------------------------
(* admin.service.ts and companies.service.ts *)

\* Writes of a company alone.
LEMMA CompanyOnly ==
    ASSUME TablesInv, company' \in [Companies -> CompanyRows],
           UNCHANGED <<account, requests, touched, removed, overwritten>>
    PROVE  TablesInv' /\ Stable
BY DEF TablesInv, TablesOK, RequestsKnow, IdInv, UniqueEmails, Exists, RequestsHaveAccounts,
       OneRegistrationPerAddress, UsersOfRequests, StInv, AdminsApproved, ActiveApproved,
       AccountFollowsRequest, Stable

LEMMA setCompanyActivationKeeps ==
    ASSUME IInv, NEW c \in Calls, NEW k \in Companies, NEW on \in BOOLEAN,
           setCompanyActivation(c, k, on)
    PROVE  IInv'
<1> DEFINE step == IF on THEN "activate_admins" ELSE "done"
           id == IF on THEN k ELSE None
           status == IF on THEN "ACTIVE" ELSE "SUSPENDED"
           row == [NewCall EXCEPT !.kind = "setCompanyActivation", !.step = step,
                                  !.companyId = id, !.ended = Ended]
<1>1. /\ step \in {"activate_admins", "done"} /\ id \in Companies \cup {None}
      /\ status \in CompanyStatuses /\ Ended \subseteq Calls
  BY DEF CompanyStatuses, Ended
<1>2. /\ company' = [company EXCEPT ![k].status = status] /\ call' = [call EXCEPT ![c] = row]
      /\ UNCHANGED <<account, requests, touched, removed, overwritten>>
      /\ company[k] # NoCompany /\ "setCompanyActivation" \in Kinds
  BY DEF setCompanyActivation
<1> HIDE DEF step, id, status
<1>3. row \in CallRows /\ row.step = step
  BY <1>1, <1>2 DEF NewCall, CallRows, Steps
<1> HIDE DEF row
<1>4. /\ call' \in [Calls -> CallRows] /\ call'[c].step = step
      /\ \A d \in Calls : d # c => call'[d] = call[d]
  BY <1>2, <1>3 DEF IInv
<1>5. Knows(c)'
  BY <1>1, <1>4 DEF Knows
<1>6. company' \in [Companies -> CompanyRows]
  BY <1>1, <1>2, CompanyStatusWrite DEF IInv, TablesInv
<1>7. TablesInv' /\ Stable
  BY <1>2, <1>6, CompanyOnly DEF IInv
<1>8. QED
  BY <1>4, <1>5, <1>7, Combine

LEMMA setCompanyStatusKeeps ==
    ASSUME IInv, NEW c \in Calls, NEW k \in Companies, NEW status \in CompanyStatuses,
           setCompanyStatus(c, k, status)
    PROVE  IInv'
<1>1. company' \in [Companies -> CompanyRows]
  BY CompanyStatusWrite DEF setCompanyStatus, IInv, TablesInv
<1>2. TablesInv' /\ Stable
  BY <1>1, CompanyOnly DEF setCompanyStatus, IInv
<1>3. QED
  BY <1>2, AtOnceKeeps DEF setCompanyStatus

\* Writes of accounts by an administrator, and of the requests of these accounts.
LEMMA TouchedStatus ==
    ASSUME TablesInv, SameRequests, touched \subseteq touched', touched' \subseteq Accounts,
           UNCHANGED <<removed, overwritten>>,
           \A v \in Accounts :
              \/ account'[v] = account[v]
              \/ /\ v \in touched'
                 /\ account'[v].email = account[v].email /\ account'[v].role = account[v].role
                 /\ \/ account'[v].approvalStatus = "APPROVED"
                    \/ account'[v].approvalStatus = account[v].approvalStatus /\ ~account'[v].isActive,
           \A p \in DOMAIN requests :
              requests'[p].status = requests[p].status \/ requests[p].userId \in touched'
    PROVE  StInv'
<1>1. AdminsApproved'
  BY DEF TablesInv, StInv, AdminsApproved, SameRequests
<1>2. ActiveApproved'
  BY DEF TablesInv, StInv, ActiveApproved, Exists
<1>3. ASSUME NEW p \in DOMAIN requests, NEW v \in Accounts, account'[v].email = requests[p].email,
             v \notin touched', requests[p].email \notin removed, p \notin overwritten
      PROVE  account'[v].isActive <=> requests'[p].status = "APPROVED"
  <2>1. account'[v] = account[v] /\ v \notin touched
    BY <1>3
  <2>2. ASSUME requests[p].userId \in touched' PROVE FALSE
    <3>1. requests[p].userId \in Accounts /\ requests[p].userId # None
      BY <2>2, OnboardingAssumption
    <3>2. account[requests[p].userId].email = requests[p].email
      BY <3>1 DEF TablesInv, IdInv, UsersOfRequests
    <3>3. v = requests[p].userId
      BY <1>3, <2>1, <3>1, <3>2, OneOfEach
    <3>4. QED
      BY <1>3, <2>2, <3>3
  <2>3. requests'[p].status = requests[p].status
    BY <2>2
  <2>4. QED
    BY <1>3, <2>1, <2>3 DEF TablesInv, StInv, AccountFollowsRequest
<1>4. AccountFollowsRequest'
  BY <1>3 DEF AccountFollowsRequest, SameRequests
<1>5. QED
  BY <1>1, <1>2, <1>4 DEF StInv

LEMMA activateCompanyAdminsKeeps ==
    ASSUME IInv, NEW c \in Calls, activateCompanyAdmins(c)
    PROVE  IInv'
<1> DEFINE admins == {u \in Accounts : /\ account[u].companyId = call[c].companyId
                                       /\ account[u].role = "COMPANY_ADMIN"}
<1>0. TablesInv /\ TablesOK /\ requests \in Seq(Requests)
  BY DEF IInv, TablesInv, TablesOK
<1>1. /\ account' = [u \in Accounts |->
               IF u \in admins
               THEN [account[u] EXCEPT !.isActive = TRUE, !.approvalStatus = "APPROVED"]
               ELSE account[u]]
      /\ touched' = touched \cup admins /\ End(c)
      /\ UNCHANGED <<company, requests, removed, overwritten>>
  BY DEF activateCompanyAdmins
<1>2. \A u \in admins : account[u] \in AccountRows /\ account[u] # Deleted
  BY <1>0, ExistingRow DEF UserRows, NoAccount, Deleted, Account
<1>3. ASSUME NEW u \in admins
      PROVE  LET row == [account[u] EXCEPT !.isActive = TRUE, !.approvalStatus = "APPROVED"] IN
             /\ row \in UserRows /\ row.email = account[u].email /\ row.role = account[u].role
             /\ row.approvalStatus = "APPROVED"
  BY <1>2 DEF UserRows, AccountRows
<1>4. admins \subseteq Accounts
  OBVIOUS
<1> HIDE DEF admins
<1>5. account' \in [Accounts -> UserRows]
  BY <1>0, <1>1, <1>3 DEF TablesOK
<1>6. \A v \in Accounts :
         \/ account'[v] = account[v]
         \/ /\ v \in touched' /\ account[v] # Deleted
            /\ account'[v].email = account[v].email /\ account'[v].role = account[v].role
            /\ account'[v].approvalStatus = "APPROVED"
  BY <1>1, <1>2, <1>3
<1>7. SameRequests /\ SameUsers
  BY <1>1 DEF SameRequests, SameUsers
<1>8. IdInv' /\ Stable /\ RequestsKnow'
  BY <1>0, <1>1, <1>6, <1>7, SameAddressesKeep DEF SameAddresses
<1>9. TablesOK'
  BY <1>0, <1>1, <1>4, <1>5 DEF TablesOK
<1>10. StInv'
  BY <1>0, <1>1, <1>6, <1>7, <1>9, TouchedStatus DEF TablesOK
<1>11. QED
  BY <1>1, <1>8, <1>9, <1>10, EndKeeps DEF TablesInv

LEMMA setUserActivationKeeps ==
    ASSUME IInv, NEW c \in Calls, NEW u \in Accounts, NEW on \in BOOLEAN,
           setUserActivation(c, u, on)
    PROVE  IInv'
<1> DEFINE approval == IF on THEN "APPROVED" ELSE account[u].approvalStatus
           row == [account[u] EXCEPT !.isActive = on, !.approvalStatus = approval]
           approved == {r \in DOMAIN requests : on /\ account[u].role = "AGENT" /\ r \in PendingOf(u)}
<1>0. TablesInv /\ TablesOK /\ requests \in Seq(Requests)
  BY DEF IInv, TablesInv, TablesOK
<1>1. account[u] \in AccountRows /\ account[u] # Deleted /\ Exists(u)
  BY <1>0, ExistingRow DEF setUserActivation, Exists
<1>2. AtOnce(c, "setUserActivation") /\ UNCHANGED <<company, removed, overwritten>>
  BY DEF setUserActivation
<1>3. account' = [account EXCEPT ![u] = row] /\ touched' = touched \cup {u}
  BY <1>0, <1>1 DEF setUserActivation, TablesOK
<1>4. requests' = [r \in DOMAIN requests |-> IF r \in approved
                                             THEN [requests[r] EXCEPT !.status = "APPROVED"]
                                             ELSE requests[r]]
  BY DEF setUserActivation
<1>5. \A r \in approved : r \in DOMAIN requests /\ requests[r].userId = u
  BY DEF PendingOf
<1> HIDE DEF approved
<1>6. /\ approval \in {"PENDING", "APPROVED", "REJECTED"}
      /\ \/ approval = "APPROVED"
         \/ ~on /\ approval = account[u].approvalStatus
  BY <1>1 DEF AccountRows
<1> HIDE DEF approval
<1>7. /\ row \in UserRows /\ row.email = account[u].email /\ row.role = account[u].role
      /\ row.approvalStatus = approval /\ row.isActive = on
  BY <1>1, <1>6 DEF UserRows, AccountRows
<1> HIDE DEF row
<1>8. /\ account' \in [Accounts -> UserRows] /\ account'[u] = row
      /\ \A v \in Accounts : v # u => account'[v] = account[v]
  BY <1>0, <1>3, <1>7, AccountWrite
<1>9. ASSUME NEW r \in DOMAIN requests
      PROVE  LET new == [requests[r] EXCEPT !.status = "APPROVED"] IN
             /\ new \in Requests /\ new.kind = requests[r].kind /\ new.name = requests[r].name
             /\ new.email = requests[r].email /\ new.companyId = requests[r].companyId
             /\ new.userId = requests[r].userId
  BY <1>0, RequestRows DEF Requests, RequestStatuses
<1>10. requests' \in [DOMAIN requests -> Requests]
  BY <1>0, <1>4, <1>9, RequestRows
<1>11. requests' \in Seq(Requests) /\ DOMAIN requests' = DOMAIN requests
  BY <1>0, <1>10, RequestsMap
<1>12. SameRequests /\ SameUsers
  BY <1>4, <1>9, <1>11 DEF SameRequests, SameUsers
<1>13. \A p \in DOMAIN requests :
          requests'[p].status = requests[p].status \/ requests[p].userId \in touched'
  BY <1>3, <1>4, <1>5
<1>14. SameAddresses
  BY <1>1, <1>7, <1>8 DEF SameAddresses
<1>15. IdInv' /\ Stable /\ RequestsKnow'
  BY <1>0, <1>2, <1>11, <1>12, <1>14, SameAddressesKeep
<1>16. TablesOK'
  BY <1>0, <1>2, <1>3, <1>8, <1>11 DEF TablesOK
<1>17. StInv'
  <2>1. \A v \in Accounts :
           \/ account'[v] = account[v]
           \/ /\ v \in touched'
              /\ account'[v].email = account[v].email /\ account'[v].role = account[v].role
              /\ \/ account'[v].approvalStatus = "APPROVED"
                 \/ account'[v].approvalStatus = account[v].approvalStatus /\ ~account'[v].isActive
    BY <1>3, <1>6, <1>7, <1>8
  <2>2. touched \subseteq touched' /\ touched' \subseteq Accounts
    BY <1>0, <1>3 DEF TablesOK
  <2>3. QED
    BY <1>0, <1>2, <1>12, <1>13, <2>1, <2>2, TouchedStatus
<1>18. QED
  BY <1>2, <1>15, <1>16, <1>17, AtOnceKeeps DEF TablesInv

LEMMA createUserKeeps ==
    ASSUME IInv, NEW c \in Calls, NEW u \in Accounts, NEW email \in Emails,
           NEW role \in {"COMPANY_ADMIN", "AGENT"}, NEW k \in Companies,
           createUser(c, u, email, role, k)
    PROVE  IInv'
<1> DEFINE row == Account(email, role, TRUE, "APPROVED", k)
<1>0. TablesInv /\ TablesOK
  BY DEF IInv, TablesInv
<1>1. /\ AtOnce(c, "createUser") /\ AccountsOf(email) = {} /\ account[u] = NoAccount
      /\ account' = [account EXCEPT ![u] = row] /\ touched' = touched \cup {u}
      /\ UNCHANGED <<company, requests, removed, overwritten>>
  BY DEF createUser
<1>2. row \in UserRows /\ row.email = email /\ row.approvalStatus = "APPROVED"
  BY DEF Account, AccountRows, UserRows
<1> HIDE DEF row
<1>3. /\ account' \in [Accounts -> UserRows] /\ account'[u] = row
      /\ \A v \in Accounts : v # u => account'[v] = account[v]
  BY <1>0, <1>1, <1>2, AccountWrite
<1>4. NewAccount(u, email)
  BY <1>1, <1>2, <1>3 DEF NewAccount
<1>5. SameRequests /\ SameUsers
  BY <1>1 DEF SameRequests, SameUsers
<1>6. IdInv' /\ Stable /\ RequestsKnow'
  BY <1>0, <1>1, <1>4, <1>5, NewAccountIds
<1>7. StInv'
  BY <1>0, <1>1, <1>2, <1>3, <1>4, <1>5, NewAccountStatus
<1>8. TablesOK'
  BY <1>0, <1>1, <1>3 DEF TablesOK
<1>9. QED
  BY <1>1, <1>6, <1>7, <1>8, AtOnceKeeps DEF TablesInv

LEMMA removeUserKeeps ==
    ASSUME IInv, NEW c \in Calls, NEW u \in Accounts, removeUser(c, u)
    PROVE  IInv'
<1>0. TablesInv /\ TablesOK /\ requests \in Seq(Requests) /\ Exists(u)
  BY DEF IInv, TablesInv, TablesOK, removeUser
<1>1. /\ AtOnce(c, "removeUser") /\ account' = [account EXCEPT ![u] = Deleted]
      /\ requests' = [r \in DOMAIN requests |->
               IF requests[r].userId = u THEN [requests[r] EXCEPT !.userId = None] ELSE requests[r]]
      /\ removed' = removed \cup {account[u].email}
      /\ UNCHANGED <<company, touched, overwritten>>
  BY DEF removeUser
<1>2. account[u].email \in Emails
  BY <1>0, ExistingRow DEF AccountRows
<1>3. /\ account' \in [Accounts -> UserRows] /\ account'[u] = Deleted
      /\ \A v \in Accounts : v # u => account'[v] = account[v]
  BY <1>0, <1>1, AccountWrite DEF UserRows
<1>4. ASSUME NEW r \in DOMAIN requests
      PROVE  LET new == [requests[r] EXCEPT !.userId = None] IN
             /\ new \in Requests /\ new.kind = requests[r].kind /\ new.name = requests[r].name
             /\ new.email = requests[r].email /\ new.companyId = requests[r].companyId
             /\ new.userId = None /\ new.status = requests[r].status
  BY <1>0, RequestRows DEF Requests
<1>5. requests' \in [DOMAIN requests -> Requests]
  BY <1>0, <1>1, <1>4, RequestRows
<1>6. requests' \in Seq(Requests)
  BY <1>0, <1>5, RequestsMap
<1>7. SameRequests /\ \A r \in DOMAIN requests : requests'[r].status = requests[r].status
  BY <1>1, <1>4, <1>5 DEF SameRequests
<1>8. \A r \in DOMAIN requests :
         \/ requests[r].userId = u /\ requests'[r].userId = None
         \/ requests[r].userId # u /\ requests'[r].userId = requests[r].userId
  BY <1>1, <1>4
<1>9. TablesOK'
  BY <1>0, <1>1, <1>2, <1>3, <1>5, <1>6 DEF TablesOK
<1>10. RequestsKnow'
  <2>1. RequestsKnow
    BY <1>0 DEF TablesInv
  <2>2. QED
    BY <1>7, <1>8, <2>1 DEF SameRequests, RequestsKnow
<1>11. Deleted.email = None
  BY DEF Deleted, Account
<1>12. \A v \in Accounts : account'[v].email # None => v # u /\ account'[v] = account[v]
  BY <1>3, <1>11
<1>13. UniqueEmails'
  BY <1>0, <1>12 DEF TablesInv, IdInv, UniqueEmails, Exists
<1>14. RequestsHaveAccounts'
  <2>1. ASSUME NEW r \in DOMAIN requests, requests[r].email \notin removed'
        PROVE  \E v \in Accounts : account'[v].email = requests[r].email
    <3>1. PICK v \in Accounts : account[v].email = requests[r].email
      BY <1>0, <1>1, <2>1 DEF TablesInv, IdInv, RequestsHaveAccounts
    <3>2. v # u
      BY <1>1, <2>1, <3>1
    <3>3. QED
      BY <1>3, <3>1, <3>2
  <2>2. QED
    BY <1>7, <2>1 DEF RequestsHaveAccounts, SameRequests
<1>15. OneRegistrationPerAddress'
  BY <1>0, <1>1, <1>7 DEF TablesInv, IdInv, OneRegistrationPerAddress, SameRequests
<1>16. UsersOfRequests'
  <2>1. ASSUME NEW r \in DOMAIN requests
        PROVE  /\ requests'[r].userId # None =>
                    account'[requests'[r].userId].email = requests[r].email
               /\ requests[r].kind = "agent" /\ requests[r].email \notin removed' =>
                    requests'[r].userId # None
    <3>1. requests[r].userId \in Accounts \cup {None}
      BY <1>0, RequestRows DEF Requests
    <3>2. requests[r].userId # None => account[requests[r].userId].email = requests[r].email
      BY <1>0 DEF TablesInv, IdInv, UsersOfRequests
    <3>3. requests[r].kind = "agent" /\ requests[r].email \notin removed => requests[r].userId # None
      BY <1>0 DEF TablesInv, IdInv, UsersOfRequests
    <3>4. CASE requests[r].userId = u
      BY <1>1, <1>8, <3>2, <3>4, OnboardingAssumption
    <3>5. CASE requests[r].userId # u
      BY <1>1, <1>3, <1>8, <3>1, <3>2, <3>3, <3>5
    <3>6. QED
      BY <3>4, <3>5
  <2>2. QED
    BY <1>7, <2>1 DEF UsersOfRequests, SameRequests
<1>17. AdminsApproved' /\ ActiveApproved' /\ AccountFollowsRequest'
  <2>1. \A r \in DOMAIN requests : requests[r].email # None
    BY <1>0, RequestRows, NoneIsNoAddress DEF Requests
  <2>2. AdminsApproved'
    BY <1>0, <1>1, <1>7, <1>12, <2>1 DEF TablesInv, StInv, AdminsApproved, SameRequests
  <2>3. ActiveApproved'
    BY <1>0, <1>1, <1>12 DEF TablesInv, StInv, ActiveApproved, Exists
  <2>4. ASSUME NEW p \in DOMAIN requests, NEW v \in Accounts, account'[v].email = requests[p].email,
               v \notin touched, requests[p].email \notin removed', p \notin overwritten
        PROVE  account'[v].isActive <=> requests'[p].status = "APPROVED"
    <3>1. account'[v] = account[v] /\ requests'[p].status = requests[p].status
      BY <1>7, <1>12, <2>1, <2>4
    <3>2. requests[p].email \notin removed
      BY <1>1, <2>4
    <3>3. QED
      BY <1>0, <2>4, <3>1, <3>2 DEF TablesInv, StInv, AccountFollowsRequest
  <2>5. AccountFollowsRequest'
    BY <1>1, <1>7, <2>4 DEF AccountFollowsRequest, SameRequests
  <2>6. QED
    BY <2>2, <2>3, <2>5
<1>18. Stable
  BY <1>1, <1>3, <1>7 DEF Stable, SameRequests
<1>19. TablesInv'
  BY <1>9, <1>10, <1>13, <1>14, <1>15, <1>16, <1>17 DEF TablesInv, IdInv, StInv
<1>20. QED
  BY <1>1, <1>18, <1>19, AtOnceKeeps

-----------------------------------------------------------------------------

LEMMA InitIInv == Init => IInv
<1> SUFFICES ASSUME Init PROVE IInv
  OBVIOUS
<1>1. call = [c \in Calls |-> NewCall] /\ touched = {} /\ removed = {} /\ overwritten = {}
  BY DEF Init
<1>2. call \in [Calls -> CallRows]
  BY <1>1, NewCallRow
<1>3. CallsKnow
  BY <1>1, NewCallRow DEF CallsKnow, Knows
<1>4. NoAccount \in UserRows /\ NoAccount.email = None /\ NoCompany \in CompanyRows
  BY DEF UserRows, CompanyRows, NoAccount, Account
<1>5. PICK k, j \in Companies, n, m \in Names, e \in Emails, u \in Accounts :
         /\ k # j /\ n # m
         /\ \/ /\ company = [i \in Companies |->
                               IF i = k THEN Company(n, None, "ACTIVE") ELSE NoCompany]
               /\ account = [v \in Accounts |-> NoAccount]
               /\ requests = <<>>
            \/ /\ company = [i \in Companies |-> IF i = k THEN Company(n, None, "ACTIVE")
                                                 ELSE IF i = j THEN Company(m, e, "PENDING")
                                                 ELSE NoCompany]
               /\ account = [v \in Accounts |->
                               IF v = u THEN Account(e, "COMPANY_ADMIN", FALSE, "APPROVED", j)
                               ELSE NoAccount]
               /\ requests = <<CompanyRequest(m, e)>>
  BY DEF Init
<1>6. Company(n, None, "ACTIVE") \in CompanyRows /\ Company(m, e, "PENDING") \in CompanyRows
  BY DEF Company, CompanyRows, CompanyStatuses
<1>7. company \in [Companies -> CompanyRows]
  BY <1>4, <1>5, <1>6
<1>8. CASE account = [v \in Accounts |-> NoAccount] /\ requests = <<>>
  <2>1. account \in [Accounts -> UserRows] /\ requests \in Seq(Requests) /\ DOMAIN requests = {}
    BY <1>4, <1>8
  <2>2. TablesOK
    BY <1>1, <1>7, <2>1 DEF TablesOK
  <2>3. \A v \in Accounts : ~Exists(v)
    BY <1>4, <1>8 DEF Exists
  <2>4. RequestsKnow /\ IdInv /\ StInv
    BY <2>1, <2>3
       DEF RequestsKnow, IdInv, UniqueEmails, RequestsHaveAccounts, OneRegistrationPerAddress,
           UsersOfRequests, StInv, AdminsApproved, ActiveApproved, AccountFollowsRequest
  <2>5. QED
    BY <1>2, <1>3, <2>2, <2>4 DEF IInv, TablesInv
<1>9. CASE /\ account = [v \in Accounts |->
                           IF v = u THEN Account(e, "COMPANY_ADMIN", FALSE, "APPROVED", j)
                           ELSE NoAccount]
           /\ requests = <<CompanyRequest(m, e)>>
  <2> DEFINE user == Account(e, "COMPANY_ADMIN", FALSE, "APPROVED", j)
             row == CompanyRequest(m, e)
  <2>1. /\ user \in UserRows /\ user.email = e /\ user.role = "COMPANY_ADMIN"
        /\ user.isActive = FALSE /\ user.approvalStatus = "APPROVED"
    BY DEF user, Account, AccountRows, UserRows
  <2>2. /\ row \in Requests /\ row.email = e /\ row.status = "PENDING" /\ row.kind = "company"
        /\ row.name = m /\ row.userId = None
    BY DEF row, CompanyRequest, Requests, RequestStatuses
  <2>3. account = [v \in Accounts |-> IF v = u THEN user ELSE NoAccount] /\ requests = <<row>>
    BY <1>9
  <2> HIDE DEF user, row
  <2>4. /\ requests \in Seq(Requests) /\ DOMAIN requests = {1} /\ requests[1] = row
        /\ account \in [Accounts -> UserRows]
    BY <1>4, <2>1, <2>2, <2>3
  <2>5. account[u] = user /\ \A v \in Accounts : v # u => account[v].email = None
    BY <1>4, <2>3
  <2>6. TablesOK
    BY <1>1, <1>7, <2>4 DEF TablesOK
  <2>7. RequestsKnow
    BY <2>2, <2>4 DEF RequestsKnow
  <2>8. IdInv
    BY <2>1, <2>2, <2>4, <2>5, NoneIsNoAddress
       DEF IdInv, UniqueEmails, Exists, RequestsHaveAccounts, OneRegistrationPerAddress,
           UsersOfRequests
  <2>9. StInv
    BY <2>1, <2>2, <2>4, <2>5, NoneIsNoAddress
       DEF StInv, AdminsApproved, ActiveApproved, Exists, AccountFollowsRequest
  <2>10. QED
    BY <1>2, <1>3, <2>6, <2>7, <2>8, <2>9 DEF IInv, TablesInv
<1>10. QED
  BY <1>5, <1>8, <1>9

LEMMA EnterKeeps ==
    ASSUME IInv, NEW c \in Calls, Enter(c)
    PROVE  IInv'
<1>1. CASE \E email \in Emails, name \in Names :
              registerCompany(c, email, name) \/ registerAgent(c, email, name)
  BY <1>1, registerCompanyKeeps, registerAgentKeeps
<1>2. CASE \E r \in DOMAIN requests :
              /\ requests[r].kind = "company"
              /\ \/ \E status \in {"ACTIVE", "TRIAL"} :
                      BeginReview(c, "approveCompany", r, {"PENDING", "NEEDS_MORE_INFO"}, status)
                 \/ BeginReview(c, "rejectCompany", r, RequestStatuses \ {"APPROVED"}, None)
                 \/ BeginReview(c, "requestMoreInfo", r, RequestStatuses \ {"APPROVED"}, None)
  <2>1. {"approveCompany", "rejectCompany", "requestMoreInfo"} \subseteq Reviews \ AgentReviews
    BY DEF Reviews, AgentReviews
  <2>2. QED
    BY <1>2, <2>1, BeginReviewKeeps
<1>3. CASE \E r \in DOMAIN requests :
              /\ requests[r].kind = "agent"
              /\ \/ BeginReview(c, "approveAgent", r, {"PENDING"}, None)
                 \/ BeginReview(c, "rejectAgent", r, RequestStatuses \ {"APPROVED"}, None)
  <2>1. {"approveAgent", "rejectAgent"} \subseteq Reviews \cap AgentReviews
    BY DEF Reviews, AgentReviews
  <2>2. QED
    BY <1>3, <2>1, BeginReviewKeeps
<1>4. CASE \E k \in Companies : \/ \E on \in BOOLEAN : setCompanyActivation(c, k, on)
                                \/ \E status \in CompanyStatuses : setCompanyStatus(c, k, status)
  BY <1>4, setCompanyActivationKeeps, setCompanyStatusKeeps
<1>5. CASE \E u \in Accounts :
              \/ \E on \in BOOLEAN : setUserActivation(c, u, on)
              \/ \E email \in Emails, role \in {"COMPANY_ADMIN", "AGENT"}, k \in Companies :
                    createUser(c, u, email, role, k)
              \/ removeUser(c, u)
  BY <1>5, setUserActivationKeeps, createUserKeeps, removeUserKeeps
<1>6. QED
  BY <1>1, <1>2, <1>3, <1>4, <1>5 DEF Enter

LEMMA WriteKeeps ==
    ASSUME IInv, NEW c \in Calls, Write(c)
    PROVE  IInv'
BY createCompanyRequestKeeps, approveCompanyKeeps, rejectCompanyKeeps, requestMoreInfoKeeps,
   createAgentRequestKeeps, approveAgentKeeps, rejectAgentKeeps, activateCompanyAdminsKeeps
   DEF Write

LEMMA NextIInv == IInv /\ [Next]_vars => IInv'
<1> SUFFICES ASSUME IInv, [Next]_vars PROVE IInv'
  OBVIOUS
<1>1. CASE Rest \/ UNCHANGED vars
  <2>1. UNCHANGED vars
    BY <1>1 DEF Rest
  <2>2. TablesInv' /\ Stable
    BY <2>1, TablesKept DEF vars, IInv
  <2>3. CallsKnow'
    BY <2>1 DEF vars, IInv, CallsKnow, Knows
  <2>4. QED
    BY <2>1, <2>2, <2>3 DEF vars, IInv
<1>2. CASE \E c \in Calls : Enter(c) \/ Write(c) \/ Throw(c)
  BY <1>2, EnterKeeps, WriteKeeps, RefusedKeeps DEF Throw
<1>3. QED
  BY <1>1, <1>2 DEF Next

LEMMA Invariance == Spec => []IInv
BY InitIInv, NextIInv, PTL DEF Spec

-----------------------------------------------------------------------------
(* Theorems *)

\* Every reachable state is well typed: in particular no call writes for a request, a
\* company or an account that is not there.
THEOREM TypeCorrect == Spec => []TypeOK
<1>1. IInv => TypeOK
  BY TypeParts DEF IInv, TablesInv
<1>2. QED
  BY Invariance, <1>1, PTL

\* However many registrations of one address overlap, at most one is kept until an
\* account of it is deleted (createPublicRequest of both services).
THEOREM AddressRegistersOnce == Spec => []OneRegistrationPerAddress
<1>1. IInv => OneRegistrationPerAddress
  BY DEF IInv, TablesInv, IdInv
<1>2. QED
  BY Invariance, <1>1, PTL

\* However many reviews of a request overlap, its account is active exactly when it is
\* approved (approveRequest, rejectRequest and requestMoreInfo of both services).
THEOREM AccessFollowsDecision == Spec => []AccountFollowsRequest
<1>1. IInv => AccountFollowsRequest
  BY DEF IInv, TablesInv, StInv
<1>2. QED
  BY Invariance, <1>1, PTL

\* Login and the session, which test different columns, agree on every account
\* (assertUserCanLogin and validate).
THEOREM SessionsFollowLogin == Spec => []SessionFollowsLogin
<1>1. IInv => SessionFollowsLogin
  <2> SUFFICES ASSUME IInv, NEW u \in Accounts, account[u].email \notin removed
               PROVE  assertUserCanLogin(u) <=>
                        \/ validate(u)
                        \/ /\ Exists(u) /\ account[u].isActive
                           /\ company[account[u].companyId].status = "TRIAL"
    BY DEF SessionFollowsLogin
  <2>1. Exists(u) /\ account[u].isActive => account[u].approvalStatus = "APPROVED"
    BY DEF IInv, TablesInv, StInv, ActiveApproved
  <2>2. isActive(account[u].companyId) <=> company[account[u].companyId].status \in {"ACTIVE", "TRIAL"}
    BY DEF isActive
  <2>3. QED
    BY <2>1, <2>2 DEF assertUserCanLogin, validate
<1>2. QED
  BY Invariance, <1>1, PTL

-----------------------------------------------------------------------------
(* What takes a company out of use *)

Activators == {"approveCompany", "setCompanyActivation", "setCompanyStatus"}

\* A registration was given a company that was not in use.  When it is in use now, another
\* call that began before the registration, or during it, has put it in use since.
LinkInv ==
    \A c \in Calls :
        /\ call[c].ended \subseteq Ended
        /\ call[c].step = "create_company_request" => call[c].kind = "registerCompany"
        /\ \A k \in Companies :
              call[c].step = "create_company_request" /\ call[c].companyId = k /\ isActive(k) =>
                \E d \in Calls \ call[c].ended :
                   d # c /\ call[d].step # "idle" /\ call[d].kind \in Activators

\* One call moves: it begins, or it ends and keeps what it is.
CallMoves(c) ==
    /\ \A d \in Calls : d # c => call'[d] = call[d]
    /\ call[c].step # "done" /\ call'[c].step # "idle"
    /\ \/ call[c].step = "idle" /\ call'[c].ended = Ended
       \/ /\ call'[c].step = "done" /\ call'[c].kind = call[c].kind
          /\ call'[c].ended = call[c].ended /\ call[c].step # "idle"

\* The registration is the only call that keeps a company for later, and reads it as it is.
Links(c) ==
    call'[c].step = "create_company_request" =>
        /\ call'[c].kind = "registerCompany"
        /\ UNCHANGED company
        /\ \A k \in Companies : call'[c].companyId = k => ~isActive(k)

\* Who puts a company in use, and who takes it out of use.
Moves(c) ==
    \A k \in Companies :
        /\ ~isActive(k) /\ isActive(k)' => call'[c].kind \in Activators
        /\ isActive(k) /\ ~isActive(k)' =>
             /\ call'[c].step = "done"
             /\ \/ call'[c].kind \in {"setCompanyActivation", "setCompanyStatus"}
                \/ /\ call[c].kind = "rejectCompany"
                   /\ \/ requests[call[c].req].name = company[k].name
                      \/ requests[call[c].req].email = company[k].email
                \/ call[c].step = "create_company_request" /\ call[c].companyId = k

Step(c) == CallMoves(c) /\ Links(c) /\ Moves(c)

LEMMA CompanyKept ==
    ASSUME NEW c \in Calls, UNCHANGED company
    PROVE  Moves(c)
BY DEF Moves, isActive

LEMMA EndMoves ==
    ASSUME call \in [Calls -> CallRows], NEW c \in Calls, call[c].step \notin {"idle", "done"}, End(c)
    PROVE  CallMoves(c) /\ Links(c)
<1> DEFINE row == [NewCall EXCEPT !.step = "done", !.kind = call[c].kind, !.req = call[c].req,
                                  !.ended = call[c].ended]
<1>1. row.step = "done" /\ row.kind = call[c].kind /\ row.ended = call[c].ended
  BY DEF NewCall
<1>2. call'[c] = row /\ \A d \in Calls : d # c => call'[d] = call[d]
  BY DEF End
<1> HIDE DEF row
<1>3. QED
  BY <1>1, <1>2 DEF CallMoves, Links

LEMMA RefusedSteps ==
    ASSUME call \in [Calls -> CallRows], NEW c \in Calls, call[c].step \notin {"idle", "done"},
           Refused(c)
    PROVE  Step(c)
BY EndMoves, CompanyKept DEF Refused, Step

LEMMA AtOnceMoves ==
    ASSUME call \in [Calls -> CallRows], NEW c \in Calls, NEW kind, AtOnce(c, kind)
    PROVE  CallMoves(c) /\ Links(c) /\ call'[c].step = "done" /\ call'[c].kind = kind
<1> DEFINE row == [NewCall EXCEPT !.step = "done", !.kind = kind, !.ended = Ended]
<1>1. row.step = "done" /\ row.kind = kind /\ row.ended = Ended
  BY DEF NewCall
<1>2. /\ call'[c] = row /\ call[c].step = "idle"
      /\ \A d \in Calls : d # c => call'[d] = call[d]
  BY DEF AtOnce
<1> HIDE DEF row
<1>3. QED
  BY <1>1, <1>2 DEF CallMoves, Links

\* A call that begins and will not write a company keeps none.
LEMMA BeginMoves ==
    ASSUME call \in [Calls -> CallRows], NEW c \in Calls, NEW kind, NEW admitted \in BOOLEAN,
           NEW first \in CallRows, first.step # "idle", Begin(c, kind, admitted, first)
    PROVE  /\ CallMoves(c) /\ Moves(c) /\ UNCHANGED company
           /\ \/ call'[c].step = "done"
              \/ /\ admitted /\ call'[c].step = first.step /\ call'[c].kind = kind
                 /\ call'[c].companyId = first.companyId
<1> DEFINE before == IF admitted THEN first ELSE [NewCall EXCEPT !.step = "done"]
           row == [before EXCEPT !.kind = kind, !.ended = Ended]
<1>1. /\ before \in CallRows /\ before.step # "idle"
      /\ (admitted /\ before = first) \/ before.step = "done"
  BY RefusedRow
<1>2. /\ call' = [call EXCEPT ![c] = row] /\ call[c].step = "idle" /\ UNCHANGED company
  BY DEF Begin
<1> HIDE DEF before
<1>3. /\ row.step = before.step /\ row.kind = kind /\ row.ended = Ended
      /\ row.companyId = before.companyId
  BY <1>1 DEF CallRows
<1> HIDE DEF row
<1>4. call'[c] = row /\ \A d \in Calls : d # c => call'[d] = call[d]
  BY <1>2
<1>5. QED
  BY <1>1, <1>2, <1>3, <1>4, CompanyKept DEF CallMoves

LEMMA registerCompanySteps ==
    ASSUME IInv, NEW c \in Calls, NEW email \in Emails, NEW name \in Names,
           registerCompany(c, email, name)
    PROVE  Step(c)
<1> DEFINE found == IF Named(name) # {} THEN Named(name) ELSE WithEmail(email)
           k == IF found = {} THEN None ELSE CHOOSE j \in found : TRUE
           keeps == k # None /\ company[k].email \notin {None, email}
           admitted == /\ AccountsOf(email) = {}
                       /\ LatestStatus("company", email) \subseteq {"REJECTED", "APPROVED"}
                       /\ Named(name) = {} \/ WithEmail(email) = {} \/ Named(name) = WithEmail(email)
                       /\ k # None => ~isActive(k)
           first == [NewCall EXCEPT !.step = "create_company_request", !.email = email,
                                    !.name = name, !.companyId = k, !.keepsEmail = keeps]
<1>1. found \in SUBSET Companies
  BY DEF Named, WithEmail
<1> HIDE DEF found
<1>2. k \in Companies \cup {None}
  BY <1>1, FoundCompany
<1> HIDE DEF k
<1>3. keeps \in BOOLEAN /\ admitted \in BOOLEAN
  OBVIOUS
<1>4. Begin(c, "registerCompany", admitted, first)
  BY DEF registerCompany, found, k
<1>5. admitted => (k # None => ~isActive(k))
  OBVIOUS
<1> HIDE DEF keeps, admitted
<1>6. first \in CallRows /\ first.step = "create_company_request" /\ first.companyId = k
  BY <1>2, <1>3 DEF NewCall, CallRows, Steps
<1> HIDE DEF first
<1>7. /\ CallMoves(c) /\ Moves(c) /\ UNCHANGED company
      /\ \/ call'[c].step = "done"
         \/ admitted /\ call'[c].kind = "registerCompany" /\ call'[c].companyId = k
  BY <1>3, <1>4, <1>6, BeginMoves DEF IInv
<1>8. \A j \in Companies : j # None
  BY OnboardingAssumption
<1>9. Links(c)
  BY <1>5, <1>7, <1>8 DEF Links
<1>10. QED
  BY <1>7, <1>9 DEF Step

LEMMA registerAgentSteps ==
    ASSUME IInv, NEW c \in Calls, NEW email \in Emails, NEW name \in Names,
           registerAgent(c, email, name)
    PROVE  Step(c)
<1> DEFINE k == IF Named(name) = {} THEN None ELSE CHOOSE j \in Named(name) : TRUE
           admitted == /\ AccountsOf(email) = {} /\ Named(name) # {}
                       /\ LatestStatus("agent", email) \subseteq {"REJECTED"}
           first == [NewCall EXCEPT !.step = "create_agent_request", !.email = email, !.companyId = k]
<1>1. k \in Companies \cup {None}
  BY FoundCompany DEF Named
<1> HIDE DEF k
<1>2. admitted \in BOOLEAN /\ Begin(c, "registerAgent", admitted, first)
  BY DEF registerAgent, k
<1> HIDE DEF admitted
<1>3. first \in CallRows /\ first.step = "create_agent_request"
  BY <1>1 DEF NewCall, CallRows, Steps
<1> HIDE DEF first
<1>4. CallMoves(c) /\ Moves(c) /\ call'[c].step \in {"done", "create_agent_request"}
  BY <1>2, <1>3, BeginMoves DEF IInv
<1>5. QED
  BY <1>4 DEF Step, Links

LEMMA BeginReviewSteps ==
    ASSUME IInv, NEW c \in Calls, NEW kind, NEW r \in DOMAIN requests, NEW statuses,
           NEW status \in CompanyStatuses \cup {None}, BeginReview(c, kind, r, statuses, status)
    PROVE  Step(c)
<1> DEFINE first == [NewCall EXCEPT !.step = "review", !.req = r, !.userId = requests[r].userId,
                                    !.status = status]
<1>1. requests[r].userId \in Accounts \cup {None} /\ r \in Nat
  BY RequestRows, LenProperties DEF IInv, TablesInv, TablesOK, Requests
<1>2. first \in CallRows /\ first.step = "review"
  BY <1>1 DEF NewCall, CallRows, Steps
<1> DEFINE admitted == requests[r].status \in statuses
<1>3. admitted \in BOOLEAN /\ Begin(c, kind, admitted, first)
  BY DEF BeginReview
<1> HIDE DEF first, admitted
<1>4. CallMoves(c) /\ Moves(c) /\ call'[c].step \in {"done", "review"}
  BY <1>2, <1>3, BeginMoves DEF IInv
<1>5. QED
  BY <1>4 DEF Step, Links

\* A write of the status of one company.
LEMMA StatusOfOne ==
    ASSUME TablesOK, NEW c \in Calls, NEW k \in Companies, NEW status \in CompanyStatuses,
           company' = [company EXCEPT ![k].status = status],
           status \in {"ACTIVE", "TRIAL"} => call'[c].kind \in Activators,
           \/ status \in {"ACTIVE", "TRIAL"}
           \/ /\ call'[c].step = "done"
              /\ \/ call'[c].kind \in {"setCompanyActivation", "setCompanyStatus"}
                 \/ /\ call[c].kind = "rejectCompany"
                    /\ \/ requests[call[c].req].name = company[k].name
                       \/ requests[call[c].req].email = company[k].email
    PROVE  Moves(c)
<1>1. \A j \in Companies : j # k => company'[j] = company[j]
  BY DEF TablesOK
<1>2. company'[k] = [company[k] EXCEPT !.status = status]
  BY DEF TablesOK
<1>3. company[k] \in CompanyRows
  BY DEF TablesOK
<1>4. company'[k].status = status
  BY <1>2, <1>3 DEF CompanyRows, NoCompany, Company
<1>5. QED
  BY <1>1, <1>4 DEF Moves, isActive

LEMMA setCompanyActivationSteps ==
    ASSUME IInv, NEW c \in Calls, NEW k \in Companies, NEW on \in BOOLEAN,
           setCompanyActivation(c, k, on)
    PROVE  Step(c)
<1> DEFINE row == [NewCall EXCEPT !.kind = "setCompanyActivation",
                     !.step = IF on THEN "activate_admins" ELSE "done",
                     !.companyId = IF on THEN k ELSE None, !.ended = Ended]
           status == IF on THEN "ACTIVE" ELSE "SUSPENDED"
<1>1. /\ row.kind = "setCompanyActivation" /\ row.ended = Ended
      /\ row.step \in {"activate_admins", "done"}
      /\ ~on => row.step = "done"
  BY DEF NewCall
<1>2. /\ call' = [call EXCEPT ![c] = row] /\ call[c].step = "idle"
      /\ company' = [company EXCEPT ![k].status = status]
  BY DEF setCompanyActivation
<1> HIDE DEF row
<1>3. call'[c] = row /\ \A d \in Calls : d # c => call'[d] = call[d]
  BY <1>2 DEF IInv
<1>4. CallMoves(c) /\ Links(c)
  BY <1>1, <1>2, <1>3 DEF CallMoves, Links
<1>5. status \in CompanyStatuses /\ (status \in {"ACTIVE", "TRIAL"} \/ ~on)
  BY DEF CompanyStatuses
<1> HIDE DEF status
<1>6. Moves(c)
  BY <1>1, <1>2, <1>3, <1>5, StatusOfOne DEF IInv, TablesInv, Activators
<1>7. QED
  BY <1>4, <1>6 DEF Step

LEMMA setCompanyStatusSteps ==
    ASSUME IInv, NEW c \in Calls, NEW k \in Companies, NEW status \in CompanyStatuses,
           setCompanyStatus(c, k, status)
    PROVE  Step(c)
<1>1. /\ CallMoves(c) /\ Links(c) /\ call'[c].step = "done" /\ call'[c].kind = "setCompanyStatus"
      /\ company' = [company EXCEPT ![k].status = status]
  BY AtOnceMoves DEF setCompanyStatus, IInv
<1>2. QED
  BY <1>1, StatusOfOne DEF IInv, TablesInv, Activators, Step

LEMMA OfUsersSteps ==
    ASSUME IInv, NEW c \in Calls, NEW u \in Accounts,
           \/ \E on \in BOOLEAN : setUserActivation(c, u, on)
           \/ \E email \in Emails, role \in {"COMPANY_ADMIN", "AGENT"}, k \in Companies :
                createUser(c, u, email, role, k)
           \/ removeUser(c, u)
    PROVE  Step(c)
BY AtOnceMoves, CompanyKept DEF setUserActivation, createUser, removeUser, IInv, Step

LEMMA createCompanyRequestSteps ==
    ASSUME IInv, NEW c \in Calls, createCompanyRequest(c)
    PROVE  Step(c)
<1> DEFINE q == call[c]
<1>1. q.step = "create_company_request" /\ q.companyId \in Companies \cup {None}
  BY DEF createCompanyRequest, IInv, CallRows
<1>2. PICK k \in Companies :
         /\ IF q.companyId = None THEN company[k] = NoCompany ELSE k = q.companyId
         /\ \/ Refused(c)
            \/ /\ End(c)
               /\ \E name, email : company' = [company EXCEPT ![k] = Company(name, email, "PENDING")]
  <2>1. PICK k \in (IF q.companyId = None THEN {j \in Companies : company[j] = NoCompany}
                    ELSE {q.companyId}), u \in {v \in Accounts : account[v] = NoAccount} :
           LET email == IF q.keepsEmail THEN company[k].email ELSE q.email IN
           IF AccountsOf(q.email) # {} \/ ~Unique(k, q.name, email) THEN Refused(c)
           ELSE /\ company' = [company EXCEPT ![k] = Company(q.name, email, "PENDING")]
                /\ account' = [account EXCEPT
                                 ![u] = Account(q.email, "COMPANY_ADMIN", FALSE, "APPROVED", k)]
                /\ requests' = Append(requests, CompanyRequest(q.name, q.email))
                /\ End(c)
                /\ UNCHANGED <<touched, removed, overwritten>>
    BY DEF createCompanyRequest
  <2>2. k \in Companies /\ IF q.companyId = None THEN company[k] = NoCompany ELSE k = q.companyId
    BY <1>1, <2>1
  <2>3. \/ Refused(c)
        \/ /\ End(c)
           /\ \E name, email : company' = [company EXCEPT ![k] = Company(name, email, "PENDING")]
    BY <2>1
  <2>4. QED
    BY <2>2, <2>3
<1>3. CASE Refused(c)
  BY <1>1, <1>3, RefusedSteps DEF IInv
<1>4. CASE ~Refused(c)
  <2>1. CallMoves(c) /\ Links(c) /\ call'[c].step = "done"
    BY <1>1, <1>2, <1>4, EndMoves, EndEffect DEF IInv
  <2>2. company'[k].status = "PENDING" /\ \A j \in Companies : j # k => company'[j] = company[j]
    BY <1>2, <1>4 DEF IInv, TablesInv, TablesOK, Company
  <2>3. ~isActive(k) \/ k = q.companyId
    BY <1>2 DEF isActive, NoCompany, Company
  <2>4. Moves(c)
    BY <1>1, <2>1, <2>2, <2>3 DEF Moves, isActive
  <2>5. QED
    BY <2>1, <2>4 DEF Step
<1>5. QED
  BY <1>3, <1>4

LEMMA approveCompanySteps ==
    ASSUME IInv, NEW c \in Calls, approveCompany(c)
    PROVE  Step(c)
<1>1. call[c].step = "review" /\ call[c].kind = "approveCompany"
  BY DEF approveCompany
<1>2. call[c].status \in {"ACTIVE", "TRIAL"}
  BY <1>1 DEF IInv, CallsKnow, Knows
<1>3. CASE Refused(c)
  BY <1>1, <1>3, RefusedSteps DEF IInv
<1>4. CASE ~Refused(c)
  <2>1. End(c) /\ \E k, name, email :
                     company' = [company EXCEPT ![k] = Company(name, email, call[c].status)]
    <3> DEFINE q == requests[call[c].req]
               users == AccountsOf(q.email)
               named == Named(q.name) \cup WithEmail(q.email)
               homes == IF users # {} THEN {account[u].companyId : u \in users} ELSE named
    <3>1. PICK k \in (IF homes # {} THEN homes ELSE {j \in Companies : company[j] = NoCompany}),
               u \in (IF users # {} THEN users ELSE {v \in Accounts : account[v] = NoAccount}) :
           IF ~Unique(k, q.name, q.email) THEN Refused(c)
           ELSE /\ company' = [company EXCEPT ![k] = Company(q.name, q.email, call[c].status)]
                /\ account' = [account EXCEPT
                     ![u] = Account(q.email, "COMPANY_ADMIN", TRUE,
                                    IF users # {} THEN account[u].approvalStatus ELSE "APPROVED", k)]
                /\ Decided(call[c].req, "APPROVED")
                /\ End(c)
                /\ UNCHANGED <<touched, removed, overwritten>>
      BY DEF approveCompany
    <3>2. QED
      BY <1>4, <3>1
  <2>2. PICK k, name, email :
           company' = [company EXCEPT ![k] = Company(name, email, call[c].status)]
    BY <2>1
  <2>3. \A j \in Companies : company'[j] = company[j] \/ company'[j].status = call[c].status
    BY <2>2 DEF IInv, TablesInv, TablesOK, Company
  <2>4. CallMoves(c) /\ Links(c) /\ call'[c].kind = call[c].kind
    BY <1>1, <2>1, EndMoves DEF IInv, CallMoves
  <2>5. Moves(c)
    BY <1>1, <1>2, <2>3, <2>4 DEF Moves, isActive, Activators
  <2>6. QED
    BY <2>4, <2>5 DEF Step
<1>5. QED
  BY <1>3, <1>4

LEMMA rejectCompanySteps ==
    ASSUME IInv, NEW c \in Calls, rejectCompany(c)
    PROVE  Step(c)
<1> DEFINE q == requests[call[c].req]
<1>1. call[c].step = "review" /\ call[c].kind = "rejectCompany" /\ End(c)
  BY DEF rejectCompany
<1>2. CallMoves(c) /\ Links(c) /\ call'[c].step = "done"
  BY <1>1, EndMoves, EndEffect DEF IInv
<1>3. CASE UNCHANGED company
  BY <1>2, <1>3, CompanyKept DEF Step
<1>4. CASE ~UNCHANGED company
  <2>1. PICK k \in Named(q.name) \cup WithEmail(q.email) :
           company' = [company EXCEPT ![k].status = "SUSPENDED"]
    BY <1>4 DEF rejectCompany
  <2>2. k \in Companies /\ (q.name = company[k].name \/ q.email = company[k].email)
    BY DEF Named, WithEmail
  <2>3. Moves(c)
    BY <1>1, <1>2, <2>1, <2>2, StatusOfOne DEF IInv, TablesInv, CompanyStatuses
  <2>4. QED
    BY <1>2, <2>3 DEF Step
<1>5. QED
  BY <1>3, <1>4

LEMMA OtherWritesSteps ==
    ASSUME IInv, NEW c \in Calls,
           \/ requestMoreInfo(c) \/ createAgentRequest(c) \/ approveAgent(c) \/ rejectAgent(c)
           \/ activateCompanyAdmins(c)
    PROVE  Step(c)
<1>1. call[c].step \notin {"idle", "done"} /\ End(c) /\ UNCHANGED company
  BY DEF requestMoreInfo, createAgentRequest, approveAgent, rejectAgent, activateCompanyAdmins, Refused
<1>2. QED
  BY <1>1, EndMoves, CompanyKept DEF IInv, Step

LEMMA EnterSteps ==
    ASSUME IInv, NEW c \in Calls, Enter(c)
    PROVE  Step(c)
<1>1. CASE \E email \in Emails, name \in Names :
              registerCompany(c, email, name) \/ registerAgent(c, email, name)
  BY <1>1, registerCompanySteps, registerAgentSteps
<1>2. CASE \E r \in DOMAIN requests :
              \/ \E status \in {"ACTIVE", "TRIAL"} :
                   BeginReview(c, "approveCompany", r, {"PENDING", "NEEDS_MORE_INFO"}, status)
              \/ BeginReview(c, "rejectCompany", r, RequestStatuses \ {"APPROVED"}, None)
              \/ BeginReview(c, "requestMoreInfo", r, RequestStatuses \ {"APPROVED"}, None)
              \/ BeginReview(c, "approveAgent", r, {"PENDING"}, None)
              \/ BeginReview(c, "rejectAgent", r, RequestStatuses \ {"APPROVED"}, None)
  <2>1. {"ACTIVE", "TRIAL"} \subseteq CompanyStatuses
    BY DEF CompanyStatuses
  <2>2. QED
    BY <1>2, <2>1, BeginReviewSteps
<1>3. CASE \E k \in Companies : \/ \E on \in BOOLEAN : setCompanyActivation(c, k, on)
                                \/ \E status \in CompanyStatuses : setCompanyStatus(c, k, status)
  BY <1>3, setCompanyActivationSteps, setCompanyStatusSteps
<1>4. CASE \E u \in Accounts :
              \/ \E on \in BOOLEAN : setUserActivation(c, u, on)
              \/ \E email \in Emails, role \in {"COMPANY_ADMIN", "AGENT"}, k \in Companies :
                    createUser(c, u, email, role, k)
              \/ removeUser(c, u)
  BY <1>4, OfUsersSteps
<1>5. QED
  BY <1>1, <1>2, <1>3, <1>4 DEF Enter

LEMMA NextSteps ==
    ASSUME IInv, [Next]_vars
    PROVE  UNCHANGED vars \/ \E c \in Calls : Step(c)
<1>1. \A c \in Calls : Write(c) => Step(c)
  BY createCompanyRequestSteps, approveCompanySteps, rejectCompanySteps, OtherWritesSteps DEF Write
<1>2. \A c \in Calls : Throw(c) => Step(c)
  BY RefusedSteps DEF Throw, IInv
<1>3. QED
  BY <1>1, <1>2, EnterSteps DEF Next, Rest

LEMMA InitLinkInv == Init => LinkInv
BY DEF Init, LinkInv, NewCall

\* The call that puts the company in use has not ended, so it is not one of those that had
\* ended when the registration began.
LEMMA StepLinkInv ==
    ASSUME LinkInv, NEW c \in Calls, Step(c)
    PROVE  LinkInv'
<1>1. Ended \subseteq Ended' /\ c \notin Ended
  BY DEF Step, CallMoves, Ended
<1>2. ASSUME NEW d \in Calls
      PROVE  call'[d].ended \subseteq Ended'
  BY <1>1 DEF LinkInv, Step, CallMoves
<1>3. ASSUME NEW d \in Calls, call'[d].step = "create_company_request"
      PROVE  call'[d].kind = "registerCompany"
  BY <1>3 DEF LinkInv, Step, CallMoves, Links
<1>4. ASSUME NEW d \in Calls, NEW k \in Companies, call'[d].step = "create_company_request",
             call'[d].companyId = k, isActive(k)'
      PROVE  \E w \in Calls \ call'[d].ended :
                w # d /\ call'[w].step # "idle" /\ call'[w].kind \in Activators
  <2>1. d # c
    BY <1>4 DEF Step, Links, isActive
  <2>2. call'[d] = call[d]
    BY <2>1 DEF Step, CallMoves
  <2>3. CASE isActive(k)
    <3>1. PICK w \in Calls \ call[d].ended :
             w # d /\ call[w].step # "idle" /\ call[w].kind \in Activators
      BY <1>4, <2>2, <2>3 DEF LinkInv
    <3>2. call'[w].step # "idle" /\ call'[w].kind = call[w].kind
      BY <3>1 DEF Step, CallMoves
    <3>3. QED
      BY <2>2, <3>1, <3>2
  <2>4. CASE ~isActive(k)
    <3>1. call'[c].kind \in Activators /\ call'[c].step # "idle"
      BY <1>4, <2>4 DEF Step, Moves, CallMoves
    <3>2. c \notin call[d].ended
      BY <1>1 DEF LinkInv
    <3>3. QED
      BY <2>1, <2>2, <3>1, <3>2
  <2>5. QED
    BY <2>3, <2>4
<1>5. QED
  BY <1>2, <1>3, <1>4 DEF LinkInv

LEMMA NextLinkInv == IInv /\ LinkInv /\ [Next]_vars => LinkInv'
<1> SUFFICES ASSUME IInv, LinkInv, [Next]_vars PROVE LinkInv'
  OBVIOUS
<1>1. CASE UNCHANGED vars
  BY <1>1 DEF vars, LinkInv, Ended, isActive
<1>2. QED
  BY <1>1, NextSteps, StepLinkInv

\* A company in use is taken out of use by an administrator, by the refusal of a
\* registration with its name or its email, or by a registration that another call has
\* overtaken (createPublicRequest, which reads the company outside its transaction).
THEOREM UseIsWithdrawn == Spec => InUseUntilWithdrawn
<1> DEFINE Withdrawn ==
      \A k \in Companies : isActive(k) /\ ~isActive(k)' =>
         \E c \in Calls :
            /\ call[c].step # "done" /\ call'[c].step = "done"
            /\ \/ call'[c].kind \in {"setCompanyActivation", "setCompanyStatus"}
               \/ /\ call[c].kind = "rejectCompany"
                  /\ \/ requests[call[c].req].name = company[k].name
                     \/ requests[call[c].req].email = company[k].email
               \/ /\ call[c].kind = "registerCompany"
                  /\ \E d \in Calls \ call[c].ended :
                        /\ d # c
                        /\ call[d].kind \in {"approveCompany", "setCompanyActivation", "setCompanyStatus"}
<1>1. IInv /\ LinkInv /\ [Next]_vars => [Withdrawn]_vars
  <2> SUFFICES ASSUME IInv, LinkInv, [Next]_vars, ~UNCHANGED vars,
                      NEW k \in Companies, isActive(k), ~isActive(k)'
               PROVE  \E c \in Calls :
                         /\ call[c].step # "done" /\ call'[c].step = "done"
                         /\ \/ call'[c].kind \in {"setCompanyActivation", "setCompanyStatus"}
                            \/ /\ call[c].kind = "rejectCompany"
                               /\ \/ requests[call[c].req].name = company[k].name
                                  \/ requests[call[c].req].email = company[k].email
                            \/ /\ call[c].kind = "registerCompany"
                               /\ \E d \in Calls \ call[c].ended :
                                     d # c /\ call[d].kind \in Activators
    BY DEF Activators
  <2>1. PICK c \in Calls : Step(c)
    BY NextSteps
  <2>2. /\ call[c].step # "done" /\ call'[c].step = "done"
        /\ \/ call'[c].kind \in {"setCompanyActivation", "setCompanyStatus"}
           \/ /\ call[c].kind = "rejectCompany"
              /\ \/ requests[call[c].req].name = company[k].name
                 \/ requests[call[c].req].email = company[k].email
           \/ call[c].step = "create_company_request" /\ call[c].companyId = k
    BY <2>1 DEF Step, CallMoves, Moves
  <2>3. CASE call[c].step = "create_company_request" /\ call[c].companyId = k
    <3>1. /\ call[c].kind = "registerCompany"
          /\ \E d \in Calls \ call[c].ended : d # c /\ call[d].kind \in Activators
      BY <2>3 DEF LinkInv
    <3>2. QED
      BY <2>2, <3>1
  <2>4. QED
    BY <2>2, <2>3
<1>2. QED
  BY Invariance, InitLinkInv, NextLinkInv, <1>1, PTL DEF Spec, InUseUntilWithdrawn
=============================================================================
