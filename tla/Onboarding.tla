------------------------------ MODULE Onboarding ------------------------------
(***************************************************************************)
(* How companies and human agents get access: the public registrations,    *)
(* their review by the platform's administrators (company-registration and *)
(* agent-registration services), the administrators' own operations on     *)
(* companies and users, and what login and a session ask of the rows.      *)
(*                                                                         *)
(* A call reads, outside any transaction, what it decides from, and writes *)
(* in a transaction later.  The unique email of a user and the unique name *)
(* and email of a company are the database's; a transaction that would     *)
(* break them throws and leaves nothing.                                   *)
(***************************************************************************)
EXTENDS Integers, Sequences, FiniteSets

CONSTANTS
    Calls,      \* the calls received
    Kinds,      \* the entries in use
    Accounts,   \* the identifiers of users
    Companies,  \* the identifiers of companies
    Emails,     \* the addresses of registrations and users
    Names,      \* the names of companies
    None

Reviews == {"approveCompany", "rejectCompany", "requestMoreInfo", "approveAgent", "rejectAgent"}
Entries == {"registerCompany", "registerAgent", "setCompanyActivation", "setCompanyStatus",
            "setUserActivation", "createUser", "removeUser"} \cup Reviews

ASSUME OnboardingAssumption ==
    /\ Kinds \subseteq Entries
    /\ None \notin Accounts \cup Companies \cup Emails \cup Names

VARIABLES
    company,      \* the rows of companies
    account,      \* the rows of users, administrators of the platform excepted
    requests,     \* the registration requests, in the order of createdAt
    call,         \* what each call knows, and its next step
    touched,      \* accounts that an administrator has written directly (a history variable)
    removed,      \* addresses whose account was deleted (a history variable)
    overwritten   \* requests whose approval a question has replaced (a history variable)

vars == <<company, account, requests, call, touched, removed, overwritten>>

CompanyStatuses == {"PENDING", "ACTIVE", "TRIAL", "SUSPENDED"}
Company(name, email, status) == [name |-> name, email |-> email, status |-> status]
NoCompany == Company(None, None, "unused")

\* Every write of a company sets isActive to this.
isActive(k) == company[k].status \in {"ACTIVE", "TRIAL"}

Account(email, role, active, approval, k) ==
    [email |-> email, role |-> role, isActive |-> active, approvalStatus |-> approval,
     companyId |-> k]
NoAccount == Account(None, "unused", FALSE, "PENDING", None)
Deleted == Account(None, "deleted", FALSE, "PENDING", None)
AccountRows == [email : Emails, role : {"COMPANY_ADMIN", "AGENT"}, isActive : BOOLEAN,
                approvalStatus : {"PENDING", "APPROVED", "REJECTED"}, companyId : Companies]

\* PENDING stands for the company registrations' PENDING_APPROVAL as well.
RequestStatuses == {"PENDING", "NEEDS_MORE_INFO", "APPROVED", "REJECTED"}
Requests == [kind : {"company", "agent"}, name : Names \cup {None}, email : Emails,
             companyId : Companies \cup {None}, userId : Accounts \cup {None},
             status : RequestStatuses]

Steps == {"idle", "create_company_request", "create_agent_request", "review",
          "activate_admins", "done"}

TypeOK ==
    /\ company \in [Companies -> [name : Names, email : Emails \cup {None},
                                  status : CompanyStatuses] \cup {NoCompany}]
    /\ account \in [Accounts -> AccountRows \cup {NoAccount, Deleted}]
    /\ requests \in Seq(Requests)
    /\ call \in [Calls -> [step : Steps, kind : Kinds \cup {None}, email : Emails \cup {None},
                           name : Names \cup {None}, companyId : Companies \cup {None},
                           keepsEmail : BOOLEAN, req : Nat, userId : Accounts \cup {None},
                           status : CompanyStatuses \cup {None}, ended : SUBSET Calls]]
    /\ touched \subseteq Accounts
    /\ removed \subseteq Emails
    /\ overwritten \subseteq DOMAIN requests

NewCall == [step |-> "idle", kind |-> None, email |-> None, name |-> None, companyId |-> None,
            keepsEmail |-> FALSE, req |-> 0, userId |-> None, status |-> None, ended |-> {}]

CompanyRequest(name, email) ==
    [kind |-> "company", name |-> name, email |-> email, companyId |-> None, userId |-> None,
     status |-> "PENDING"]
AgentRequest(email, k, u) ==
    [kind |-> "agent", name |-> None, email |-> email, companyId |-> k, userId |-> u,
     status |-> "PENDING"]

\* A company that an administrator has created, and perhaps the pending request of
\* another one, as createPublicRequest leaves it.
Init ==
    /\ \E k, j \in Companies, n, m \in Names, e \in Emails, u \in Accounts :
         /\ k # j /\ n # m
         /\ \/ /\ company = [i \in Companies |->
                               IF i = k THEN Company(n, None, "ACTIVE") ELSE NoCompany]
               /\ account = [v \in Accounts |-> NoAccount]
               /\ requests = <<>>
            \/ /\ company = [i \in Companies |-> IF i = k THEN Company(n, None, "ACTIVE")
                                                 ELSE IF i = j THEN Company(m, e, "PENDING")
                                                 ELSE NoCompany]
               /\ account = [v \in Accounts |->
                               IF v = u THEN Account(e, "COMPANY_ADMIN", FALSE, "APPROVED", j)
                               ELSE NoAccount]
               /\ requests = <<CompanyRequest(m, e)>>
    /\ call = [c \in Calls |-> NewCall]
    /\ touched = {} /\ removed = {} /\ overwritten = {}

-----------------------------------------------------------------------------
(* Helpers *)

Ended == {c \in Calls : call[c].step = "done"}

End(c) == call' = [call EXCEPT ![c] = [NewCall EXCEPT !.step = "done", !.kind = call[c].kind,
                                                      !.req = call[c].req, !.ended = call[c].ended]]

Exists(u) == account[u].email # None
AccountsOf(email) == {u \in Accounts : account[u].email = email}
Named(name) == {k \in Companies : company[k].name = name}
WithEmail(email) == {k \in Companies : company[k].email = email}

\* The statuses of the latest request of an address, if there is one.
LatestStatus(kind, email) ==
    LET own == {r \in DOMAIN requests : requests[r].kind = kind /\ requests[r].email = email}
    IN {requests[r].status : r \in {q \in own : \A p \in own : p <= q}}

\* A call that decides nothing ends where it began.
Begin(c, kind, admitted, first) ==
    /\ call[c].step = "idle" /\ kind \in Kinds
    /\ call' = [call EXCEPT ![c] = [(IF admitted THEN first ELSE [NewCall EXCEPT !.step = "done"])
                                      EXCEPT !.kind = kind, !.ended = Ended]]
    /\ UNCHANGED <<company, account, requests, touched, removed, overwritten>>

\* An entry of one transaction, the guards included.
AtOnce(c, kind) ==
    /\ call[c].step = "idle" /\ kind \in Kinds
    /\ call' = [call EXCEPT ![c] = [NewCall EXCEPT !.step = "done", !.kind = kind,
                                                   !.ended = Ended]]

\* A transaction throws: nothing is written.
Refused(c) == End(c) /\ UNCHANGED <<company, account, requests, touched, removed, overwritten>>

-----------------------------------------------------------------------------
(* company-registration.service.ts *)

\* Mutant: an active company is linked too.
registerCompany_AnyCompany(c, email, name) ==
    LET found == IF Named(name) # {} THEN Named(name) ELSE WithEmail(email)
        k == IF found = {} THEN None ELSE CHOOSE j \in found : TRUE
    IN Begin(c, "registerCompany",
             /\ AccountsOf(email) = {}
             /\ LatestStatus("company", email) \subseteq {"REJECTED", "APPROVED"},
             [NewCall EXCEPT !.step = "create_company_request", !.email = email, !.name = name,
                             !.companyId = k])

\* assertEmailIsAvailable, findLinkableCompany.  Only an inactive company is linked,
\* and its email is kept when it is another one.
registerCompany(c, email, name) ==
    LET found == IF Named(name) # {} THEN Named(name) ELSE WithEmail(email)
        k == IF found = {} THEN None ELSE CHOOSE j \in found : TRUE
    IN Begin(c, "registerCompany",
             /\ AccountsOf(email) = {}
             /\ LatestStatus("company", email) \subseteq {"REJECTED", "APPROVED"}
             /\ Named(name) = {} \/ WithEmail(email) = {} \/ Named(name) = WithEmail(email)
             /\ k # None => ~isActive(k),
             [NewCall EXCEPT !.step = "create_company_request", !.email = email, !.name = name,
                !.companyId = k,
                !.keepsEmail = k # None /\ company[k].email \notin {None, email}])

\* The names and emails of the other companies stay unique.
Unique(k, name, email) == Named(name) \subseteq {k} /\ (email # None => WithEmail(email) \subseteq {k})

\* The transaction of createPublicRequest: the company becomes PENDING, whatever it
\* has become since it was read.
createCompanyRequest(c) ==
    LET q == call[c] IN
    /\ q.step = "create_company_request"
    /\ \E k \in (IF q.companyId = None THEN {j \in Companies : company[j] = NoCompany}
                 ELSE {q.companyId}), u \in {v \in Accounts : account[v] = NoAccount} :
         LET email == IF q.keepsEmail THEN company[k].email ELSE q.email IN
         IF AccountsOf(q.email) # {} \/ ~Unique(k, q.name, email) THEN Refused(c)
         ELSE /\ company' = [company EXCEPT ![k] = Company(q.name, email, "PENDING")]
              /\ account' = [account EXCEPT
                               ![u] = Account(q.email, "COMPANY_ADMIN", FALSE, "APPROVED", k)]
              /\ requests' = Append(requests, CompanyRequest(q.name, q.email))
              /\ End(c)
              /\ UNCHANGED <<touched, removed, overwritten>>

\* A review reads the request first; some need it to be in one of these statuses.
BeginReview(c, kind, r, statuses, status) ==
    Begin(c, kind, requests[r].status \in statuses,
          [NewCall EXCEPT !.step = "review", !.req = r, !.userId = requests[r].userId,
                          !.status = status])

Decided(r, status) == requests' = [requests EXCEPT ![r].status = status]

\* The transaction of approveRequest: the user with the address, his company or else
\* one with the name or the email, and new rows for what is missing.  The user's
\* approvalStatus is left as it is.
approveCompany(c) ==
    LET q == requests[call[c].req]
        users == AccountsOf(q.email)
        named == Named(q.name) \cup WithEmail(q.email)
        homes == IF users # {} THEN {account[u].companyId : u \in users} ELSE named
    IN
    /\ call[c].step = "review" /\ call[c].kind = "approveCompany"
    /\ \E k \in (IF homes # {} THEN homes ELSE {j \in Companies : company[j] = NoCompany}),
          u \in (IF users # {} THEN users ELSE {v \in Accounts : account[v] = NoAccount}) :
         IF ~Unique(k, q.name, q.email) THEN Refused(c)
         ELSE /\ company' = [company EXCEPT ![k] = Company(q.name, q.email, call[c].status)]
              /\ account' = [account EXCEPT
                   ![u] = Account(q.email, "COMPANY_ADMIN", TRUE,
                                  IF users # {} THEN account[u].approvalStatus ELSE "APPROVED", k)]
              /\ Decided(call[c].req, "APPROVED")
              /\ End(c)
              /\ UNCHANGED <<touched, removed, overwritten>>

\* Mutant: the users are forgotten.
rejectCompany_CompanyOnly(c) ==
    LET q == requests[call[c].req]
        named == Named(q.name) \cup WithEmail(q.email)
    IN
    /\ call[c].step = "review" /\ call[c].kind = "rejectCompany"
    /\ \E k \in named : company' = [company EXCEPT ![k].status = "SUSPENDED"]
    /\ Decided(call[c].req, "REJECTED")
    /\ End(c)
    /\ UNCHANGED <<account, touched, removed, overwritten>>

\* The transaction of rejectRequest: every user with the address, and a company with
\* the name or the email, whoever's it is.
rejectCompany(c) ==
    LET q == requests[call[c].req]
        named == Named(q.name) \cup WithEmail(q.email)
    IN
    /\ call[c].step = "review" /\ call[c].kind = "rejectCompany"
    /\ account' = [u \in Accounts |-> IF u \in AccountsOf(q.email)
                                      THEN [account[u] EXCEPT !.isActive = FALSE] ELSE account[u]]
    /\ IF named = {} THEN UNCHANGED company
       ELSE \E k \in named : company' = [company EXCEPT ![k].status = "SUSPENDED"]
    /\ Decided(call[c].req, "REJECTED")
    /\ End(c)
    /\ UNCHANGED <<touched, removed, overwritten>>

\* One write, whatever the status is now.
requestMoreInfo(c) ==
    LET r == call[c].req IN
    /\ call[c].step = "review" /\ call[c].kind = "requestMoreInfo"
    /\ overwritten' = IF requests[r].status = "APPROVED" THEN overwritten \cup {r} ELSE overwritten
    /\ Decided(r, "NEEDS_MORE_INFO")
    /\ End(c)
    /\ UNCHANGED <<company, account, touched, removed>>

-----------------------------------------------------------------------------
(* agent-registration.service.ts *)

\* Mutant: an unknown company is not refused.
registerAgent_AnyName(c, email, name) ==
    Begin(c, "registerAgent",
          AccountsOf(email) = {} /\ LatestStatus("agent", email) \subseteq {"REJECTED"},
          [NewCall EXCEPT !.step = "create_agent_request", !.email = email,
             !.companyId = IF Named(name) = {} THEN None ELSE CHOOSE k \in Named(name) : TRUE])

\* assertEmailCanRequest, findCompanyByNameOrThrow: a company in any status.
registerAgent(c, email, name) ==
    Begin(c, "registerAgent",
          /\ AccountsOf(email) = {} /\ Named(name) # {}
          /\ LatestStatus("agent", email) \subseteq {"REJECTED"},
          [NewCall EXCEPT !.step = "create_agent_request", !.email = email,
             !.companyId = IF Named(name) = {} THEN None ELSE CHOOSE k \in Named(name) : TRUE])

\* Mutant: the email of a user is not unique.
createAgentRequest_NotUnique(c) ==
    LET q == call[c] IN
    /\ q.step = "create_agent_request"
    /\ \E u \in {v \in Accounts : account[v] = NoAccount} :
         /\ account' = [account EXCEPT
                          ![u] = Account(q.email, "AGENT", FALSE, "PENDING", q.companyId)]
         /\ requests' = Append(requests, AgentRequest(q.email, q.companyId, u))
    /\ End(c)
    /\ UNCHANGED <<company, touched, removed, overwritten>>

createAgentRequest(c) ==
    LET q == call[c] IN
    /\ q.step = "create_agent_request"
    /\ \E u \in {v \in Accounts : account[v] = NoAccount} :
         IF AccountsOf(q.email) # {} THEN Refused(c)
         ELSE /\ account' = [account EXCEPT
                               ![u] = Account(q.email, "AGENT", FALSE, "PENDING", q.companyId)]
              /\ requests' = Append(requests, AgentRequest(q.email, q.companyId, u))
              /\ End(c)
              /\ UNCHANGED <<company, touched, removed, overwritten>>

\* The user that the request named when it was read, or the one with the address.
Reviewed(c) ==
    LET q == requests[call[c].req] IN
    IF call[c].userId # None THEN {u \in {call[c].userId} : Exists(u)} ELSE AccountsOf(q.email)

\* The transaction of approveRequest.  An administrator's account is refused, and so is an
\* approved one that is not the request's own.
approveAgent(c) ==
    LET r == call[c].req
        q == requests[r]
        users == Reviewed(c)
    IN
    /\ call[c].step = "review" /\ call[c].kind = "approveAgent"
    /\ \E u \in (IF users # {} THEN users ELSE {v \in Accounts : account[v] = NoAccount}) :
         IF \/ users # {} /\ account[u].role = "COMPANY_ADMIN"
            \/ /\ users # {} /\ account[u].isActive /\ account[u].approvalStatus = "APPROVED"
               /\ call[c].userId # u
            \/ ~(AccountsOf(q.email) \subseteq {u})
         THEN Refused(c)
         ELSE /\ account' = [account EXCEPT
                               ![u] = Account(q.email, "AGENT", TRUE, "APPROVED", q.companyId)]
              /\ requests' = [requests EXCEPT ![r].status = "APPROVED", ![r].userId = u]
              /\ End(c)
              /\ UNCHANGED <<company, touched, removed, overwritten>>

\* The transaction of rejectRequest, which throws when the user it has read is gone.
rejectAgent(c) ==
    LET q == requests[call[c].req]
        users == IF call[c].userId # None THEN Reviewed(c)
                 ELSE {u \in AccountsOf(q.email) : account[u].role = "AGENT"}
    IN
    /\ call[c].step = "review" /\ call[c].kind = "rejectAgent"
    /\ IF call[c].userId # None /\ users = {} THEN Refused(c)
       ELSE /\ account' = [u \in Accounts |->
                             IF u \in users
                             THEN [account[u] EXCEPT !.isActive = FALSE, !.approvalStatus = "REJECTED"]
                             ELSE account[u]]
            /\ Decided(call[c].req, "REJECTED")
            /\ End(c)
            /\ UNCHANGED <<company, touched, removed, overwritten>>

-----------------------------------------------------------------------------
(* admin.service.ts and companies.service.ts *)

\* setCompanyActivation: the company, then its administrators.
setCompanyActivation(c, k, on) ==
    /\ call[c].step = "idle" /\ "setCompanyActivation" \in Kinds
    /\ company[k] # NoCompany
    /\ company' = [company EXCEPT ![k].status = IF on THEN "ACTIVE" ELSE "SUSPENDED"]
    /\ call' = [call EXCEPT ![c] = [NewCall EXCEPT !.kind = "setCompanyActivation",
                  !.step = IF on THEN "activate_admins" ELSE "done",
                  !.companyId = IF on THEN k ELSE None, !.ended = Ended]]
    /\ UNCHANGED <<account, requests, touched, removed, overwritten>>

\* All of them, the ones whose registration was refused included.
activateCompanyAdmins(c) ==
    LET admins == {u \in Accounts : /\ account[u].companyId = call[c].companyId
                                    /\ account[u].role = "COMPANY_ADMIN"}
    IN
    /\ call[c].step = "activate_admins"
    /\ account' = [u \in Accounts |->
                     IF u \in admins
                     THEN [account[u] EXCEPT !.isActive = TRUE, !.approvalStatus = "APPROVED"]
                     ELSE account[u]]
    /\ touched' = touched \cup admins
    /\ End(c)
    /\ UNCHANGED <<company, requests, removed, overwritten>>

\* PATCH /companies/:id of a platform administrator.
setCompanyStatus(c, k, status) ==
    /\ AtOnce(c, "setCompanyStatus")
    /\ company[k] # NoCompany
    /\ company' = [company EXCEPT ![k].status = status]
    /\ UNCHANGED <<account, requests, touched, removed, overwritten>>

\* The latest pending request of an agent's own.
PendingOf(u) ==
    LET own == {r \in DOMAIN requests : /\ requests[r].kind = "agent" /\ requests[r].userId = u
                                        /\ requests[r].companyId = account[u].companyId
                                        /\ requests[r].status = "PENDING"}
    IN {r \in own : \A p \in own : p <= r}

\* updateUser of the repository: activating an agent approves his pending request too.
setUserActivation(c, u, on) ==
    /\ AtOnce(c, "setUserActivation")
    /\ Exists(u)
    /\ account' = [account EXCEPT ![u].isActive = on,
                                  ![u].approvalStatus = IF on THEN "APPROVED" ELSE @]
    /\ requests' = [r \in DOMAIN requests |->
                      IF on /\ account[u].role = "AGENT" /\ r \in PendingOf(u)
                      THEN [requests[r] EXCEPT !.status = "APPROVED"] ELSE requests[r]]
    /\ touched' = touched \cup {u}
    /\ UNCHANGED <<company, removed, overwritten>>

\* A user of a company, active at once.
createUser(c, u, email, role, k) ==
    /\ AtOnce(c, "createUser")
    /\ AccountsOf(email) = {} /\ company[k] # NoCompany /\ account[u] = NoAccount
    /\ account' = [account EXCEPT ![u] = Account(email, role, TRUE, "APPROVED", k)]
    /\ touched' = touched \cup {u}
    /\ UNCHANGED <<company, requests, removed, overwritten>>

\* The requests lose their user and stay.
removeUser(c, u) ==
    /\ AtOnce(c, "removeUser")
    /\ Exists(u)
    /\ account' = [account EXCEPT ![u] = Deleted]
    /\ requests' = [r \in DOMAIN requests |->
                      IF requests[r].userId = u THEN [requests[r] EXCEPT !.userId = None]
                      ELSE requests[r]]
    /\ removed' = removed \cup {account[u].email}
    /\ UNCHANGED <<company, touched, overwritten>>

-----------------------------------------------------------------------------

\* A call fails between its reads and its transaction, or the server stops there.
Throw(c) == call[c].step \notin {"idle", "done"} /\ Refused(c)

Enter(c) ==
    \/ \E email \in Emails, name \in Names : registerCompany(c, email, name) \/ registerAgent(c, email, name)
    \/ \E r \in DOMAIN requests :
          \/ /\ requests[r].kind = "company"
             /\ \/ \E status \in {"ACTIVE", "TRIAL"} :
                     BeginReview(c, "approveCompany", r, {"PENDING", "NEEDS_MORE_INFO"}, status)
                \/ BeginReview(c, "rejectCompany", r, RequestStatuses \ {"APPROVED"}, None)
                \/ BeginReview(c, "requestMoreInfo", r, RequestStatuses \ {"APPROVED"}, None)
          \/ /\ requests[r].kind = "agent"
             /\ \/ BeginReview(c, "approveAgent", r, {"PENDING"}, None)
                \/ BeginReview(c, "rejectAgent", r, RequestStatuses \ {"APPROVED"}, None)
    \/ \E k \in Companies : \/ \E on \in BOOLEAN : setCompanyActivation(c, k, on)
                            \/ \E status \in CompanyStatuses : setCompanyStatus(c, k, status)
    \/ \E u \in Accounts : \/ \E on \in BOOLEAN : setUserActivation(c, u, on)
                           \/ \E email \in Emails, role \in {"COMPANY_ADMIN", "AGENT"}, k \in Companies :
                                createUser(c, u, email, role, k)
                           \/ removeUser(c, u)

Write(c) ==
    \/ createCompanyRequest(c) \/ approveCompany(c) \/ rejectCompany(c) \/ requestMoreInfo(c)
    \/ createAgentRequest(c) \/ approveAgent(c) \/ rejectAgent(c) \/ activateCompanyAdmins(c)

Rest == (\A c \in Calls : call[c].step = "done") /\ UNCHANGED vars

Next == Rest \/ \E c \in Calls : Enter(c) \/ Write(c) \/ Throw(c)

Spec == Init /\ [][Next]_vars

-----------------------------------------------------------------------------
(* Access *)

\* Mutant: a company that is not suspended is enough.
assertUserCanLogin_NotSuspended(u) ==
    /\ Exists(u)
    /\ account[u].approvalStatus = "APPROVED" /\ account[u].isActive
    /\ company[account[u].companyId].status # "SUSPENDED"

\* auth.service.ts, for login and for a refreshed token.
assertUserCanLogin(u) ==
    /\ Exists(u)
    /\ account[u].approvalStatus = "APPROVED" /\ account[u].isActive
    /\ company[account[u].companyId].status # "SUSPENDED" /\ isActive(account[u].companyId)

\* jwt.strategy.ts, on every request of a session.
validate(u) ==
    /\ Exists(u) /\ account[u].isActive
    /\ company[account[u].companyId].status = "ACTIVE"

-----------------------------------------------------------------------------
(* Properties *)

\* Whatever the order of overlapping decisions, a registration and the account of its
\* address agree: the account is active exactly when the registration is approved, unless
\* an administrator wrote the account, the address lost an account, or a question for
\* more information has replaced the approval.
AccountFollowsRequest ==
    \A r \in DOMAIN requests, u \in Accounts :
        LET q == requests[r] IN
        /\ account[u].email = q.email
        /\ u \notin touched /\ q.email \notin removed /\ r \notin overwritten
        => (account[u].isActive <=> q.status = "APPROVED")

\* Until its account is deleted (or, what the module leaves out, given another email or
\* removed with its company), an address registers once, as a company or as an agent: each
\* service looks at its own requests, before its transaction, and only the user's unique
\* email keeps two overlapping registrations apart.  So the branch of assertEmailIsAvailable
\* that admits an address after a refusal is never taken.
OneRegistrationPerAddress ==
    \A r, s \in DOMAIN requests :
        requests[r].email = requests[s].email /\ requests[r].email \notin removed => r = s

\* Login and the session agree on every account, so that a session ends when access is
\* withdrawn and a login is of use: except in a company on trial, which may log in and
\* whose sessions are refused, and for an address that lost an account, whose next one
\* may be approved and keep its approvalStatus PENDING.
SessionFollowsLogin ==
    \A u \in Accounts : account[u].email \notin removed =>
        (assertUserCanLogin(u) <=> \/ validate(u)
                                   \/ /\ Exists(u) /\ account[u].isActive
                                      /\ company[account[u].companyId].status = "TRIAL")

\* A company in use is taken out of use only by an administrator who suspends it or sets
\* its status, by the refusal of a registration with its name or its email, or by a
\* registration that began before the company was last put in use.
InUseUntilWithdrawn ==
    [][\A k \in Companies : isActive(k) /\ ~isActive(k)' =>
         \E c \in Calls :
            /\ call[c].step # "done" /\ call'[c].step = "done"
            /\ \/ call'[c].kind \in {"setCompanyActivation", "setCompanyStatus"}
               \/ /\ call[c].kind = "rejectCompany"
                  /\ \/ requests[call[c].req].name = company[k].name
                     \/ requests[call[c].req].email = company[k].email
               \/ /\ call[c].kind = "registerCompany"
                  /\ \E d \in Calls \ call[c].ended :
                        /\ d # c
                        /\ call[d].kind \in {"approveCompany", "setCompanyActivation", "setCompanyStatus"}]_vars
=============================================================================
