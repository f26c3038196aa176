------------------------------- MODULE Accounts -------------------------------
(***************************************************************************)
(* Who owns what on the cloud server: the login of handlers.go and         *)
(* internal/auth, the list of installations that assigns them to teams,    *)
(* and the import of repositories.  A browser has one session cookie, in   *)
(* which the server keeps the user and the team; two browsers may log in   *)
(* to one account at a time, and every query is a step of its own.         *)
(***************************************************************************)
EXTENDS Naturals, FiniteSets

CONSTANTS
    People,      \* GitHub accounts
    Legacy,      \* those whose address an old row of users holds, without a github_id
    Browsers,
    Installs,    \* installations of the GitHub App
    LoginOf,     \* the account each is on, Nobody for an organization
    Repos,       \* names of repositories
    MaxTeams,    \* bound: rows of teams
    Nobody       \* no row

ASSUME AccountsAssumption ==
    /\ Legacy \subseteq People /\ MaxTeams \in Nat
    /\ Nobody \notin People \cup Installs \cup Nat
    /\ LoginOf \in [Installs -> People \cup {Nobody}]

VARIABLES
    teams,       \* rows of teams
    users,       \* users.team_id of each account
    owner,       \* github_installations.team_id
    repos,       \* repos.installation_id
    session,     \* the session cookie of each browser
    page,        \* the request of each browser and its local variables
    unread       \* history: installations assigned when the user's row was not read

tables == <<teams, users, owner, repos>>
accountVars == <<teams, users, owner, repos, session, page, unread>>

Teams == 1 .. MaxTeams
Rest  == [at |-> "rest", who |-> Nobody, team |-> Nobody, listed |-> {}, blind |-> FALSE]

AccountsTypeOK ==
    /\ teams \in 0 .. MaxTeams
    /\ users \in [People -> Teams \cup {Nobody}]
    /\ owner \in [Installs -> Teams \cup {Nobody}]
    /\ repos \in [Repos -> Installs \cup {Nobody}]
    /\ session \in [Browsers -> [who : People, team : Teams] \cup {Nobody}]
    /\ page \in [Browsers -> [at : {"rest", "github", "known", "creating", "saving", "listing"},
                              who : People \cup {Nobody}, team : Teams \cup {Nobody},
                              listed : SUBSET Installs, blind : BOOLEAN]]
    /\ unread \subseteq Installs
    \* a team is there before anything is of it
    /\ \A t \in {users[p] : p \in People} \cup {owner[i] : i \in Installs} :
          t = Nobody \/ t <= teams

AccountsInit ==
    /\ teams = 0 /\ unread = {}
    /\ users = [p \in People |-> Nobody] /\ owner = [i \in Installs |-> Nobody]
    /\ repos = [r \in Repos |-> Nobody]
    /\ session = [b \in Browsers |-> Nobody] /\ page = [b \in Browsers |-> Rest]
-----------------------------------------------------------------------------
(***************************************************************************)
(* The login                                                               *)
(***************************************************************************)
\* handleGitHubOAuthStart: the browser is sent to GitHub with a state cookie.
OAuthStart(b) ==
    /\ page[b].at = "rest"
    /\ page' = [page EXCEPT ![b].at = "github"]
    /\ UNCHANGED <<tables, session, unread>>

\* The callback: the state is verified, the code exchanged, the profile read.
OAuthCallback(b) ==
    /\ page[b].at = "github"
    /\ \E p \in People : page' = [page EXCEPT ![b].at = "known", ![b].who = p]
    /\ UNCHANGED <<tables, session, unread>>

\* A query, or GitHub, fails: the session there was stays.
RequestFails(b) ==
    /\ page[b].at # "rest"
    /\ page' = [page EXCEPT ![b] = Rest]
    /\ UNCHANGED <<tables, session, unread>>

LookUpUser(b) ==
    /\ page[b].at = "known"
    /\ LET team == users[page[b].who] IN
       page' = [page EXCEPT ![b].at = IF team = Nobody THEN "creating" ELSE "saving",
                            ![b].team = team]
    /\ UNCHANGED <<tables, session, unread>>

CreateTeam(b) ==
    /\ page[b].at = "creating" /\ teams < MaxTeams
    /\ teams' = teams + 1
    /\ page' = [page EXCEPT ![b].at = "saving", ![b].team = teams + 1]
    /\ UNCHANGED <<users, owner, repos, session, unread>>

\* Mistake: the team is among the columns that are refreshed.
RefreshedTeam(b) == page[b].team

\* ON CONFLICT(github_id): the team of a row that is there stays.
SavedTeam(b) == LET p == page[b].who IN IF users[p] = Nobody THEN page[b].team ELSE users[p]

\* Mistake: the session holds the team this request chose.
ChosenTeam(b, p) == page[b].team

\* The row is read again.
SessionTeam(b, p) == users'[p]

\* A row with no github_id is never linked: its address is taken.
UpsertUser(b) ==
    LET p == page[b].who IN
    /\ page[b].at = "saving" /\ p \notin Legacy
    /\ users' = [users EXCEPT ![p] = SavedTeam(b)]
    /\ session' = [session EXCEPT ![b] = [who |-> p, team |-> SessionTeam(b, p)]]
    /\ page' = [page EXCEPT ![b] = Rest]
    /\ UNCHANGED <<teams, owner, repos, unread>>

\* handleLogout, or the cookie expires.
Logout(b) ==
    /\ page[b].at = "rest" /\ session[b] # Nobody
    /\ session' = [session EXCEPT ![b] = Nobody]
    /\ UNCHANGED <<tables, page, unread>>
-----------------------------------------------------------------------------
(***************************************************************************)
(* Installations and repositories                                          *)
(***************************************************************************)
\* Mistake: an installation nobody owns yet is shown to everyone.
AnyFree(p, seen) == {i \in Installs : LoginOf[i] = p \/ owner[i] = Nobody \/ i \in seen}

\* What a user who could be read is shown.
Own(p, seen) == {i \in Installs : LoginOf[i] = p \/ i \in seen}

\* handleListAvailableGitHubRepos ignores the errors of both its reads: with no
\* user every installation passes, with no list only those of the login.
ReadInstallations(b) ==
    /\ page[b].at = "rest" /\ session[b] # Nobody
    /\ \E blind \in BOOLEAN, seen \in {{}, {i \in Installs : owner[i] = session[b].team}} :
          page' = [page EXCEPT ![b].at = "listing", ![b].blind = blind,
                      ![b].listed = IF blind THEN Installs
                                    ELSE Own(session[b].who, seen)]
    /\ UNCHANGED <<tables, session, unread>>

\* ON CONFLICT(installation_id): the first team keeps it.
KeptOwner(i, t) == IF owner[i] = Nobody THEN t ELSE owner[i]

\* One turn of the loop; the repositories of the installation are then read.
UpsertInstallation(b) ==
    /\ page[b].at = "listing"
    /\ \E i \in page[b].listed :
          /\ owner' = [owner EXCEPT ![i] = KeptOwner(i, session[b].team)]
          /\ unread' = IF page[b].blind /\ owner[i] = Nobody THEN unread \cup {i} ELSE unread
          /\ page' = [page EXCEPT ![b].listed = @ \ {i}]
    /\ UNCHANGED <<teams, users, repos, session>>

Listed(b) ==
    /\ page[b].at = "listing" /\ page[b].listed = {}
    /\ page' = [page EXCEPT ![b] = Rest]
    /\ UNCHANGED <<tables, session, unread>>

\* handleUpsertRepo; a repository that was imported moves to the installation.
UpsertRepo(b) ==
    /\ page[b].at = "rest" /\ session[b] # Nobody
    /\ \E r \in Repos, i \in Installs :
          /\ owner[i] = session[b].team
          /\ repos' = [repos EXCEPT ![r] = i]
    /\ UNCHANGED <<teams, users, owner, session, page, unread>>

AccountsNext ==
    \E b \in Browsers :
        \/ OAuthStart(b) \/ OAuthCallback(b) \/ RequestFails(b) \/ LookUpUser(b)
        \/ CreateTeam(b) \/ UpsertUser(b) \/ Logout(b)
        \/ ReadInstallations(b) \/ UpsertInstallation(b) \/ Listed(b) \/ UpsertRepo(b)

AccountsSpec == AccountsInit /\ [][AccountsNext]_accountVars
-----------------------------------------------------------------------------
(***************************************************************************)
(* Properties                                                              *)
(***************************************************************************)
\* A session acts for the team of its user, though the team is copied into the
\* cookie for thirty days and two first logins may each create a team.
SessionsAgree ==
    \A b \in Browsers : session[b] # Nobody => users[session[b].who] = session[b].team

\* An installation is of the team of the account it is on, whichever requests
\* list it at the same time, unless the row of a user was not read.
InstallationsPlaced ==
    \A i \in Installs \ unread : owner[i] # Nobody =>
        LoginOf[i] # Nobody /\ owner[i] = users[LoginOf[i]]

\* No step takes a user or an installation from one team to another: what a
\* team has imported, its jobs and its keys stay within its reach.
TeamsKept ==
    [][/\ \A p \in People : users[p] # Nobody => users'[p] = users[p]
       /\ \A i \in Installs : owner[i] # Nobody => owner'[i] = owner[i]]_accountVars

\* All of what a state of these tables and cookies may be.
AccountsInv == AccountsTypeOK /\ SessionsAgree /\ InstallationsPlaced
=============================================================================
