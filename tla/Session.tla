------------------------------- MODULE Session -------------------------------
(***************************************************************************)
(* One tab of the browser: who it shows as signed in (store/account.ts),   *)
(* the token and the plans it keeps in localStorage (api/client.ts,        *)
(* store/plans.ts), the pages that start requests, and what of the server  *)
(* they meet: accounts, tokens, and the plans an account owns.             *)
(*                                                                         *)
(* A request is handled by the server at some time after it was sent, and  *)
(* answered at some time after that. It fails at any time: the network     *)
(* loses it or its answer, or the server refuses it, which changes nothing *)
(* there and is for the browser the same. One that a reload abandons was   *)
(* handled before it or never is. Other tabs and devices show only in what *)
(* expires.                                                                *)
(***************************************************************************)
EXTENDS Integers, Sequences, FiniteSets, SequencesExt

CONSTANTS
  Account,    \* emails
  MaxPlans,   \* MAX_PLANS
  MaxTokens,  \* bound: tokens ever issued
  MaxMade,    \* bound: plans ever made
  MaxFlights, \* bound: requests in flight at once
  None

Kind == {"restore", "sign", "patch", "delete", "plan"}

ASSUME SessionAssumption ==
  /\ MaxPlans \in Nat \ {0}
  /\ MaxTokens \in Nat /\ MaxMade \in Nat /\ MaxFlights \in Nat
  /\ None \notin Account \cup Nat

VARIABLES
  accounts,  \* the users there are
  owner,     \* of each token issued: the email in it
  expired,   \* the tokens past their expiry
  onServer,  \* the plans accounts own, as pairs
  made,      \* how many plans were ever made; they are numbered
  token,     \* localStorage "navigiq.token"
  stored,    \* localStorage "navigiq.plans", newest first
  page,      \* account.ts state: [who, ready]; who is None when not signedIn
  plans,     \* plans.ts state
  flow,      \* of each kind: the request in flight
  kept,      \* history: the plans saved here and not deleted since
  full,      \* history: localStorage once refused to store a list
  gone       \* history: the accounts ever deleted

server == <<accounts, owner, expired, onServer, made, gone>>
shelf == <<stored, plans, kept, full>>
vars == <<server, token, shelf, page, flow>>

Tokens == DOMAIN owner

\* Who get_current_active_user finds behind a token; for None it refuses with
\* 403 or 404, and 401 only answers a request without a token.
Bearer(t) ==
  IF t # None /\ t \notin expired /\ owner[t] \in accounts
  THEN owner[t] ELSE None

SignedOut == [who |-> None, ready |-> TRUE]
SignedInAs(a) == [who |-> a, ready |-> TRUE]

Request(at, who, shown) ==
  [at |-> at, who |-> who, shown |-> shown, tok |-> token, out |-> None]

Init ==
  /\ accounts \in SUBSET Account
  /\ owner = <<>> /\ expired = {} /\ onServer = {} /\ made = 0
  /\ token = None /\ page = SignedOut
  /\ stored = <<>> /\ plans = <<>> /\ kept = <<>> /\ full = FALSE
  /\ flow = [k \in Kind |-> None]
  /\ gone = {}

-----------------------------------------------------------------------------
(* The server.                                                             *)

Arrived(k, at) == flow[k] # None /\ flow[k].at = at /\ flow[k].out = None
Out(k, x) == flow' = [flow EXCEPT ![k].out = x]
Browser == <<token, shelf, page>>

\* GET and PATCH /auth/users/me.
HandleMe(k) ==
  /\ Arrived(k, "me")
  /\ Bearer(flow[k].tok) # None /\ Out(k, Bearer(flow[k].tok))
  /\ UNCHANGED <<server, Browser>>

\* POST /auth/users.
HandleRegister ==
  /\ Arrived("sign", "register") /\ flow["sign"].who \notin accounts
  /\ accounts' = accounts \cup {flow["sign"].who}
  /\ Out("sign", flow["sign"].who)
  /\ UNCHANGED <<owner, expired, onServer, made, gone, Browser>>

\* POST /auth/login/access-token with the password.
HandleLogin ==
  /\ Arrived("sign", "login") /\ flow["sign"].who \in accounts
  /\ Len(owner) < MaxTokens
  /\ owner' = Append(owner, flow["sign"].who)
  /\ Out("sign", Len(owner'))
  /\ UNCHANGED <<accounts, expired, onServer, made, gone, Browser>>

\* DELETE /auth/users/me with the password.
HandleDelete ==
  /\ Arrived("delete", "delete")
  /\ LET a == Bearer(flow["delete"].tok) IN
     /\ a # None
     /\ accounts' = accounts \ {a}
     /\ onServer' = {x \in onServer : x[1] # a}
     /\ gone' = gone \cup {a}
     /\ Out("delete", a)
  /\ UNCHANGED <<owner, expired, made, Browser>>

\* POST /plan: a bad token is ignored, the plan is then nobody's.
HandlePlan ==
  /\ Arrived("plan", "plan")
  /\ made < MaxMade
  /\ made' = made + 1
  /\ LET a == Bearer(flow["plan"].tok)
     IN onServer' = IF a = None THEN onServer ELSE onServer \cup {<<a, made'>>}
  /\ Out("plan", made')
  /\ UNCHANGED <<accounts, owner, expired, gone, Browser>>

Expire ==
  /\ \E t \in Tokens \ expired : expired' = expired \cup {t}
  /\ UNCHANGED <<accounts, owner, onServer, made, gone, Browser, flow>>

-----------------------------------------------------------------------------
(* The lists of plans (store/plans.ts).                                    *)

\* Mutant: the list is stored before the new one is made.
MutSetPlansLate(next) ==
  /\ plans' = next
  /\ stored' = plans
  /\ UNCHANGED full

\* set: a list that localStorage refuses is kept in memory only.
SetPlans(next) ==
  /\ plans' = next
  /\ \/ stored' = next /\ UNCHANGED full
     \/ full' = TRUE /\ UNCHANGED stored

Newest(s) == SubSeq(s, 1, IF Len(s) < MaxPlans THEN Len(s) ELSE MaxPlans)

\* The list filtered up to its n-th plan.
Without(s, x) ==
  LET left[n \in 0..Len(s)] ==
        IF n = 0 THEN <<>>
        ELSE IF s[n] = x THEN left[n - 1] ELSE Append(left[n - 1], s[n])
  IN  left[Len(s)]

\* savePlan.
SavePlan(x) ==
  /\ SetPlans(Newest(<<x>> \o Without(plans, x)))
  /\ kept' = Newest(<<x>> \o kept)

\* deletePlan.
DeletePlan(x) ==
  /\ SetPlans(Without(plans, x))
  /\ kept' = Without(kept, x)
  /\ UNCHANGED <<server, token, page, flow>>

\* clearPlans.
ClearPlans == SetPlans(<<>>) /\ kept' = <<>>

-----------------------------------------------------------------------------
(* The pages start a request.                                              *)

MayBegin(k) ==
  /\ flow[k] = None
  /\ Cardinality({j \in Kind : flow[j] # None}) < MaxFlights

Begin(k, r) ==
  /\ MayBegin(k)
  /\ flow' = [flow EXCEPT ![k] = r]
  /\ UNCHANGED <<server, Browser>>

SignIn(a) == Begin("sign", Request("login", a, FALSE))

\* OnboardingPage signs up only when nobody is shown as signed in.
SignUp(a) == page.who = None /\ Begin("sign", Request("register", a, FALSE))

\* ProfilePage has its forms and buttons only for somebody signed in.
SaveProfile == page.who # None /\ Begin("patch", Request("me", None, FALSE))
DeleteAccount == page.who # None /\ Begin("delete", Request("delete", None, FALSE))

\* signOut; what is in flight goes on.
SignOut ==
  /\ page.who # None
  /\ token' = None /\ page' = SignedOut
  /\ UNCHANGED <<server, shelf, flow>>

\* PlanPage: whether somebody is signed in is what the page showed.
Plan == Begin("plan", Request("plan", None, page.who # None))

\* A reload: memory is lost, localStorage is read, restoreSession asks whose
\* token it is.
Reload ==
  /\ page' = [who |-> None, ready |-> token = None]
  /\ plans' = stored
  /\ flow' = [k \in Kind |-> IF k = "restore" /\ token # None
                             THEN Request("me", None, FALSE) ELSE None]
  /\ UNCHANGED <<server, token, stored, kept, full>>

-----------------------------------------------------------------------------
(* The browser goes on when a request is answered, or fails.               *)

Answered(k) == flow[k] # None /\ flow[k].out # None
Ended(k) == flow' = [flow EXCEPT ![k] = None]

\* restoreSession and saveProfile show the profile they were answered.
ProfileAnswer(k) ==
  /\ k \in {"restore", "patch"} /\ Answered(k)
  /\ page' = SignedInAs(flow[k].out)
  /\ Ended(k)
  /\ UNCHANGED <<server, token, shelf>>

\* signUp goes on to log in.
RegisterAnswer ==
  /\ Answered("sign") /\ flow["sign"].at = "register"
  /\ flow' = [flow EXCEPT !["sign"] = Request("login", @.who, FALSE)]
  /\ UNCHANGED <<server, Browser>>

\* login stores the token, and getMe sends it.
LoginAnswer ==
  /\ Answered("sign") /\ flow["sign"].at = "login"
  /\ token' = flow["sign"].out
  /\ flow' = [flow EXCEPT !["sign"] =
                [Request("me", None, FALSE) EXCEPT !.tok = token']]
  /\ UNCHANGED <<server, shelf, page>>

MeAnswer ==
  /\ Answered("sign") /\ flow["sign"].at = "me"
  /\ page' = SignedInAs(flow["sign"].out)
  /\ Ended("sign")
  /\ UNCHANGED <<server, token, shelf>>

\* deleteAccount clears the plans and signs out.
DeleteAnswer ==
  /\ Answered("delete")
  /\ ClearPlans
  /\ token' = None /\ page' = SignedOut
  /\ Ended("delete")
  /\ UNCHANGED server

\* Mutant: whoever has a token has no need of a copy.
MutPlanAnswerByToken ==
  /\ Answered("plan")
  /\ IF token # None THEN UNCHANGED shelf ELSE SavePlan(flow["plan"].out)
  /\ Ended("plan")
  /\ UNCHANGED <<server, token, page>>

\* PlanPage keeps a copy of what was planned signed out.
PlanAnswer ==
  /\ Answered("plan")
  /\ IF flow["plan"].shown THEN UNCHANGED shelf ELSE SavePlan(flow["plan"].out)
  /\ Ended("plan")
  /\ UNCHANGED <<server, token, page>>

\* Refused or lost, before or after it was handled.
Fails(k) == flow[k] # None

\* Mutant: there is nobody to sign out yet, so only the token is dropped.
MutRestoreFailsQuietly ==
  /\ Fails("restore")
  /\ token' = None /\ page' = [page EXCEPT !.ready = TRUE]
  /\ Ended("restore")
  /\ UNCHANGED <<server, shelf>>

\* restoreSession signs out on any error, the network's too.
RestoreFails ==
  /\ Fails("restore")
  /\ token' = None /\ page' = SignedOut
  /\ Ended("restore")
  /\ UNCHANGED <<server, shelf>>

\* Every other page shows the error; what was done stays done.
RequestFails(k) ==
  /\ k # "restore" /\ Fails(k)
  /\ Ended(k)
  /\ UNCHANGED <<server, Browser>>

-----------------------------------------------------------------------------

Handle ==
  \/ \E k \in Kind : HandleMe(k)
  \/ HandleRegister \/ HandleLogin \/ HandleDelete \/ HandlePlan

User ==
  \/ \E a \in Account : SignIn(a) \/ SignUp(a)
  \/ SaveProfile \/ DeleteAccount \/ SignOut \/ Plan \/ Reload
  \/ \E i \in DOMAIN plans : DeletePlan(plans[i])

Continue ==
  \/ \E k \in Kind : ProfileAnswer(k) \/ RequestFails(k)
  \/ RegisterAnswer \/ LoginAnswer \/ MeAnswer \/ DeleteAnswer \/ PlanAnswer
  \/ RestoreFails

Next == Handle \/ User \/ Continue \/ Expire

Spec == Init /\ [][Next]_vars

-----------------------------------------------------------------------------

TypeOK ==
  /\ accounts \subseteq Account /\ gone \subseteq Account
  /\ owner \in Seq(Account) /\ Len(owner) <= MaxTokens
  /\ expired \subseteq Tokens
  /\ onServer \subseteq Account \X (1..made) /\ made \in 0..MaxMade
  /\ token \in Tokens \cup {None}
  /\ page \in [who : Account \cup {None}, ready : BOOLEAN]
  /\ \A s \in {stored, plans, kept} :
       s \in Seq(1..made) /\ Len(s) <= MaxPlans /\ Len(s) = Cardinality(ToSet(s))
  /\ full \in BOOLEAN
  /\ \A k \in Kind : flow[k] = None \/
       flow[k] \in [at : {"me", "register", "login", "delete", "plan"},
                    who : Account \cup {None}, shown : BOOLEAN,
                    tok : Tokens \cup {None},
                    out : {None} \cup Account \cup Nat]

Matches == page.who # None => token # None /\ owner[token] = page.who

\* The profile shown is that of the token kept. Only two things part them: an
\* answer to a request sent with a token that is no longer the one kept -
\* restoreSession and saveProfile do not look (account.ts:65, 98) - and a log-in
\* over somebody's session, until its own profile is there.
OnlyLateAnswersMislead ==
  [][Matches /\ ~ Matches'
       => \E k \in {"restore", "patch", "sign"} :
            /\ Answered(k) /\ flow'[k] # flow[k]
            /\ \/ flow[k].at = "me" /\ flow[k].tok # token
               \/ flow[k].at = "login" /\ page.who # None]_vars

\* Plans saved in this browser stay there, newest first, through reloads and
\* sign-ins, until they are deleted or twenty newer ones were made - as long as
\* localStorage never refused one (plans.ts:32).
PlansAreKept == ~ full => plans = kept /\ stored = kept

\* Well typed, at most twenty plans and none twice, and PlansAreKept.
Inv == TypeOK /\ PlansAreKept

\* A plan that was answered can be found again: in this browser or, had it been
\* asked for signed in, on the account - or the token sent had expired, or its
\* account been deleted, or it was cleared meanwhile: then it is kept nowhere, for a bad
\* token is not refused (deps.py:54) and the page goes on showing somebody.
Found(x) ==
  \/ \E i \in DOMAIN plans' : plans'[i] = x
  \/ \E a \in Account : <<a, x>> \in onServer
LostOnlyIfRejected ==
  [][PlanAnswer =>
       LET t == flow["plan"].tok IN
       \/ Found(flow["plan"].out)
       \/ flow["plan"].shown /\ (t = None \/ t \in expired \/ owner[t] \in gone)]_vars
=============================================================================
