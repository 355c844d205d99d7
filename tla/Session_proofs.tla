--------------------------- MODULE Session_proofs ---------------------------
(***************************************************************************)
(* Proofs about the session, for any number of accounts, tokens, plans and *)
(* requests in flight: whose profile is shown, what the lists of plans     *)
(* hold, and what becomes of a plan that was asked for.                    *)
(***************************************************************************)
EXTENDS Session, SequenceTheorems, FiniteSetTheorems, WellFoundedInduction, TLAPS

\* Where a request of a kind may be on its way to.
PlacesOf(k) ==
  CASE k \in {"restore", "patch"} -> {"me"}
    [] k = "sign" -> {"register", "login", "me"}
    [] k = "delete" -> {"delete"}
    [] OTHER -> {"plan"}

\* A request carries a token that was issued, or none; a profile it is answered
\* with is that of the token's account. own is owner, of now or of the next
\* state.
RequestOK(k, r, own) ==
  /\ r.at \in PlacesOf(k)
  /\ r.at \in {"register", "login"} => r.who \in Account
  /\ r.tok \in DOMAIN own \cup {None}
  /\ r.out \notin {None} =>
       /\ r.at = "me" => r.tok # None /\ r.out = own[r.tok]
       /\ r.at = "login" => r.out \in DOMAIN own

IInv ==
  /\ accounts \subseteq Account
  /\ owner \in Seq(Account)
  /\ token \in Tokens \cup {None}
  /\ page \in [who : Account \cup {None}, ready : BOOLEAN]
  /\ flow = [k \in Kind |-> flow[k]]
  /\ \A k \in Kind : flow[k] # None => RequestOK(k, flow[k], owner)

\* The tokens there are keep their accounts while others are issued.
Issues == owner' = owner \/ \E a \in Account : owner' = Append(owner, a)

\* A token keeps its account when another is issued.
LEMMA IssuedStays ==
  ASSUME owner \in Seq(Account), Issues
  PROVE  /\ owner' \in Seq(Account) /\ Tokens \subseteq Tokens'
         /\ \A t \in Tokens : owner'[t] = owner[t]
  <1>1. CASE owner' = owner
    BY <1>1 DEF Tokens
  <1>2. ASSUME NEW a \in Account, owner' = Append(owner, a)
        PROVE  /\ owner' \in Seq(Account) /\ Tokens \subseteq Tokens'
               /\ \A t \in Tokens : owner'[t] = owner[t]
    BY <1>2 DEF Tokens
  <1>3. QED
    BY <1>1, <1>2 DEF Issues

\* A token is a number, so it is not None.
LEMMA TokenIsNotNone == ASSUME owner \in Seq(Account) PROVE None \notin Tokens
  BY SessionAssumption DEF Tokens

\* A request stays good while tokens are issued.
LEMMA RequestStays ==
  ASSUME IInv, Issues, NEW k \in Kind, NEW r, RequestOK(k, r, owner)
  PROVE  RequestOK(k, r, owner')
  <1>1. Tokens \subseteq Tokens' /\ \A t \in Tokens : owner'[t] = owner[t]
    BY IssuedStays DEF IInv
  <1>2. QED
    BY <1>1 DEF RequestOK, Tokens

\* One request changes, is answered or ends.
LEMMA FlowStays ==
  ASSUME IInv, Issues, NEW k \in Kind, NEW r, flow' = [flow EXCEPT ![k] = r],
         r # None => RequestOK(k, r, owner')
  PROVE  /\ flow' = [j \in Kind |-> flow'[j]]
         /\ \A j \in Kind : flow'[j] # None => RequestOK(j, flow'[j], owner')
  <1>1. flow'[k] = r /\ \A j \in Kind : j # k => flow'[j] = flow[j]
    BY DEF IInv
  <1>2. ASSUME NEW j \in Kind, flow'[j] # None PROVE RequestOK(j, flow'[j], owner')
    BY <1>1, <1>2, RequestStays DEF IInv
  <1>3. flow' = [j \in Kind |-> flow'[j]]
    BY DEF IInv
  <1>4. QED
    BY <1>2, <1>3

\* The server answers request k with x.
LEMMA AnswerStays ==
  ASSUME IInv, Issues, NEW k \in Kind, flow[k] # None, NEW x, Out(k, x),
         UNCHANGED <<token, page>>, accounts' \subseteq Account,
         x \notin {None} =>
           /\ flow[k].at = "me" => flow[k].tok # None /\ x = owner'[flow[k].tok]
           /\ flow[k].at = "login" => x \in Tokens'
  PROVE  IInv'
  <1> DEFINE old == flow[k]
             r == [old EXCEPT !.out = x]
  <1>1. RequestOK(k, old, owner')
    BY RequestStays DEF IInv
  <1>2. flow' = [flow EXCEPT ![k] = r]
    BY DEF Out
  <1>3. RequestOK(k, r, owner')
    <2>1. r.at = old.at /\ r.who = old.who /\ r.tok = old.tok
      OBVIOUS
    <2>2. r.out \in {x, old.out}
      OBVIOUS
    <2>3. QED
      BY <1>1, <2>1, <2>2 DEF RequestOK, Tokens
  <1>4. QED
    BY <1>2, <1>3, FlowStays, IssuedStays DEF IInv

\* The request of getMe carries the token of the answer, not the one kept.
LEMMA RequestWithToken ==
  ASSUME NEW t
  PROVE  LET r == [Request("me", None, FALSE) EXCEPT !.tok = t]
         IN r.at = "me" /\ r.who = None /\ r.tok = t /\ r.out = None
  <1> DEFINE q == Request("me", None, FALSE)
             r == [q EXCEPT !.tok = t]
  <1>1. q = [at |-> "me", who |-> None, shown |-> FALSE, tok |-> token, out |-> None]
    BY DEF Request
  <1> HIDE DEF q
  <1>2. r.at = q.at /\ r.who = q.who /\ r.out = q.out
    OBVIOUS
  <1>3. "tok" \in DOMAIN q
    BY <1>1
  <1>4. r.tok = t
    BY <1>3
  <1>5. q.at = "me" /\ q.who = None /\ q.out = None
    BY <1>1
  <1>6. r.at = "me" /\ r.who = None /\ r.tok = t /\ r.out = None
    BY <1>2, <1>4, <1>5
  <1>7. QED
    BY <1>6 DEF q

\* A request begins with the token kept.
LEMMA BeginStays ==
  ASSUME IInv, NEW k \in Kind, NEW at \in PlacesOf(k), NEW who, NEW shown,
         at \in {"register", "login"} => who \in Account,
         flow' = [flow EXCEPT ![k] = Request(at, who, shown)],
         UNCHANGED <<server, token, page>>
  PROVE  IInv'
  <1>1. RequestOK(k, Request(at, who, shown), owner')
    BY DEF RequestOK, Request, IInv, server, Tokens
  <1>2. QED
    BY <1>1, FlowStays DEF IInv, Issues, server, Tokens

\* A request ends, and may change who is signed in.
LEMMA EndStays ==
  ASSUME IInv, NEW k \in Kind, Ended(k), UNCHANGED server,
         token' \in Tokens \cup {None},
         page' \in [who : Account \cup {None}, ready : BOOLEAN]
  PROVE  IInv'
  BY FlowStays DEF IInv, Ended, Issues, server, Tokens

\* The profile a request was answered with is its token's.
LEMMA ProfileIsOfToken ==
  ASSUME IInv, NEW k \in Kind, Answered(k), flow[k].at = "me"
  PROVE  /\ flow[k].tok \in Tokens /\ flow[k].out = owner[flow[k].tok]
         /\ flow[k].out \in Account
  <1>1. flow[k].tok \in Tokens /\ flow[k].out = owner[flow[k].tok]
    BY DEF IInv, Answered, RequestOK, Tokens
  <1>2. QED
    BY <1>1 DEF IInv, Tokens

-----------------------------------------------------------------------------

\* No request is in flight at first.
LEMMA InitHolds == Init => IInv
  BY DEF Init, IInv, SignedOut, Tokens

\* The server answers with the account of the token it was sent.
LEMMA HandleKeeps == IInv /\ (Handle \/ Expire) => IInv'
  <1> SUFFICES ASSUME IInv, Handle \/ Expire PROVE IInv'
    OBVIOUS
  <1>a. owner \in Seq(Account) /\ None \notin Account
    BY SessionAssumption DEF IInv
  <1>1. ASSUME NEW k \in Kind, HandleMe(k) PROVE IInv'
    <2>1. /\ flow[k] # None /\ UNCHANGED <<server, Browser>>
          /\ Bearer(flow[k].tok) # None /\ Out(k, Bearer(flow[k].tok))
      BY <1>1 DEF HandleMe, Arrived
    <2>2. UNCHANGED <<token, page, accounts, owner>> /\ Issues
      BY <2>1 DEF server, Browser, Issues
    <2>3. Bearer(flow[k].tok) # None =>
            flow[k].tok # None /\ Bearer(flow[k].tok) = owner[flow[k].tok]
      BY DEF Bearer
    <2>4. flow[k].at # "login"
      BY <1>1 DEF HandleMe, Arrived
    <2>5. QED
      BY <2>1, <2>2, <2>3, <2>4, AnswerStays DEF IInv
  <1>2. CASE HandleRegister
    <2> DEFINE a == flow["sign"].who
    <2>1. /\ flow["sign"] # None /\ flow["sign"].at = "register"
          /\ \E x : Out("sign", x)
          /\ accounts' = accounts \cup {a} /\ UNCHANGED <<token, page, owner>>
      BY <1>2 DEF HandleRegister, Arrived, Browser
    <2>2. PICK x : Out("sign", x)
      BY <2>1
    <2>3. a \in Account /\ "sign" \in Kind
      BY <2>1 DEF IInv, RequestOK, Kind
    <2>4. Issues
      BY <2>1 DEF Issues
    <2>5. QED
      BY <2>1, <2>2, <2>3, <2>4, AnswerStays DEF IInv
  <1>3. CASE HandleLogin
    <2> DEFINE a == flow["sign"].who
    <2>1. /\ flow["sign"] # None /\ flow["sign"].at = "login"
          /\ UNCHANGED <<token, page, accounts>> /\ "sign" \in Kind
      BY <1>3 DEF HandleLogin, Arrived, Browser, Kind
    <2>2. a \in Account
      BY <2>1 DEF IInv, RequestOK
    <2>3. owner' = Append(owner, a) /\ Out("sign", Len(owner'))
      BY <1>3 DEF HandleLogin
    <2>4. Issues
      BY <2>2, <2>3 DEF Issues
    <2>5. Len(owner') \in Tokens'
      BY <1>a, <2>2, <2>3 DEF Tokens
    <2>6. QED
      BY <2>1, <2>3, <2>4, <2>5, AnswerStays DEF IInv
  <1>4. CASE HandleDelete
    <2>1. /\ flow["delete"] # None /\ flow["delete"].at = "delete" /\ "delete" \in Kind
          /\ UNCHANGED <<token, page, owner>> /\ accounts' \subseteq accounts
          /\ \E x : Out("delete", x)
      BY <1>4 DEF HandleDelete, Arrived, Browser, Kind
    <2>2. QED
      BY <2>1, AnswerStays DEF IInv, Issues
  <1>5. CASE HandlePlan
    <2>1. /\ flow["plan"] # None /\ flow["plan"].at = "plan" /\ "plan" \in Kind
          /\ UNCHANGED <<token, page, owner, accounts>>
          /\ \E x : Out("plan", x)
      BY <1>5 DEF HandlePlan, Arrived, Browser, Kind
    <2>2. QED
      BY <2>1, AnswerStays DEF IInv, Issues
  <1>6. CASE Expire
    BY <1>6 DEF Expire, IInv, Browser, Tokens
  <1>7. QED
    BY <1>1, <1>2, <1>3, <1>4, <1>5, <1>6 DEF Handle

\* The pages send the token they keep.
LEMMA UserKeeps == IInv /\ User => IInv'
  <1> SUFFICES ASSUME IInv, User PROVE IInv'
    OBVIOUS
  <1>1. ASSUME NEW a \in Account, SignIn(a) \/ SignUp(a) PROVE IInv'
    <2>1. "sign" \in Kind /\ {"login", "register"} \subseteq PlacesOf("sign")
      BY DEF Kind, PlacesOf
    <2>2. UNCHANGED <<server, token, page>>
      BY <1>1 DEF SignIn, SignUp, Begin, Browser
    <2>3. PICK at \in {"login", "register"} :
            flow' = [flow EXCEPT !["sign"] = Request(at, a, FALSE)]
      BY <1>1 DEF SignIn, SignUp, Begin
    <2>4. QED
      BY <2>1, <2>2, <2>3, BeginStays
  <1>2. CASE SaveProfile
    BY <1>2, BeginStays DEF SaveProfile, Begin, Browser, Kind, PlacesOf
  <1>3. CASE DeleteAccount
    BY <1>3, BeginStays DEF DeleteAccount, Begin, Browser, Kind, PlacesOf
  <1>4. CASE Plan
    BY <1>4, BeginStays DEF Plan, Begin, Browser, Kind, PlacesOf
  <1>5. CASE SignOut
    BY <1>5 DEF SignOut, SignedOut, IInv, server, Tokens
  <1>6. CASE Reload
    <2>1. /\ flow' = [k \in Kind |-> IF k = "restore" /\ token # None
                                     THEN Request("me", None, FALSE) ELSE None]
          /\ UNCHANGED <<server, token>>
          /\ page' = [who |-> None, ready |-> token = None]
      BY <1>6 DEF Reload
    <2>2. RequestOK("restore", Request("me", None, FALSE), owner')
      BY <2>1 DEF RequestOK, Request, PlacesOf, IInv, server, Tokens
    <2>3. \A k \in Kind : flow'[k] # None => RequestOK(k, flow'[k], owner')
      BY <2>1, <2>2
    <2>4. page' \in [who : Account \cup {None}, ready : BOOLEAN]
      BY <2>1
    <2>5. flow' = [k \in Kind |-> flow'[k]]
      BY <2>1
    <2>6. QED
      BY <2>1, <2>3, <2>4, <2>5 DEF IInv, server, Tokens
  <1>7. ASSUME NEW i \in DOMAIN plans, DeletePlan(plans[i]) PROVE IInv'
    BY <1>7 DEF DeletePlan, IInv, server, Tokens
  <1>8. QED
    BY <1>1, <1>2, <1>3, <1>4, <1>5, <1>6, <1>7 DEF User

\* The page that goes on sends the token it was answered.
LEMMA ContinueKeeps == IInv /\ Continue => IInv'
  <1> SUFFICES ASSUME IInv, Continue PROVE IInv'
    OBVIOUS
  <1>a. token \in Tokens \cup {None} /\ page \in [who : Account \cup {None}, ready : BOOLEAN]
    BY DEF IInv
  <1>1. ASSUME NEW k \in Kind, ProfileAnswer(k) PROVE IInv'
    <2>1. flow[k].at = "me" /\ Answered(k)
      BY <1>1 DEF ProfileAnswer, IInv, RequestOK, PlacesOf, Answered
    <2>2. page' = SignedInAs(flow[k].out) /\ flow[k].out \in Account
      BY <1>1, <2>1, ProfileIsOfToken DEF ProfileAnswer
    <2>3. QED
      BY <1>1, <1>a, <2>2, EndStays DEF ProfileAnswer, SignedInAs
  <1>2. ASSUME NEW k \in Kind, RequestFails(k) PROVE IInv'
    BY <1>2, <1>a, EndStays DEF RequestFails, Browser
  <1>3. CASE RegisterAnswer
    <2>1. /\ flow["sign"] # None /\ flow["sign"].at = "register"
          /\ flow' = [flow EXCEPT !["sign"] = Request("login", flow["sign"].who, FALSE)]
          /\ UNCHANGED <<server, token, page>>
      BY <1>3 DEF RegisterAnswer, Answered, Browser
    <2>2. flow["sign"].who \in Account /\ "sign" \in Kind /\ "login" \in PlacesOf("sign")
      BY <2>1 DEF IInv, RequestOK, Kind, PlacesOf
    <2>3. QED
      BY <2>1, <2>2, BeginStays
  <1>4. CASE LoginAnswer
    <2> DEFINE r == [Request("me", None, FALSE) EXCEPT !.tok = token']
    <2>1. /\ flow["sign"] # None /\ flow["sign"].at = "login"
          /\ flow["sign"].out \notin {None} /\ token' = flow["sign"].out
          /\ flow' = [flow EXCEPT !["sign"] = r] /\ UNCHANGED <<server, page>>
          /\ "sign" \in Kind
      BY <1>4 DEF LoginAnswer, Answered, Kind
    <2>2. token' \in Tokens
      BY <2>1 DEF IInv, RequestOK, Tokens
    <2>3. r.at = "me" /\ r.who = None /\ r.tok = token' /\ r.out = None
      BY RequestWithToken
    <2>4. owner' = owner /\ Issues
      BY <2>1 DEF server, Issues
    <2>6. "me" \in PlacesOf("sign")
      BY DEF PlacesOf
    <2>7. RequestOK("sign", r, owner')
      BY <2>2, <2>3, <2>4, <2>6 DEF RequestOK, Tokens
    <2>5. QED
      BY <2>1, <2>2, <2>4, <2>7, FlowStays DEF IInv, server, Tokens
  <1>5. CASE MeAnswer
    <2>1. flow["sign"].at = "me" /\ Answered("sign") /\ "sign" \in Kind
      BY <1>5 DEF MeAnswer, Kind
    <2>2. page' = SignedInAs(flow["sign"].out) /\ flow["sign"].out \in Account
      BY <1>5, <2>1, ProfileIsOfToken DEF MeAnswer
    <2>3. QED
      BY <1>5, <1>a, <2>1, <2>2, EndStays DEF MeAnswer, SignedInAs
  <1>6. CASE DeleteAnswer
    BY <1>6, EndStays DEF DeleteAnswer, SignedOut, Kind
  <1>7. CASE PlanAnswer
    BY <1>7, <1>a, EndStays DEF PlanAnswer, Kind
  <1>8. CASE RestoreFails
    BY <1>8, EndStays DEF RestoreFails, SignedOut, Kind
  <1>9. QED
    BY <1>1, <1>2, <1>3, <1>4, <1>5, <1>6, <1>7, <1>8 DEF Continue

\* Every step keeps the invariant.
LEMMA StepKeeps == IInv /\ [Next]_vars => IInv'
  <1>1. IInv /\ UNCHANGED vars => IInv'
    BY DEF vars, server, IInv, Tokens
  <1>2. QED
    BY <1>1, HandleKeeps, UserKeeps, ContinueKeeps DEF Next

\* It always holds.
LEMMA Invariance == Spec => []IInv
  BY InitHolds, StepKeeps, PTL DEF Spec

-----------------------------------------------------------------------------

\* A step that only moves who is signed in by a profile that was answered.
LEMMA ProfileMatches ==
  ASSUME IInv, NEW k \in Kind, Answered(k), flow[k].at = "me", flow[k].tok = token,
         page'.who = flow[k].out, UNCHANGED <<owner, token>>
  PROVE  Matches'
  BY ProfileIsOfToken, TokenIsNotNone DEF IInv, Matches

LEMMA MisledStep ==
  ASSUME IInv, [Next]_vars, Matches, ~ Matches'
  PROVE  \E k \in {"restore", "patch", "sign"} :
           /\ Answered(k) /\ flow'[k] # flow[k]
           /\ \/ flow[k].at = "me" /\ flow[k].tok # token
              \/ flow[k].at = "login" /\ page.who # None
  <1> DEFINE Goal(k) == /\ Answered(k) /\ flow'[k] # flow[k]
                        /\ \/ flow[k].at = "me" /\ flow[k].tok # token
                           \/ flow[k].at = "login" /\ page.who # None
  <1> SUFFICES \E k \in {"restore", "patch", "sign"} : Goal(k)
    OBVIOUS
  <1>a. page'.who # None
    BY DEF Matches
  <1>b. ASSUME UNCHANGED <<token, page>>, Issues PROVE FALSE
    <2>1. page.who # None => token \in Tokens /\ owner[token] = page.who
      BY DEF Matches, IInv
    <2>2. page'.who # None => token' # None /\ owner'[token'] = page'.who
      BY <1>b, <2>1, IssuedStays, TokenIsNotNone DEF IInv
    <2>3. QED
      BY <2>2 DEF Matches
  <1>1. CASE UNCHANGED vars
    BY <1>1, <1>b DEF vars, server, Issues
  <1>2. CASE Handle \/ Expire
    <2>1. UNCHANGED <<token, page>>
      BY <1>2 DEF Handle, HandleMe, HandleRegister, HandleLogin, HandleDelete, HandlePlan,
                  Expire, Browser
    <2>2. Issues
      <3>1. CASE HandleLogin
        <4>1. owner' = Append(owner, flow["sign"].who) /\ flow["sign"] # None
              /\ flow["sign"].at = "login" /\ "sign" \in Kind
          BY <3>1 DEF HandleLogin, Arrived, Kind
        <4>2. flow["sign"].who \in Account
          BY <4>1 DEF IInv, RequestOK
        <4>3. QED
          BY <4>1, <4>2 DEF Issues
      <3>2. CASE ~ HandleLogin
        BY <1>2, <3>2 DEF Handle, HandleMe, HandleRegister, HandleDelete, HandlePlan,
                          Expire, server, Issues
      <3>3. QED
        BY <3>1, <3>2
    <2>3. QED
      BY <1>b, <2>1, <2>2
  <1>3. CASE User
    <2>1. CASE SignOut \/ Reload
      <3>1. PICK b : page' = [who |-> None, ready |-> b]
        BY <2>1 DEF SignOut, Reload, SignedOut
      <3>2. QED
        BY <1>a, <3>1
    <2>2. CASE ~ (SignOut \/ Reload)
      <3>1. UNCHANGED <<server, token, page>>
        BY <1>3, <2>2 DEF User, SignIn, SignUp, SaveProfile, DeleteAccount, Plan, Begin,
                          Browser, DeletePlan
      <3>2. QED
        BY <1>b, <3>1 DEF server, Issues
    <2>3. QED
      BY <2>1, <2>2
  <1>4. CASE Continue
    <2>0. \A k \in Kind : Ended(k) /\ flow[k] # None => flow'[k] # flow[k]
      BY DEF Ended, IInv
    <2>1. ASSUME NEW k \in Kind, ProfileAnswer(k) PROVE Goal(k) /\ k \in {"restore", "patch"}
      <3>1. /\ k \in {"restore", "patch"} /\ Answered(k) /\ page' = SignedInAs(flow[k].out)
            /\ Ended(k) /\ UNCHANGED <<owner, token>>
        BY <2>1 DEF ProfileAnswer, server
      <3>2. flow[k].at = "me" /\ flow[k] # None
        BY <3>1 DEF Answered, IInv, RequestOK, PlacesOf
      <3>3. page'.who = flow[k].out
        BY <3>1 DEF SignedInAs
      <3>4. flow[k].tok # token
        BY <3>1, <3>2, <3>3, ProfileMatches
      <3>5. QED
        BY <2>0, <3>1, <3>2, <3>4
    <2>2. ASSUME MeAnswer PROVE Goal("sign")
      <3>1. /\ Answered("sign") /\ flow["sign"].at = "me" /\ "sign" \in Kind
            /\ page' = SignedInAs(flow["sign"].out) /\ Ended("sign")
            /\ UNCHANGED <<owner, token>>
        BY <2>2 DEF MeAnswer, server, Kind
      <3>2. page'.who = flow["sign"].out
        BY <3>1 DEF SignedInAs
      <3>3. flow["sign"].tok # token
        BY <3>1, <3>2, ProfileMatches
      <3>4. QED
        BY <2>0, <3>1, <3>3 DEF Answered
    <2>3. ASSUME LoginAnswer PROVE Goal("sign")
      <3>1. Answered("sign") /\ flow["sign"].at = "login" /\ page' = page /\ "sign" \in Kind
        BY <2>3 DEF LoginAnswer, Kind
      <3>2. flow'["sign"].at = "me"
        BY <2>3, <3>1 DEF LoginAnswer, Request, IInv
      <3>3. QED
        BY <1>a, <3>1, <3>2
    <2>4. CASE RestoreFails \/ DeleteAnswer
      BY <1>a, <2>4 DEF RestoreFails, DeleteAnswer, SignedOut
    <2>5. CASE RegisterAnswer \/ PlanAnswer \/ \E k \in Kind : RequestFails(k)
      <3>1. UNCHANGED <<server, token, page>>
        BY <2>5 DEF RegisterAnswer, PlanAnswer, RequestFails, Browser
      <3>2. QED
        BY <1>b, <3>1 DEF server, Issues
    <2>6. QED
      BY <1>4, <2>1, <2>2, <2>3, <2>4, <2>5 DEF Continue
  <1>5. QED
    BY <1>1, <1>2, <1>3, <1>4 DEF Next

\* Whoever the page shows as signed in, the token is theirs, however answers
\* and sign-ins cross: only an answer to a request sent with another token, or
\* a log-in over somebody's session, parts them.
THEOREM OnlyLate == Spec => OnlyLateAnswersMislead
  <1>1. IInv /\ [Next]_vars =>
          [Matches /\ ~ Matches'
             => \E k \in {"restore", "patch", "sign"} :
                  /\ Answered(k) /\ flow'[k] # flow[k]
                  /\ \/ flow[k].at = "me" /\ flow[k].tok # token
                     \/ flow[k].at = "login" /\ page.who # None]_vars
    BY MisledStep
  <1>2. QED
    BY <1>1, Invariance, PTL DEF Spec, OnlyLateAnswersMislead

-----------------------------------------------------------------------------
(* The lists of plans.                                                       *)

\* What holds of the empty prefix, and of a prefix when it holds of the one
\* before it, holds of every prefix.
LEMMA CountUp ==
  ASSUME NEW n \in Nat, NEW Good, 0 \in Good,
         \A i \in 1..n : i - 1 \in Good => i \in Good
  PROVE  \A i \in 0..n : i \in Good
  <1> DEFINE Bad == {i \in 0..n : i \notin Good}
  <1>1. SUFFICES ASSUME Bad # {} PROVE FALSE
    OBVIOUS
  <1>2. Bad \subseteq Nat
    OBVIOUS
  <1>3. PICK i \in Bad : \A j \in Bad : ~ (<<j, i>> \in OpToRel(<, Nat))
    <2> HIDE DEF Bad
    <2>1. QED
      BY <1>1, <1>2, NatLessThanWellFounded, WFMin
  <1>4. \A j \in Bad : ~ (j < i)
    BY <1>2, <1>3 DEF OpToRel
  <1>5. i # 0 /\ i \in 1..n /\ i - 1 \in 0..n
    OBVIOUS
  <1>6. i - 1 \in Good
    BY <1>4, <1>5
  <1>7. QED
    BY <1>5, <1>6

\* F filters x out of the first n of s.
Filters(F, s, x, n) ==
  F = [k \in 0..n |-> IF k = 0 THEN <<>>
                      ELSE IF s[k] = x THEN F[k - 1] ELSE Append(F[k - 1], s[k])]

\* There is such a function, whatever s is.
LEMMA FilterExists ==
  ASSUME NEW s, NEW x, NEW n \in Nat
  PROVE  \E F : Filters(F, s, x, n)
  <1> DEFINE Good == {i \in 0..n : \E F : Filters(F, s, x, i)}
  <1>1. 0 \in Good
    <2>1. Filters([k \in 0..0 |-> <<>>], s, x, 0)
      BY DEF Filters
    <2>2. QED
      BY <2>1
  <1>2. ASSUME NEW i \in 1..n, i - 1 \in Good PROVE i \in Good
    <2>1. PICK F : Filters(F, s, x, i - 1)
      BY <1>2
    <2> DEFINE G == [k \in 0..i |-> IF k = i
                                    THEN IF s[i] = x THEN F[i - 1] ELSE Append(F[i - 1], s[i])
                                    ELSE F[k]]
    <2>2. \A k \in 0..(i - 1) : G[k] = F[k]
      OBVIOUS
    <2>3. \A k \in 0..(i - 1) : F[k] = IF k = 0 THEN <<>>
                          ELSE IF s[k] = x THEN F[k - 1] ELSE Append(F[k - 1], s[k])
      BY <2>1 DEF Filters
    <2>4. \A k \in 0..i : G[k] = IF k = 0 THEN <<>>
                          ELSE IF s[k] = x THEN G[k - 1] ELSE Append(G[k - 1], s[k])
      <3>1. G[i] = IF s[i] = x THEN F[i - 1] ELSE Append(F[i - 1], s[i])
        OBVIOUS
      <3>2. \A k \in 1..i : k - 1 \in 0..(i - 1)
        OBVIOUS
      <3> HIDE DEF G
      <3>3. \A k \in 0..i : k = i \/ k \in 0..(i - 1)
        OBVIOUS
      <3>4. QED
        BY <2>2, <2>3, <3>1, <3>2, <3>3
    <2>5. G = [k \in 0..i |-> G[k]]
      OBVIOUS
    <2> HIDE DEF G
    <2>6. Filters(G, s, x, i)
      BY <2>4, <2>5 DEF Filters
    <2>7. QED
      BY <2>6
  <1> HIDE DEF Good
  <1>3. \A i \in 0..n : i \in Good
    BY <1>1, <1>2, CountUp
  <1>4. n \in Good
    BY <1>3
  <1>5. QED
    BY <1>4 DEF Good

\* So Without is one: its recursion is well founded.
LEMMA WithoutFilters ==
  ASSUME NEW s, Len(s) \in Nat, NEW x
  PROVE  \E F : Filters(F, s, x, Len(s)) /\ Without(s, x) = F[Len(s)]
  <1>1. \E F : Filters(F, s, x, Len(s))
    BY FilterExists
  <1>2. QED
    BY <1>1 DEF Without, Filters

\* No plan is twice in the list.
Distinct(s) == \A i, j \in DOMAIN s : s[i] = s[j] => i = j

\* What a filtered list is made of.
LEMMA WithoutType ==
  ASSUME NEW S, NEW s \in Seq(S), NEW x
  PROVE  /\ Without(s, x) \in Seq(S) /\ Len(Without(s, x)) <= Len(s)
         /\ \A i \in DOMAIN Without(s, x) : /\ Without(s, x)[i] # x
                                            /\ \E j \in DOMAIN s : Without(s, x)[i] = s[j]
         /\ Distinct(s) => Distinct(Without(s, x))
         /\ (\A i \in DOMAIN s : s[i] # x) => Without(s, x) = s
  <1> DEFINE n == Len(s)
  <1>1. n \in Nat /\ DOMAIN s = 1..n
    OBVIOUS
  <1>2. PICK F : Filters(F, s, x, n) /\ Without(s, x) = F[n]
    BY WithoutFilters
  <1> DEFINE Of(k) == /\ F[k] \in Seq(S) /\ Len(F[k]) <= k
                      /\ \A i \in 1..Len(F[k]) : F[k][i] # x /\ \E j \in 1..k : F[k][i] = s[j]
                      /\ Distinct(s) => \A i, j \in 1..Len(F[k]) : F[k][i] = F[k][j] => i = j
                      /\ (\A i \in DOMAIN s : s[i] # x) =>
                           Len(F[k]) = k /\ \A i \in 1..k : F[k][i] = s[i]
             Good == {k \in 0..n : Of(k)}
  <1> HIDE DEF n
  <1>3. F[0] = <<>> /\ \A k \in 1..n : F[k] = IF s[k] = x THEN F[k - 1] ELSE Append(F[k - 1], s[k])
    <2>1. \A k \in 0..n : F[k] = IF k = 0 THEN <<>>
                          ELSE IF s[k] = x THEN F[k - 1] ELSE Append(F[k - 1], s[k])
      BY <1>2 DEF Filters
    <2>2. 0 \in 0..n /\ \A k \in 1..n : k \in 0..n /\ k # 0
      BY <1>1
    <2>3. QED
      BY <2>1, <2>2
  <1>4. 0 \in Good
    <2>1. Of(0)
      BY <1>3
    <2>2. QED
      BY <1>1, <2>1
  <1>5. ASSUME NEW k \in 1..n, k - 1 \in Good PROVE k \in Good
    <2>0. k - 1 \in Nat /\ k \in Nat /\ k \in DOMAIN s /\ k \in 0..n
      BY <1>1
    <2>1. Of(k - 1) /\ k - 1 \in Nat /\ k \in Nat /\ k \in DOMAIN s /\ k \in 0..n
      <3> HIDE DEF Of
      <3>1. QED
        BY <1>5, <2>0
    <2>2. CASE s[k] = x
      <3>1. F[k] = F[k - 1]
        BY <1>3, <2>2
      <3>2. Of(k)
        BY <2>1, <2>2, <3>1
      <3>3. QED
        BY <2>1, <3>2
    <2>3. CASE s[k] # x
      <3> DEFINE w == F[k - 1]
                 m == Len(w)
      <3>1. F[k] = Append(w, s[k]) /\ s[k] \in S
        <4>1. F[k] = Append(F[k - 1], s[k])
          BY <1>3, <2>3
        <4>2. s[k] \in S
          BY <2>0
        <4>3. QED
          BY <4>1, <4>2
      <3>2. w \in Seq(S) /\ m \in Nat /\ m <= k - 1
        BY <2>1
      <3>3. /\ \A i \in 1..m : w[i] # x /\ \E j \in 1..(k - 1) : w[i] = s[j]
            /\ Distinct(s) => \A i, j \in 1..m : w[i] = w[j] => i = j
            /\ (\A i \in DOMAIN s : s[i] # x) => m = k - 1 /\ \A i \in 1..(k - 1) : w[i] = s[i]
        BY <2>1
      <3> HIDE DEF w
      <3>4. /\ F[k] \in Seq(S) /\ Len(F[k]) = m + 1
            /\ \A i \in 1..m : F[k][i] = w[i] /\ F[k][m + 1] = s[k]
            /\ F[k][m + 1] = s[k]
        BY <3>1, <3>2
      <3> HIDE DEF m
      <3>5. \A i \in 1..(m + 1) : i \in 1..m \/ i = m + 1
        BY <3>2
      <3>6. \A j \in 1..(k - 1) : j \in 1..k /\ j \in DOMAIN s /\ j # k
        BY <1>1, <2>1
      <3>7. \A i \in 1..(m + 1) : F[k][i] # x /\ \E j \in 1..k : F[k][i] = s[j]
        <4>1. k \in 1..k
          BY <2>1
        <4>2. QED
          BY <2>3, <3>3, <3>4, <3>5, <3>6, <4>1
      <3>8. ASSUME Distinct(s)
            PROVE  \A i, j \in 1..(m + 1) : F[k][i] = F[k][j] => i = j
        <4>1. \A i \in 1..m : F[k][i] # s[k]
          <5> SUFFICES ASSUME NEW i \in 1..m, w[i] = s[k] PROVE FALSE
            BY <3>4
          <5>1. PICK j \in 1..(k - 1) : w[i] = s[j]
            BY <3>3
          <5>2. QED
            BY <2>1, <3>6, <3>8, <5>1 DEF Distinct
        <4>2. QED
          BY <3>3, <3>4, <3>5, <3>8, <4>1
      <3>9. ASSUME \A i \in DOMAIN s : s[i] # x
            PROVE  m + 1 = k /\ \A i \in 1..k : F[k][i] = s[i]
        <4>1. m = k - 1 /\ m + 1 = k
          BY <2>1, <3>2, <3>3, <3>9
        <4>2. QED
          BY <3>3, <3>4, <3>5, <3>9, <4>1
      <3>10. Of(k)
        BY <2>1, <3>2, <3>4, <3>7, <3>8, <3>9
      <3>11. QED
        BY <2>1, <3>10
    <2>4. QED
      BY <2>2, <2>3
  <1>6. \A k \in 0..n : k \in Good
    <2> HIDE DEF Good
    <2>1. QED
      BY <1>1, <1>4, <1>5, CountUp
  <1>7. Of(n)
    <2>1. n \in 0..n
      BY <1>1
    <2>2. QED
      BY <1>6, <2>1
  <1> DEFINE w == F[n]
  <1>8. /\ w \in Seq(S) /\ Len(w) <= n
        /\ \A i \in 1..Len(w) : w[i] # x /\ \E j \in 1..n : w[i] = s[j]
        /\ Distinct(s) => \A i, j \in 1..Len(w) : w[i] = w[j] => i = j
        /\ (\A i \in DOMAIN s : s[i] # x) => Len(w) = n /\ \A i \in 1..n : w[i] = s[i]
    BY <1>7
  <1> HIDE DEF w
  <1>9. DOMAIN w = 1..Len(w) /\ w = [i \in 1..Len(w) |-> w[i]] /\ s = [i \in 1..n |-> s[i]]
    BY <1>1, <1>8 DEF n
  <1>10. (\A i \in DOMAIN s : s[i] # x) => w = s
    BY <1>8, <1>9
  <1>11. Without(s, x) = w /\ n = Len(s)
    BY <1>2 DEF w, n
  <1>12. Distinct(s) => Distinct(w)
    BY <1>8, <1>9 DEF Distinct
  <1>13. \A i \in DOMAIN w : w[i] # x /\ \E j \in DOMAIN s : w[i] = s[j]
    BY <1>1, <1>8, <1>9, <1>11
  <1>14. QED
    BY <1>8, <1>10, <1>11, <1>12, <1>13

\* Putting a new plan in front and dropping the oldest.
LEMMA NewestType ==
  ASSUME NEW S, NEW s \in Seq(S), NEW x \in S
  PROVE  /\ Newest(<<x>> \o s) \in Seq(S) /\ Len(Newest(<<x>> \o s)) <= MaxPlans
         /\ \E i \in DOMAIN Newest(<<x>> \o s) : Newest(<<x>> \o s)[i] = x
         /\ Distinct(s) /\ (\A i \in DOMAIN s : s[i] # x) => Distinct(Newest(<<x>> \o s))
  <1> DEFINE t == <<x>> \o s
             m == IF Len(t) < MaxPlans THEN Len(t) ELSE MaxPlans
  <1>1. /\ t \in Seq(S) /\ Len(t) = Len(s) + 1 /\ Len(s) \in Nat
        /\ t[1] = x /\ \A i \in 1..Len(s) : t[i + 1] = s[i]
    OBVIOUS
  <1> HIDE DEF t
  <1>2. m \in 1..Len(t) /\ m <= MaxPlans
    BY <1>1, SessionAssumption
  <1> HIDE DEF m
  <1>3. /\ SubSeq(t, 1, m) \in Seq(S) /\ Len(SubSeq(t, 1, m)) = m
        /\ DOMAIN SubSeq(t, 1, m) = 1..m
        /\ \A i \in 1..m : SubSeq(t, 1, m)[i] = t[i]
    BY <1>1, <1>2
  <1>4. Newest(t) = SubSeq(t, 1, m)
    BY DEF Newest, m
  <1>5. ASSUME Distinct(s), \A i \in DOMAIN s : s[i] # x,
               NEW i \in 1..Len(t), NEW j \in 1..Len(t), t[i] = t[j]
        PROVE  i = j
    <2>1. \A k \in 1..Len(t) : k = 1 \/ (k - 1 \in DOMAIN s /\ t[k] = s[k - 1])
      <3>1. ASSUME NEW k \in 1..Len(t), k # 1 PROVE k - 1 \in DOMAIN s /\ t[k] = s[k - 1]
        <4>1. k - 1 \in 1..Len(s) /\ (k - 1) + 1 = k
          BY <1>1, <3>1
        <4>2. QED
          BY <1>1, <4>1
      <3>2. QED
        BY <3>1
    <2>2. CASE i = 1 \/ j = 1
      BY <1>1, <1>5, <2>1, <2>2
    <2>3. CASE i # 1 /\ j # 1
      <3>1. i - 1 = j - 1
        BY <1>5, <2>1, <2>3 DEF Distinct
      <3>2. QED
        BY <1>1, <3>1
    <2>4. QED
      BY <2>2, <2>3
  <1> DEFINE w == SubSeq(t, 1, m)
  <1>6. w \in Seq(S) /\ Len(w) <= MaxPlans /\ DOMAIN w = 1..m /\ \A i \in 1..m : w[i] = t[i]
    BY <1>2, <1>3
  <1> HIDE DEF w
  <1>7. \E i \in DOMAIN w : w[i] = x
    BY <1>1, <1>2, <1>6
  <1>8. Distinct(s) /\ (\A i \in DOMAIN s : s[i] # x) => Distinct(w)
    BY <1>1, <1>2, <1>5, <1>6 DEF Distinct
  <1>9. Newest(<<x>> \o s) = w
    BY <1>4 DEF w, t
  <1>10. QED
    BY <1>6, <1>7, <1>8, <1>9

-----------------------------------------------------------------------------
(* What is kept, here and on the server.                                     *)

\* The accounts tokens were issued to are there or were deleted; the plans on
\* the server were made.
ServerInv ==
  /\ gone \subseteq Account /\ Len(owner) <= MaxTokens /\ expired \subseteq Tokens
  /\ made \in 0..MaxMade /\ onServer \subseteq Account \X (1..made)
  /\ \A t \in Tokens : owner[t] \in accounts \cup gone

\* A list holds plans that were made, none twice, and no more than there is
\* room for.
IsList(s) == s \in Seq(1..made) /\ Len(s) <= MaxPlans /\ Distinct(s)

ShelfInv ==
  /\ IsList(stored) /\ IsList(plans) /\ IsList(kept)
  /\ full \in BOOLEAN /\ PlansAreKept

FlowRecord == [at : {"me", "register", "login", "delete", "plan"},
               who : Account \cup {None}, shown : BOOLEAN,
               tok : Tokens \cup {None},
               out : {None} \cup Account \cup Nat]

FlowTyped == \A k \in Kind : flow[k] # None => flow[k] \in FlowRecord

\* A plan asked for with token t as number x is on the account, unless the
\* token was no good, or has not been since.
OnAccount(t, x) ==
  \/ t \in Tokens /\ <<owner[t], x>> \in onServer
  \/ t = None \/ t \in expired \/ owner[t] \in gone

\* A plan on its way here was made, is in no list yet, and is on the account if
\* the page counts on that.
Fresh(x) == x \in 1..made /\ \A i \in DOMAIN kept : kept[i] # x
PlanFlow ==
  flow["plan"] # None /\ flow["plan"].out \notin {None} =>
    /\ Fresh(flow["plan"].out)
    /\ flow["plan"].shown => OnAccount(flow["plan"].tok, flow["plan"].out)

SInv == IInv /\ ServerInv /\ ShelfInv /\ FlowTyped /\ PlanFlow

-----------------------------------------------------------------------------
(* The server's part.                                                        *)

\* Nothing of the server changes.
LEMMA ServerSame == ASSUME ServerInv, UNCHANGED server PROVE ServerInv'
  BY DEF ServerInv, server, Tokens

\* What the server does next keeps its part.
LEMMA ServerKeeps ==
  ASSUME IInv, FlowTyped, ServerInv, Handle \/ Expire
  PROVE  ServerInv'
  <1>1. ASSUME NEW k \in Kind, HandleMe(k) PROVE ServerInv'
    BY <1>1, ServerSame DEF HandleMe
  <1>2. CASE HandleRegister
    <2>1. accounts \subseteq accounts' /\ UNCHANGED <<owner, expired, onServer, made, gone>>
      BY <1>2 DEF HandleRegister
    <2>2. QED
      BY <2>1 DEF ServerInv, Tokens
  <1>3. CASE HandleLogin
    <2> DEFINE a == flow["sign"].who
    <2>1. /\ a \in accounts /\ Len(owner) < MaxTokens /\ owner' = Append(owner, a)
          /\ UNCHANGED <<accounts, expired, onServer, made, gone>>
      BY <1>3 DEF HandleLogin
    <2>2. owner \in Seq(Account) /\ a \in Account /\ MaxTokens \in Nat
      BY <2>1, SessionAssumption DEF IInv
    <2> HIDE DEF a
    <2>3. /\ Len(owner') = Len(owner) + 1 /\ Tokens \subseteq Tokens'
          /\ \A t \in Tokens' : t \in Tokens \/ t = Len(owner) + 1
          /\ owner'[Len(owner) + 1] = a
          /\ \A t \in Tokens : owner'[t] = owner[t]
      BY <2>1, <2>2 DEF Tokens
    <2>4. Len(owner') <= MaxTokens
      BY <2>1, <2>2, <2>3
    <2>5. QED
      BY <2>1, <2>3, <2>4 DEF ServerInv
  <1>4. CASE HandleDelete
    <2>1. PICK a : /\ a \in Account /\ accounts' = accounts \ {a} /\ gone' = gone \cup {a}
                   /\ onServer' = {x \in onServer : x[1] # a}
                   /\ UNCHANGED <<owner, expired, made>>
      <3> DEFINE a == Bearer(flow["delete"].tok)
      <3>1. /\ a # None /\ accounts' = accounts \ {a} /\ gone' = gone \cup {a}
            /\ onServer' = {x \in onServer : x[1] # a}
            /\ UNCHANGED <<owner, expired, made>>
        BY <1>4 DEF HandleDelete
      <3>2. a \in accounts
        BY <3>1 DEF Bearer
      <3> HIDE DEF a
      <3>3. QED
        BY <3>1, <3>2 DEF IInv
    <2>2. QED
      BY <2>1 DEF ServerInv, Tokens
  <1>5. CASE HandlePlan
    <2> DEFINE a == Bearer(flow["plan"].tok)
    <2>1. /\ made < MaxMade /\ made' = made + 1
          /\ onServer' = IF a = None THEN onServer ELSE onServer \cup {<<a, made'>>}
          /\ UNCHANGED <<accounts, owner, expired, gone>>
      BY <1>5 DEF HandlePlan
    <2>2. a # None => a \in Account
      BY DEF Bearer, IInv
    <2> HIDE DEF a
    <2>3. made' \in 0..MaxMade /\ 1..made \subseteq 1..made' /\ made' \in 1..made'
      BY <2>1, SessionAssumption DEF ServerInv
    <2>4. onServer' \subseteq Account \X (1..made')
      BY <2>1, <2>2, <2>3 DEF ServerInv
    <2>5. QED
      BY <2>1, <2>3, <2>4 DEF ServerInv, Tokens
  <1>6. CASE Expire
    BY <1>6 DEF Expire, ServerInv, Tokens
  <1>7. QED
    BY <1>1, <1>2, <1>3, <1>4, <1>5, <1>6 DEF Handle

-----------------------------------------------------------------------------
(* The shelf.                                                                *)

\* A list stays one when more plans are made.
LEMMA ListStays ==
  ASSUME NEW s, IsList(s), made \in Nat, made' \in Nat, made <= made'
  PROVE  s \in Seq(1..made') /\ Len(s) <= MaxPlans /\ Distinct(s)
  <1>1. 1..made \subseteq 1..made'
    OBVIOUS
  <1>2. s \in Seq(1..made)
    BY DEF IsList
  <1>3. s \in Seq(1..made')
    <2>1. \A i \in 1..Len(s) : s[i] \in 1..made'
      BY <1>1, <1>2
    <2>2. Len(s) \in Nat /\ s = [i \in 1..Len(s) |-> s[i]]
      BY <1>2
    <2>3. QED
      BY <2>1, <2>2
  <1>4. QED
    BY <1>3 DEF IsList

\* Nothing of the shelf changes, though plans may be made.
LEMMA ShelfSame ==
  ASSUME ShelfInv, UNCHANGED shelf, made \in Nat, made' \in Nat, made <= made'
  PROVE  ShelfInv'
  BY ListStays DEF ShelfInv, shelf, IsList, PlansAreKept, Distinct

\* Filtering a list makes a list.
LEMMA WithoutIsList ==
  ASSUME NEW s, IsList(s), MaxPlans \in Nat, NEW x
  PROVE  IsList(Without(s, x))
  <1>1. s \in Seq(1..made) /\ Len(s) <= MaxPlans /\ Distinct(s) /\ Len(s) \in Nat
    BY DEF IsList
  <1> DEFINE w == Without(s, x)
  <1>2. w \in Seq(1..made) /\ Len(w) <= Len(s) /\ Distinct(w)
    BY <1>1, WithoutType
  <1> HIDE DEF w
  <1>3. Len(w) \in Nat /\ Len(w) <= MaxPlans
    BY <1>1, <1>2
  <1>4. IsList(w)
    BY <1>2, <1>3 DEF IsList
  <1>5. QED
    BY <1>4 DEF w

\* So does putting a plan in front that is not in it.
LEMMA NewestIsList ==
  ASSUME NEW s, IsList(s), NEW x \in 1..made, \A i \in DOMAIN s : s[i] # x
  PROVE  IsList(Newest(<<x>> \o s))
  BY NewestType DEF IsList

\* The two ways a list is set.
LEMMA SetKeeps ==
  ASSUME ShelfInv, made' = made, NEW next, NEW mine, SetPlans(next), kept' = mine,
         IsList(next), IsList(mine), ~ full => next = mine
  PROVE  ShelfInv'
  <1>0. plans' = next /\ full \in BOOLEAN
    BY DEF SetPlans, ShelfInv
  <1>1. CASE stored' = next /\ UNCHANGED full
    <2>1. full' \in BOOLEAN
      BY <1>0, <1>1
    <2>2. PlansAreKept'
      BY <1>0, <1>1 DEF PlansAreKept
    <2>3. IsList(plans)' /\ IsList(kept)' /\ IsList(stored)'
      BY <1>0, <1>1 DEF IsList, Distinct
    <2>4. QED
      BY <2>1, <2>2, <2>3 DEF ShelfInv
  <1>2. CASE full' = TRUE /\ UNCHANGED stored
    <2>1. PlansAreKept' /\ full' \in BOOLEAN
      BY <1>2 DEF PlansAreKept
    <2>2. IsList(plans)' /\ IsList(kept)' /\ IsList(stored)'
      BY <1>0, <1>2 DEF IsList, Distinct, ShelfInv
    <2>3. QED
      BY <2>1, <2>2 DEF ShelfInv
  <1>3. QED
    BY <1>1, <1>2 DEF SetPlans

\* Saving a fresh plan.
LEMMA SaveKeeps ==
  ASSUME ShelfInv, made' = made, NEW x, Fresh(x), SavePlan(x)
  PROVE  ShelfInv' /\ \E i \in DOMAIN plans' : plans'[i] = x
  <1>1. x \in 1..made /\ \A i \in DOMAIN kept : kept[i] # x
    BY DEF Fresh
  <1>2. IsList(plans) /\ IsList(kept) /\ MaxPlans \in Nat
    BY SessionAssumption DEF ShelfInv
  <1> DEFINE w == Without(plans, x)
             next == Newest(<<x>> \o w)
             mine == Newest(<<x>> \o kept)
  <1>3. IsList(w) /\ \A i \in DOMAIN w : w[i] # x
    <2>1. plans \in Seq(1..made)
      BY <1>2 DEF IsList
    <2>2. \A i \in DOMAIN w : w[i] # x
      BY <2>1, WithoutType
    <2>3. QED
      BY <1>2, <2>2, WithoutIsList
  <1>4. ~ full => w = kept
    <2>1. SUFFICES ASSUME ~ full PROVE w = kept
      OBVIOUS
    <2>2. plans = kept /\ plans \in Seq(1..made)
      BY <1>2, <2>1 DEF ShelfInv, PlansAreKept, IsList
    <2>3. \A i \in DOMAIN plans : plans[i] # x
      BY <1>1, <2>2
    <2>4. QED
      BY <2>2, <2>3, WithoutType
  <1>5. SetPlans(next) /\ kept' = mine
    BY DEF SavePlan
  <1> HIDE DEF w
  <1>6. IsList(next) /\ IsList(mine)
    BY <1>1, <1>2, <1>3, NewestIsList
  <1>7. ~ full => next = mine
    BY <1>4
  <1>8. \E i \in DOMAIN next : next[i] = x
    BY <1>1, <1>3, NewestType DEF IsList
  <1> HIDE DEF next, mine
  <1>9. plans' = next
    BY <1>5 DEF SetPlans
  <1>10. QED
    BY <1>5, <1>6, <1>7, <1>8, <1>9, SetKeeps

\* Every step keeps the shelf; a request that goes on or fails leaves it alone.
LEMMA ShelfKeeps ==
  ASSUME IInv, ServerInv, ServerInv', ShelfInv, PlanFlow, [Next]_vars
  PROVE  ShelfInv'
  <1>a. made \in Nat /\ made' \in Nat /\ MaxPlans \in Nat
    BY SessionAssumption DEF ServerInv
  <1>b. ASSUME UNCHANGED shelf, made' = made \/ made' = made + 1 PROVE ShelfInv'
    BY <1>a, <1>b, ShelfSame
  <1>1. CASE UNCHANGED vars
    BY <1>1, <1>b DEF vars, server
  <1>2. CASE Handle \/ Expire
    BY <1>2, <1>b DEF Handle, HandleMe, HandleRegister, HandleLogin, HandleDelete, HandlePlan,
                      Expire, Browser, server
  <1>3. ASSUME NEW i \in DOMAIN plans, DeletePlan(plans[i]) PROVE ShelfInv'
    <2> DEFINE x == plans[i]
    <2>1. SetPlans(Without(plans, x)) /\ kept' = Without(kept, x) /\ made' = made
      BY <1>3 DEF DeletePlan, server
    <2>2. IsList(Without(plans, x)) /\ IsList(Without(kept, x))
      BY <1>a, WithoutIsList DEF ShelfInv
    <2>3. ~ full => Without(plans, x) = Without(kept, x)
      BY DEF ShelfInv, PlansAreKept
    <2> HIDE DEF x
    <2>4. QED
      BY <2>1, <2>2, <2>3, SetKeeps
  <1>4. CASE Reload
    <2>1. plans' = stored /\ UNCHANGED <<stored, kept, full, made>>
      BY <1>4 DEF Reload, server
    <2>2. QED
      BY <2>1 DEF ShelfInv, IsList, PlansAreKept, Distinct
  <1>5. CASE User /\ ~ Reload /\ ~ \E i \in DOMAIN plans : DeletePlan(plans[i])
    BY <1>5, <1>b DEF User, SignIn, SignUp, SaveProfile, DeleteAccount, SignOut, Plan, Begin,
                      Browser, server
  <1>6. CASE DeleteAnswer
    <2>1. SetPlans(<<>>) /\ kept' = <<>> /\ made' = made
      BY <1>6 DEF DeleteAnswer, ClearPlans, server
    <2>2. IsList(<<>>)
      BY <1>a DEF IsList, Distinct
    <2>3. QED
      BY <2>1, <2>2, SetKeeps
  <1>7. CASE PlanAnswer
    <2>1. CASE UNCHANGED shelf
      BY <1>7, <1>b, <2>1 DEF PlanAnswer, server
    <2>2. CASE ~ UNCHANGED shelf
      <3>1. /\ SavePlan(flow["plan"].out) /\ made' = made
            /\ flow["plan"] # None /\ flow["plan"].out \notin {None}
        BY <1>7, <2>2 DEF PlanAnswer, server, Answered
      <3>2. Fresh(flow["plan"].out)
        BY <3>1 DEF PlanFlow
      <3>3. QED
        BY <3>1, <3>2, SaveKeeps
    <2>3. QED
      BY <2>1, <2>2
  <1>8. CASE Continue /\ ~ DeleteAnswer /\ ~ PlanAnswer
    BY <1>8, <1>b DEF Continue, ProfileAnswer, RequestFails, RegisterAnswer, LoginAnswer,
                      MeAnswer, RestoreFails, Browser, server
  <1>9. QED
    BY <1>1, <1>2, <1>3, <1>4, <1>5, <1>6, <1>7, <1>8 DEF Next, User

-----------------------------------------------------------------------------
(* The requests.                                                             *)

\* One request changes, and the others stay of their kind.
LEMMA FlowTypedStays ==
  ASSUME IInv, Issues, FlowTyped, NEW k \in Kind, NEW r, flow' = [flow EXCEPT ![k] = r],
         r # None => r \in FlowRecord'
  PROVE  FlowTyped'
  <1>1. FlowRecord \subseteq FlowRecord'
    BY IssuedStays DEF IInv, FlowRecord
  <1>2. flow'[k] = r /\ \A j \in Kind : j # k => flow'[j] = flow[j]
    BY DEF IInv
  <1> HIDE DEF FlowRecord
  <1>3. QED
    BY <1>1, <1>2 DEF FlowTyped

\* What the pages send is a request.
LEMMA RequestType ==
  ASSUME IInv, Issues, NEW at \in {"me", "register", "login", "delete", "plan"},
         NEW who \in Account \cup {None}, NEW shown \in BOOLEAN
  PROVE  Request(at, who, shown) \in FlowRecord'
  <1>1. token \in Tokens' \cup {None}
    BY IssuedStays DEF IInv
  <1>2. QED
    BY <1>1 DEF Request, FlowRecord

\* The server's answer is an account, a token or a plan.
LEMMA OutType ==
  ASSUME IInv, Issues, FlowTyped, NEW k \in Kind, flow[k] # None, NEW x \in Account \cup Nat,
         Out(k, x)
  PROVE  FlowTyped'
  <1> DEFINE old == flow[k]
             r == [old EXCEPT !.out = x]
  <1>1. old \in FlowRecord
    BY DEF FlowTyped
  <1>2. Tokens \subseteq Tokens'
    BY IssuedStays DEF IInv
  <1>3. flow' = [flow EXCEPT ![k] = r]
    BY DEF Out
  <1> HIDE DEF old
  <1>4. r \in FlowRecord'
    BY <1>1, <1>2 DEF FlowRecord
  <1> HIDE DEF r
  <1>5. QED
    BY <1>3, <1>4, FlowTypedStays

\* Requests stay requests whatever the server does.
LEMMA HandleTyped == ASSUME IInv, ServerInv, FlowTyped, Handle \/ Expire PROVE FlowTyped'
  <1>a. accounts \subseteq Account /\ owner \in Seq(Account) /\ made \in Nat
    BY SessionAssumption DEF IInv, ServerInv
  <1>1. ASSUME NEW k \in Kind, HandleMe(k) PROVE FlowTyped'
    <2>1. /\ flow[k] # None /\ Out(k, Bearer(flow[k].tok)) /\ Issues
          /\ Bearer(flow[k].tok) # None
      BY <1>1 DEF HandleMe, Arrived, server, Issues
    <2>2. Bearer(flow[k].tok) \in Account
      BY <1>a, <2>1 DEF Bearer
    <2>3. QED
      BY <2>1, <2>2, OutType
  <1>2. CASE HandleRegister
    <2> DEFINE x == flow["sign"].who
    <2>1. flow["sign"] # None /\ flow["sign"].at = "register" /\ Out("sign", x) /\ Issues
          /\ "sign" \in Kind
      BY <1>2 DEF HandleRegister, Arrived, Issues, Kind
    <2>2. x \in Account
      BY <2>1 DEF IInv, RequestOK
    <2> HIDE DEF x
    <2>3. QED
      BY <2>1, <2>2, OutType
  <1>3. CASE HandleLogin
    <2> DEFINE x == Len(owner')
               a == flow["sign"].who
    <2>1. flow["sign"] # None /\ Out("sign", x) /\ "sign" \in Kind /\ owner' = Append(owner, a)
          /\ a \in accounts
      BY <1>3 DEF HandleLogin, Arrived, Kind
    <2> HIDE DEF a
    <2>2. Issues /\ x \in Nat
      BY <1>a, <2>1 DEF Issues
    <2> HIDE DEF x
    <2>3. QED
      BY <2>1, <2>2, OutType
  <1>4. CASE HandleDelete
    <2> DEFINE x == Bearer(flow["delete"].tok)
    <2>1. flow["delete"] # None /\ Out("delete", x) /\ Issues /\ "delete" \in Kind /\ x # None
      BY <1>4 DEF HandleDelete, Arrived, Issues, Kind
    <2>2. x \in Account
      BY <1>a, <2>1 DEF Bearer
    <2> HIDE DEF x
    <2>3. QED
      BY <2>1, <2>2, OutType
  <1>5. CASE HandlePlan
    <2> DEFINE x == made'
    <2>1. flow["plan"] # None /\ Out("plan", x) /\ Issues /\ "plan" \in Kind
          /\ made' = made + 1
      BY <1>5 DEF HandlePlan, Arrived, Issues, Kind
    <2>2. x \in Nat
      BY <1>a, <2>1
    <2> HIDE DEF x
    <2>3. QED
      BY <2>1, <2>2, OutType
  <1>6. CASE Expire
    BY <1>6 DEF Expire, FlowTyped, FlowRecord, Tokens
  <1>7. QED
    BY <1>1, <1>2, <1>3, <1>4, <1>5, <1>6 DEF Handle

\* So they do whatever the user does.
LEMMA UserTyped == ASSUME IInv, FlowTyped, User PROVE FlowTyped'
  <1>1. ASSUME NEW k \in Kind, NEW at \in {"me", "register", "login", "delete", "plan"},
               NEW who \in Account \cup {None}, NEW shown \in BOOLEAN,
               Begin(k, Request(at, who, shown))
        PROVE  FlowTyped'
    <2> DEFINE r == Request(at, who, shown)
    <2>1. flow' = [flow EXCEPT ![k] = r] /\ Issues
      BY <1>1 DEF Begin, server, Issues
    <2>2. r \in FlowRecord'
      BY <2>1, RequestType
    <2> HIDE DEF r
    <2>3. QED
      BY <2>1, <2>2, FlowTypedStays
  <1>2. ASSUME NEW a \in Account, SignIn(a) \/ SignUp(a) PROVE FlowTyped'
    <2>1. Begin("sign", Request("login", a, FALSE)) \/ Begin("sign", Request("register", a, FALSE))
      BY <1>2 DEF SignIn, SignUp
    <2>2. QED
      BY <1>1, <2>1 DEF Kind
  <1>3. CASE SaveProfile \/ DeleteAccount
    <2>1. Begin("patch", Request("me", None, FALSE)) \/ Begin("delete", Request("delete", None, FALSE))
      BY <1>3 DEF SaveProfile, DeleteAccount
    <2>2. QED
      BY <1>1, <2>1 DEF Kind
  <1>4. CASE Plan
    <2>1. PICK b \in BOOLEAN : b = (page.who # None)
      OBVIOUS
    <2>2. Begin("plan", Request("plan", None, b))
      BY <1>4, <2>1 DEF Plan
    <2>3. "plan" \in Kind
      BY DEF Kind
    <2>4. QED
      BY <1>1, <2>2, <2>3
  <1>5. CASE SignOut \/ \E i \in DOMAIN plans : DeletePlan(plans[i])
    BY <1>5 DEF SignOut, DeletePlan, FlowTyped, FlowRecord, server, Tokens
  <1>6. CASE Reload
    <2> DEFINE r == Request("me", None, FALSE)
    <2>1. /\ \A k \in Kind : flow'[k] = IF k = "restore" /\ token # None THEN r ELSE None
          /\ Issues
      BY <1>6 DEF Reload, server, Issues
    <2>2. r \in FlowRecord'
      BY <2>1, RequestType
    <2> HIDE DEF r
    <2>3. QED
      BY <2>1, <2>2 DEF FlowTyped
  <1>7. QED
    BY <1>2, <1>3, <1>4, <1>5, <1>6 DEF User

\* And when the browser goes on.
LEMMA ContinueTyped == ASSUME IInv, FlowTyped, Continue PROVE FlowTyped'
  <1>1. ASSUME NEW k \in Kind, Ended(k), UNCHANGED server PROVE FlowTyped'
    BY <1>1, FlowTypedStays DEF Ended, server, Issues
  <1>2. ASSUME NEW k \in Kind, ProfileAnswer(k) \/ RequestFails(k) PROVE FlowTyped'
    BY <1>1, <1>2 DEF ProfileAnswer, RequestFails
  <1>3. CASE MeAnswer \/ DeleteAnswer \/ PlanAnswer \/ RestoreFails
    <2>1. {"sign", "delete", "plan", "restore"} \subseteq Kind
      BY DEF Kind
    <2>2. UNCHANGED server /\ \E k \in {"sign", "delete", "plan", "restore"} : Ended(k)
      BY <1>3 DEF MeAnswer, DeleteAnswer, PlanAnswer, RestoreFails
    <2>3. QED
      BY <1>1, <2>1, <2>2
  <1>4. CASE RegisterAnswer
    <2> DEFINE a == flow["sign"].who
               r == Request("login", a, FALSE)
    <2>1. /\ flow["sign"] # None /\ flow["sign"].at = "register" /\ "sign" \in Kind
          /\ flow' = [flow EXCEPT !["sign"] = r] /\ Issues
      BY <1>4 DEF RegisterAnswer, Answered, Kind, server, Issues
    <2>2. a \in Account
      BY <2>1 DEF IInv, RequestOK
    <2> HIDE DEF a
    <2>3. r \in FlowRecord'
      BY <2>1, <2>2, RequestType
    <2> HIDE DEF r
    <2>4. QED
      BY <2>1, <2>3, FlowTypedStays
  <1>5. CASE LoginAnswer
    <2> DEFINE q == Request("me", None, FALSE)
               r == [q EXCEPT !.tok = token']
    <2>1. /\ flow["sign"] # None /\ flow["sign"].at = "login"
          /\ flow["sign"].out \notin {None} /\ token' = flow["sign"].out
          /\ flow' = [flow EXCEPT !["sign"] = r] /\ "sign" \in Kind /\ Issues
          /\ owner' = owner
      BY <1>5 DEF LoginAnswer, Answered, Kind, server, Issues
    <2>2. token' \in Tokens'
      BY <2>1 DEF IInv, RequestOK, Tokens
    <2>3. q \in FlowRecord'
      BY <2>1, RequestType
    <2> HIDE DEF q
    <2>4. r \in FlowRecord'
      BY <2>2, <2>3 DEF FlowRecord
    <2> HIDE DEF r
    <2>5. QED
      BY <2>1, <2>4, FlowTypedStays
  <1>6. QED
    BY <1>2, <1>3, <1>4, <1>5 DEF Continue

-----------------------------------------------------------------------------
(* The plan on its way.                                                      *)

\* A plan on the account stays there, or its token is known to be no good.
LEMMA OnAccountStays ==
  ASSUME IInv, Handle \/ Expire \/ UNCHANGED server, NEW t \in Tokens \cup {None}, NEW x,
         OnAccount(t, x)
  PROVE  OnAccount(t, x)'
  <1>a. expired \subseteq expired' /\ gone \subseteq gone'
        /\ \A y \in Tokens : y \in Tokens' /\ owner'[y] = owner[y]
    <2>1. CASE HandleLogin
      <3> DEFINE a == flow["sign"].who
      <3>1. owner' = Append(owner, a) /\ a \in accounts /\ UNCHANGED <<expired, gone>>
        BY <2>1 DEF HandleLogin
      <3> HIDE DEF a
      <3>2. QED
        BY <3>1 DEF IInv, Tokens
    <2>2. CASE ~ HandleLogin
      BY <2>2 DEF Handle, HandleMe, HandleRegister, HandleDelete, HandlePlan, Expire, server, Tokens
    <2>3. QED
      BY <2>1, <2>2
  <1>1. CASE t = None \/ t \in expired
    BY <1>1, <1>a DEF OnAccount
  <1>2. CASE t \in Tokens /\ owner[t] \in gone
    BY <1>2, <1>a DEF OnAccount
  <1>3. CASE t \in Tokens /\ <<owner[t], x>> \in onServer
    <2>1. CASE HandleDelete
      <3>1. PICK a : gone' = gone \cup {a} /\ onServer' = {y \in onServer : y[1] # a}
        BY <2>1 DEF HandleDelete
      <3>2. <<owner[t], x>>[1] = owner[t]
        OBVIOUS
      <3>3. <<owner[t], x>> \in onServer' \/ owner[t] \in gone'
        BY <1>3, <3>1, <3>2
      <3>4. QED
        BY <1>3, <1>a, <3>3 DEF OnAccount
    <2>2. CASE ~ HandleDelete
      <3>1. onServer \subseteq onServer'
        BY <2>2 DEF Handle, HandleMe, HandleRegister, HandleLogin, HandlePlan, Expire, server
      <3>2. QED
        BY <1>3, <1>a, <3>1 DEF OnAccount
    <2>3. QED
      BY <2>1, <2>2
  <1>4. QED
    BY <1>1, <1>2, <1>3 DEF OnAccount

\* What can happen to the request for a plan, and to the list meanwhile.
LEMMA PlanMoves ==
  ASSUME IInv, ShelfInv, [Next]_vars
  PROVE  \/ flow'["plan"] = None
         \/ flow'["plan"].out \in {None}
         \/ HandlePlan
         \/ /\ flow'["plan"] = flow["plan"]
            /\ \A i \in DOMAIN kept' : \E j \in DOMAIN kept : kept'[i] = kept[j]
  <1> DEFINE Kept == \A i \in DOMAIN kept' : \E j \in DOMAIN kept : kept'[i] = kept[j]
  <1>a. "plan" \in Kind /\ \A k \in Kind \ {"plan"} : k # "plan"
    BY DEF Kind
  <1>b. ASSUME NEW k \in Kind, k # "plan", NEW r, flow' = [flow EXCEPT ![k] = r]
        PROVE  flow'["plan"] = flow["plan"]
    BY <1>b
  <1>c. ASSUME Ended("plan") PROVE flow'["plan"] = None
    BY <1>a, <1>c DEF Ended, IInv
  <1>d. kept' = kept => Kept
    OBVIOUS
  <1>e. ASSUME NEW k \in Kind, k # "plan", NEW x, Out(k, x) \/ Ended(k)
        PROVE  flow'["plan"] = flow["plan"]
    <2>1. CASE Out(k, x)
      <3> DEFINE o == flow[k]
                 r == [o EXCEPT !.out = x]
      <3>1. flow' = [flow EXCEPT ![k] = r]
        BY <2>1 DEF Out
      <3> HIDE DEF r
      <3>2. QED
        BY <1>b, <1>e, <3>1
    <2>2. CASE Ended(k)
      BY <1>b, <1>e, <2>2 DEF Ended
    <2>3. QED
      BY <1>e, <2>1, <2>2
  <1> HIDE DEF Kept
  <1>1. CASE UNCHANGED vars
    BY <1>1, <1>d DEF vars, shelf, Kept
  <1>2. CASE Handle \/ Expire
    <2>1. ASSUME NEW k \in Kind, HandleMe(k) PROVE flow'["plan"] = flow["plan"] /\ kept' = kept
      <3>1. k # "plan"
        BY <2>1 DEF HandleMe, Arrived, IInv, RequestOK, PlacesOf
      <3>2. Out(k, Bearer(flow[k].tok)) /\ kept' = kept
        BY <2>1 DEF HandleMe, Browser, shelf
      <3>3. QED
        BY <1>e, <3>1, <3>2
    <2>2. CASE HandleRegister \/ HandleLogin \/ HandleDelete
      <3>1. kept' = kept /\ \E k \in {"sign", "delete"} : \E x : Out(k, x)
        BY <2>2 DEF HandleRegister, HandleLogin, HandleDelete, Browser, shelf
      <3>2. PICK k \in {"sign", "delete"} : \E x : Out(k, x)
        BY <3>1
      <3>3. k \in Kind /\ k # "plan"
        BY DEF Kind
      <3>4. flow'["plan"] = flow["plan"]
        BY <1>e, <3>2, <3>3
      <3>5. QED
        BY <1>d, <3>1, <3>4 DEF Kept
    <2>3. CASE Expire
      BY <1>d, <2>3 DEF Expire, Browser, shelf, Kept
    <2>4. QED
      BY <1>2, <1>d, <2>1, <2>2, <2>3 DEF Handle, Kept
  <1>3. CASE User
    <2>1. ASSUME NEW k \in Kind, NEW at, NEW who, NEW shown, Begin(k, Request(at, who, shown))
          PROVE  (flow'["plan"] = flow["plan"] /\ kept' = kept) \/ flow'["plan"].out \in {None}
      <3>1. flow' = [flow EXCEPT ![k] = Request(at, who, shown)] /\ kept' = kept
        BY <2>1 DEF Begin, Browser, shelf
      <3>2. CASE k = "plan"
        BY <1>a, <3>1, <3>2 DEF IInv, Request
      <3>3. CASE k # "plan"
        BY <3>1, <3>3
      <3>4. QED
        BY <3>2, <3>3
    <2>2. CASE (\E a \in Account : SignIn(a) \/ SignUp(a)) \/ SaveProfile \/ DeleteAccount \/ Plan
      <3>1. \E k \in Kind : \E at, who, shown : Begin(k, Request(at, who, shown))
        BY <2>2 DEF SignIn, SignUp, SaveProfile, DeleteAccount, Plan, Kind
      <3>2. QED
        BY <1>d, <2>1, <3>1 DEF Kept
    <2>3. CASE SignOut
      BY <1>d, <2>3 DEF SignOut, shelf, Kept
    <2>4. CASE Reload
      <3>1. flow'["plan"] = None
        BY <1>a, <2>4 DEF Reload
      <3>2. QED
        BY <3>1
    <2>5. ASSUME NEW i \in DOMAIN plans, DeletePlan(plans[i])
          PROVE  flow'["plan"] = flow["plan"] /\ Kept
      <3> DEFINE x == plans[i]
                 w == Without(kept, x)
      <3>1. flow' = flow /\ kept' = w
        BY <2>5 DEF DeletePlan
      <3>2. \A k \in DOMAIN w : \E j \in DOMAIN kept : w[k] = kept[j]
        BY WithoutType DEF ShelfInv, IsList
      <3> HIDE DEF w
      <3>3. QED
        BY <3>1, <3>2 DEF Kept
    <2>6. QED
      BY <1>3, <2>2, <2>3, <2>4, <2>5 DEF User, Kept
  <1>4. CASE Continue
    <2>1. ASSUME NEW k \in Kind, ProfileAnswer(k) PROVE flow'["plan"] = flow["plan"] /\ kept' = kept
      BY <1>e, <2>1 DEF ProfileAnswer, shelf
    <2>2. ASSUME NEW k \in Kind, RequestFails(k)
          PROVE  flow'["plan"] = None \/ (flow'["plan"] = flow["plan"] /\ kept' = kept)
      BY <1>c, <1>e, <2>2 DEF RequestFails, Browser, shelf
    <2>3. CASE RegisterAnswer \/ LoginAnswer
      <3>1. (\E r : flow' = [flow EXCEPT !["sign"] = r]) /\ kept' = kept
        BY <2>3 DEF RegisterAnswer, LoginAnswer, Browser, shelf
      <3>2. flow'["plan"] = flow["plan"]
        BY <1>b, <3>1 DEF Kind
      <3>3. QED
        BY <1>d, <3>1, <3>2 DEF Kept
    <2>4. CASE MeAnswer \/ RestoreFails
      <3>1. (Ended("sign") \/ Ended("restore")) /\ kept' = kept
        BY <2>4 DEF MeAnswer, RestoreFails, shelf
      <3>2. flow'["plan"] = flow["plan"]
        BY <1>e, <3>1 DEF Kind
      <3>3. QED
        BY <1>d, <3>1, <3>2 DEF Kept
    <2>5. CASE DeleteAnswer
      <3>1. Ended("delete") /\ kept' = <<>>
        BY <2>5 DEF DeleteAnswer, ClearPlans
      <3>2. flow'["plan"] = flow["plan"]
        BY <1>e, <3>1 DEF Kind
      <3>3. Kept
        BY <3>1 DEF Kept
      <3>4. QED
        BY <3>2, <3>3 DEF Kept
    <2>6. CASE PlanAnswer
      BY <1>c, <2>6 DEF PlanAnswer
    <2>7. QED
      BY <1>4, <1>d, <2>1, <2>2, <2>3, <2>4, <2>5, <2>6 DEF Continue, Kept
  <1>5. QED
    BY <1>1, <1>2, <1>3, <1>4 DEF Next

\* A plan is new when it is made, and made for whose token it was.
LEMMA HandlePlanKeeps ==
  ASSUME IInv, ServerInv, ShelfInv, HandlePlan
  PROVE  PlanFlow'
  <1> DEFINE old == flow["plan"]
  <1>1. PICK x : x = made'
    OBVIOUS
  <1>2. PICK t : t = old.tok
    OBVIOUS
  <1>3. PICK a : a = Bearer(t)
    OBVIOUS
  <1>4. /\ old # None /\ made' = made + 1 /\ Out("plan", x) /\ old.out = None
        /\ onServer' = IF a = None THEN onServer ELSE onServer \cup {<<a, x>>}
        /\ UNCHANGED <<accounts, owner, expired, gone, kept>> /\ "plan" \in Kind
    BY <1>1, <1>2, <1>3 DEF HandlePlan, Arrived, Browser, shelf, Kind
  <1>5. t \in Tokens \cup {None}
    BY <1>2, <1>4 DEF IInv, RequestOK, Tokens
  <1>6. x \in Nat /\ x = made + 1 /\ made \in Nat
    BY <1>1, <1>4, SessionAssumption DEF ServerInv
  <1>7. flow'["plan"].out \notin {None} => flow'["plan"].out = x
    <2> DEFINE r == [old EXCEPT !.out = x]
    <2>1. flow' = [flow EXCEPT !["plan"] = r]
      BY <1>4 DEF Out
    <2>2. r.out = x \/ r.out = old.out
      OBVIOUS
    <2>3. old.out \in {None}
      BY <1>4
    <2> HIDE DEF r, old
    <2>4. flow'["plan"] = r
      BY <1>4, <2>1 DEF IInv
    <2>5. QED
      BY <2>2, <2>3, <2>4
  <1>8. flow'["plan"].tok = t
    <2> DEFINE r == [old EXCEPT !.out = x]
    <2>1. flow' = [flow EXCEPT !["plan"] = r]
      BY <1>4 DEF Out
    <2>2. r.tok = t
      BY <1>2
    <2> HIDE DEF r, old
    <2>3. flow'["plan"] = r
      BY <1>4, <2>1 DEF IInv
    <2>4. QED
      BY <2>2, <2>3
  <1>9. x \in 1..made' /\ \A i \in DOMAIN kept' : kept'[i] # x
    <2>1. kept \in Seq(1..made)
      BY DEF ShelfInv, IsList
    <2>2. \A i \in DOMAIN kept : kept[i] \in 1..made
      <3> DEFINE S == 1..made
      <3>1. kept \in Seq(S)
        BY <2>1
      <3> HIDE DEF S
      <3>2. \A i \in DOMAIN kept : kept[i] \in S
        BY <3>1
      <3>3. QED
        BY <3>2 DEF S
    <2>3. QED
      BY <1>1, <1>4, <1>6, <2>2
  <1>10. \/ t \in Tokens' /\ <<owner'[t], x>> \in onServer'
         \/ t = None \/ t \in expired' \/ owner'[t] \in gone'
    <2>1. Tokens' = Tokens
      BY <1>4 DEF Tokens
    <2>2. CASE a # None
      <3>1. a = owner[t] /\ t # None
        BY <1>3, <2>2 DEF Bearer
      <3>2. t \in Tokens' /\ owner'[t] = a
        BY <1>4, <1>5, <2>1, <3>1
      <3>3. <<a, x>> \in onServer'
        BY <1>4, <2>2
      <3>4. QED
        BY <3>2, <3>3
    <2>3. CASE a = None
      <3>1. None \notin accounts
        BY SessionAssumption DEF IInv
      <3>2. t = None \/ t \in expired \/ owner[t] \notin accounts
        BY <1>3, <2>3, <3>1 DEF Bearer
      <3>3. t = None \/ t \in expired \/ owner[t] \in gone
        BY <1>5, <3>2 DEF ServerInv
      <3>4. QED
        BY <1>4, <3>3
    <2>4. QED
      BY <2>2, <2>3
  <1>11. SUFFICES ASSUME flow'["plan"].out \notin {None}
                  PROVE  /\ Fresh(flow["plan"].out)'
                         /\ OnAccount(flow["plan"].tok, flow["plan"].out)'
    BY DEF PlanFlow
  <1>12. flow'["plan"].out = x
    BY <1>7, <1>11
  <1> HIDE DEF old
  <1>13. Fresh(flow["plan"].out)'
    BY <1>9, <1>12 DEF Fresh
  <1>14. OnAccount(flow["plan"].tok, flow["plan"].out)'
    BY <1>8, <1>10, <1>12 DEF OnAccount
  <1>15. QED
    BY <1>13, <1>14

\* A plan on its way stays in no list, and on the account it was made for.
LEMMA PlanFlowKeeps ==
  ASSUME IInv, ServerInv, ServerInv', ShelfInv, PlanFlow, [Next]_vars
  PROVE  PlanFlow'
  <1>1. CASE flow'["plan"] = None \/ flow'["plan"].out \in {None}
    BY <1>1 DEF PlanFlow
  <1>2. CASE HandlePlan
    BY <1>2, HandlePlanKeeps
  <1>3. CASE /\ flow'["plan"] = flow["plan"]
             /\ \A i \in DOMAIN kept' : \E j \in DOMAIN kept : kept'[i] = kept[j]
    <2>a. PICK t : t = flow["plan"].tok
      OBVIOUS
    <2>b. PICK x : x = flow["plan"].out
      OBVIOUS
    <2>1. SUFFICES ASSUME flow["plan"] # None, x \notin {None}
                   PROVE  Fresh(x)' /\ (flow["plan"].shown => OnAccount(t, x)')
      BY <1>3, <2>a, <2>b DEF PlanFlow, Fresh, OnAccount
    <2>2. Fresh(x) /\ (flow["plan"].shown => OnAccount(t, x))
      BY <2>1, <2>a, <2>b DEF PlanFlow
    <2>3. t \in Tokens \cup {None}
      BY <2>1, <2>a DEF IInv, RequestOK, Tokens, Kind
    <2>4. /\ Handle \/ Expire \/ UNCHANGED server
          /\ made' = made \/ made' = made + 1
      <3>1. CASE Handle \/ Expire
        BY <3>1 DEF Handle, HandleMe, HandleRegister, HandleLogin, HandleDelete, HandlePlan,
                    Expire, server
      <3>2. CASE UNCHANGED server
        BY <3>2 DEF server
      <3>3. CASE User
        BY <3>2, <3>3 DEF User, SignIn, SignUp, SaveProfile, DeleteAccount, SignOut, Plan,
                          Reload, DeletePlan, Begin
      <3>4. CASE Continue
        BY <3>2, <3>4 DEF Continue, ProfileAnswer, RequestFails, RegisterAnswer, LoginAnswer,
                          MeAnswer, DeleteAnswer, PlanAnswer, RestoreFails
      <3>5. QED
        BY <3>1, <3>2, <3>3, <3>4 DEF Next, vars
    <2>5. OnAccount(t, x) => OnAccount(t, x)'
      BY <2>3, <2>4, OnAccountStays
    <2>6. made \in Nat /\ made' \in Nat
      BY SessionAssumption DEF ServerInv
    <2>7. x \in 1..made'
      BY <2>2, <2>4, <2>6 DEF Fresh
    <2>8. Fresh(x)'
      BY <1>3, <2>2, <2>7 DEF Fresh
    <2>9. QED
      BY <2>2, <2>5, <2>8
  <1>4. QED
    BY <1>1, <1>2, <1>3, PlanMoves

-----------------------------------------------------------------------------

\* The invariant holds of an empty browser.
LEMMA InitSInv == Init => SInv
  <1> SUFFICES ASSUME Init PROVE SInv
    OBVIOUS
  <1>1. owner = <<>> /\ expired = {} /\ onServer = {} /\ made = 0 /\ gone = {}
        /\ stored = <<>> /\ plans = <<>> /\ kept = <<>> /\ full = FALSE
        /\ flow = [k \in Kind |-> None] /\ "plan" \in Kind
    BY DEF Init, Kind
  <1>2. ServerInv
    BY <1>1, SessionAssumption DEF ServerInv, Tokens
  <1>3. IsList(<<>>)
    BY SessionAssumption DEF IsList, Distinct
  <1>4. ShelfInv
    BY <1>1, <1>3 DEF ShelfInv, PlansAreKept
  <1>5. FlowTyped /\ PlanFlow
    BY <1>1 DEF FlowTyped, PlanFlow
  <1>6. QED
    BY <1>2, <1>4, <1>5, InitHolds DEF SInv

\* Every step keeps it.
LEMMA StepSInv == SInv /\ [Next]_vars => SInv'
  <1> SUFFICES ASSUME SInv, [Next]_vars PROVE SInv'
    OBVIOUS
  <1> USE DEF SInv
  <1>1. IInv'
    BY StepKeeps
  <1>2. ServerInv'
    <2>1. CASE Handle \/ Expire
      BY <2>1, ServerKeeps
    <2>2. CASE UNCHANGED vars
      BY <2>2, ServerSame DEF vars
    <2>3. CASE User
      BY <2>3, ServerSame DEF User, SignIn, SignUp, SaveProfile, DeleteAccount, SignOut, Plan,
                              Reload, DeletePlan, Begin
    <2>4. CASE Continue
      BY <2>4, ServerSame DEF Continue, ProfileAnswer, RequestFails, RegisterAnswer,
                              LoginAnswer, MeAnswer, DeleteAnswer, PlanAnswer, RestoreFails
    <2>5. QED
      BY <2>1, <2>2, <2>3, <2>4 DEF Next
  <1>3. ShelfInv'
    BY <1>2, ShelfKeeps
  <1>4. FlowTyped'
    <2>1. CASE UNCHANGED vars
      BY <2>1 DEF vars, server, FlowTyped, FlowRecord, Tokens
    <2>2. QED
      BY <2>1, HandleTyped, UserTyped, ContinueTyped DEF Next
  <1>5. PlanFlow'
    BY <1>2, PlanFlowKeeps
  <1>6. QED
    BY <1>1, <1>2, <1>3, <1>4, <1>5

\* It always holds.
LEMMA AlwaysSInv == Spec => []SInv
  BY InitSInv, StepSInv, PTL DEF Spec

\* A list without repetitions is as long as the set of what is in it.
LEMMA LengthOfDistinct ==
  ASSUME NEW S, NEW s \in Seq(S), Distinct(s)
  PROVE  Len(s) = Cardinality(ToSet(s))
  <1> DEFINE D == 1..Len(s)
             f == [i \in D |-> s[i]]
             T == ToSet(s)
  <1>1. Len(s) \in Nat /\ DOMAIN s = D
    OBVIOUS
  <1>2. IsFiniteSet(D) /\ Cardinality(D) = Len(s)
    BY <1>1, FS_Interval
  <1>3. T = {s[i] : i \in D}
    BY <1>1 DEF ToSet
  <1>4. f \in Surjection(D, T) /\ f \in Injection(D, T)
    <2>1. f \in [D -> T] /\ \A y \in T : \E i \in D : f[i] = y
      BY <1>3
    <2>2. \A i, j \in D : f[i] = f[j] => i = j
      BY <1>1 DEF Distinct
    <2> HIDE DEF D, T, f
    <2>3. f \in Injection(D, T)
      BY <2>1, <2>2 DEF Injection, IsInjective
    <2>4. f \in Surjection(D, T)
      BY <2>1 DEF Surjection
    <2>5. QED
      BY <2>3, <2>4
  <1> HIDE DEF D, T, f
  <1>5. Cardinality(T) = Cardinality(D)
    BY <1>2, <1>4, FS_Surjection
  <1>6. QED
    BY <1>2, <1>5 DEF T

\* The session is well typed, and the plans of a signed-out visitor stay where
\* they were put: no list longer than there is room for, none of its plans
\* twice, and what is shown, stored and saved the same as long as localStorage
\* has taken every list.
THEOREM SessionKept == Spec => []Inv
  <1>1. SInv => Inv
    <2> SUFFICES ASSUME SInv PROVE Inv
      OBVIOUS
    <2>1. IInv /\ ServerInv /\ ShelfInv /\ FlowTyped
      BY DEF SInv
    <2>2. /\ accounts \subseteq Account /\ gone \subseteq Account
          /\ owner \in Seq(Account) /\ Len(owner) <= MaxTokens
          /\ expired \subseteq Tokens
          /\ onServer \subseteq Account \X (1..made) /\ made \in 0..MaxMade
          /\ token \in Tokens \cup {None}
          /\ page \in [who : Account \cup {None}, ready : BOOLEAN]
      BY <2>1 DEF IInv, ServerInv
    <2>3. ASSUME NEW s, IsList(s)
          PROVE  s \in Seq(1..made) /\ Len(s) <= MaxPlans /\ Len(s) = Cardinality(ToSet(s))
      BY <2>3, LengthOfDistinct DEF IsList
    <2>4. \A s \in {stored, plans, kept} :
            s \in Seq(1..made) /\ Len(s) <= MaxPlans /\ Len(s) = Cardinality(ToSet(s))
      BY <2>1, <2>3 DEF ShelfInv
    <2>5. full \in BOOLEAN /\ PlansAreKept
      BY <2>1 DEF ShelfInv
    <2>6. \A k \in Kind : flow[k] = None \/
            flow[k] \in [at : {"me", "register", "login", "delete", "plan"},
                         who : Account \cup {None}, shown : BOOLEAN,
                         tok : Tokens \cup {None},
                         out : {None} \cup Account \cup Nat]
      BY <2>1 DEF FlowTyped, FlowRecord
    <2>7. TypeOK
      BY <2>2, <2>4, <2>5, <2>6 DEF TypeOK
    <2>8. QED
      BY <2>5, <2>7 DEF Inv
  <1>2. QED
    BY <1>1, AlwaysSInv, PTL

\* A plan that reaches the page is kept in the browser or is on the account,
\* whatever signed in or out, expired or was deleted while it was made: only
\* the one asked for signed in with a token that was no good, or has not been
\* since, is kept nowhere.
THEOREM LostOnlyThen == Spec => LostOnlyIfRejected
  <1> DEFINE A == PlanAnswer =>
                    LET t == flow["plan"].tok IN
                    \/ Found(flow["plan"].out)
                    \/ flow["plan"].shown /\ (t = None \/ t \in expired \/ owner[t] \in gone)
  <1>1. SInv /\ [Next]_vars => A
    <2> DEFINE t == flow["plan"].tok
               x == flow["plan"].out
    <2> SUFFICES ASSUME SInv, PlanAnswer
                 PROVE  \/ Found(x)
                        \/ flow["plan"].shown /\ (t = None \/ t \in expired \/ owner[t] \in gone)
      OBVIOUS
    <2>1. flow["plan"] # None /\ x \notin {None} /\ made' = made
      BY DEF PlanAnswer, Answered, server
    <2>2. Fresh(x) /\ (flow["plan"].shown => OnAccount(t, x))
      BY <2>1 DEF SInv, PlanFlow
    <2>3. CASE flow["plan"].shown
      <3>1. CASE t \in Tokens /\ <<owner[t], x>> \in onServer
        <4>1. owner[t] \in Account
          BY <3>1 DEF SInv, IInv, Tokens
        <4>2. QED
          BY <3>1, <4>1 DEF Found
      <3>2. QED
        BY <2>2, <2>3, <3>1 DEF OnAccount
    <2>4. CASE ~ flow["plan"].shown
      <3>1. SavePlan(x)
        BY <2>4 DEF PlanAnswer
      <3>2. \E i \in DOMAIN plans' : plans'[i] = x
        BY <2>1, <2>2, <3>1, SaveKeeps DEF SInv
      <3>3. QED
        BY <3>2 DEF Found
    <2>5. QED
      BY <2>3, <2>4
  <1> HIDE DEF A
  <1>2. SInv /\ [Next]_vars => [A]_vars
    BY <1>1
  <1>3. Spec => [][A]_vars
    BY <1>2, AlwaysSInv, PTL DEF Spec
  <1>4. QED
    BY <1>3 DEF LostOnlyIfRejected, A
=============================================================================
