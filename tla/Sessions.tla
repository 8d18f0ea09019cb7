------------------------------- MODULE Sessions -------------------------------
(***************************************************************************)
(* Who is signed in: a user's row in Postgres, what each replica's         *)
(* requireRole() remembers of it for 30 s (auth/rbac.ts), the sign-in,     *)
(* refresh and change of password of routes/auth.ts, an administrator's    *)
(* edits (routes/users.ts, routes/security.ts), and one browser tab that   *)
(* holds a token (frontend api.ts, App.tsx, Login.tsx, SecurityGate.tsx).  *)
(*                                                                         *)
(* A request is the list of statements its handler has left; when the list *)
(* is empty its answer is on the way.  Time is counted in seconds, the     *)
(* unit of a token's iat.                                                  *)
(***************************************************************************)
EXTENDS Naturals, FiniteSets, Sequences

CONSTANTS
    Replica,
    Request,   \* the requests that may be under way at a time
    KindsOf,   \* KindsOf[q]: what request q may be
    Edits,     \* what an administrator may do
    SignedIn,  \* the tab has a token to begin with
    None,
    Limit,     \* lockout_threshold when it is set
    LockTime,  \* lockout_minutes
    MaxTime, MaxEvents

VARIABLES
    user,      \* the users row, or None
    policy,    \* security_settings.lockout_threshold
    cache,     \* cache[r]: authCache at replica r, None when not cached
    limits,    \* limits[r]: the policy cached at r
    req,       \* req[q]: None, or the request
    admin,     \* the administrator's call: where, and the statements left
    tab,       \* the browser: its token, the page it shows, how often it was loaded
    now,
    cuts,      \* how often token_valid_after was set
    failures,  \* sign-ins refused for the password since the last that succeeded
    mixed,     \* sign-ins ran beside each other or beside an edit
    events     \* edits, and what went wrong

counts == <<cuts, failures, mixed, events>>
vars == <<user, policy, cache, limits, req, admin, tab, now, counts>>

Token == [iat : 0..MaxTime, gen : Nat]
View(u) == IF u = None THEN None ELSE [enabled |-> u.enabled, role |-> u.role, after |-> u.after]

Init ==
    /\ user = [enabled |-> TRUE, role |-> "netadmin", after |-> 0, must |-> TRUE,
               failed |-> 0, until |-> 0]
    /\ policy = Limit
    /\ cache = [r \in Replica |-> None] /\ limits = [r \in Replica |-> None]
    /\ req = [q \in Request |-> None]
    /\ admin = [at |-> None, todo |-> << >>]
    /\ tab = [token |-> IF SignedIn THEN [iat |-> 0, gen |-> 0] ELSE None,
              page |-> IF SignedIn THEN "gate" ELSE "login", load |-> 0]
    /\ now = 0 /\ cuts = 0 /\ failures = 0 /\ mixed = FALSE
    /\ events = 0

-----------------------------------------------------------------------------
\* Sign-ins of the tab, and from another browser.
SignIns == {"login", "elsewhere"}

Work(kind) ==
    CASE kind = "poll" -> <<"auth">>
      [] kind = "me" -> <<"auth", "profile">>
      [] kind = "refresh" -> <<"auth", "reread">>
      [] kind = "change" -> <<"auth", "compare", "update", "bust", "fresh">>
      [] kind \in SignIns -> <<"user", "policy", "verify">>

\* The pages that send a request of a kind: every query and the refresh timer go on as
\* long as there is a token, whatever the page.
MaySend(kind) ==
    CASE kind \in {"poll", "refresh"} -> tab.token # None
      [] kind = "me" -> tab.token # None /\ tab.page \in {"loading", "signing"}
      [] kind = "change" -> tab.token # None /\ tab.page = "gate"
      [] kind = "login" -> tab.token = None /\ tab.page = "login"
      [] kind = "elsewhere" -> TRUE

Happens == events < MaxEvents /\ events' = events + 1
SignIn(q) == req[q] # None /\ req[q].kind \in SignIns /\ req[q].todo # << >>

\* fetch(): the request carries the token of the moment; `right` is whether the password
\* in it is the user's.
Send(q, kind, r, right) ==
    /\ req[q] = None
    /\ kind \in KindsOf[q]
    /\ MaySend(kind)
    /\ IF kind = "change" /\ ~right THEN Happens ELSE UNCHANGED events
    /\ kind \in SignIns \cup {"change"} \/ right
    /\ req' = [req EXCEPT ![q] = [kind |-> kind, right |-> right, at |-> r,
                                  token |-> IF kind \in SignIns THEN None ELSE tab.token,
                                  load |-> tab.load, todo |-> Work(kind), seen |-> None,
                                  limit |-> 0, status |-> 200]]
    /\ mixed' = (mixed \/ (kind \in SignIns /\ (admin.todo # << >> \/ \E p \in Request : SignIn(p))))
    /\ UNCHANGED <<user, policy, cache, limits, admin, tab, now, cuts, failures>>

At(q, op) == req[q] # None /\ req[q].todo # << >> /\ Head(req[q].todo) = op
To(q, todo, status) == [req[q] EXCEPT !.todo = todo, !.status = status]
\* An answer no longer tells where it was made.
Move(q, request) ==
    req' = [req EXCEPT ![q] = IF request.todo # << >> THEN request
                              ELSE [request EXCEPT !.at = None, !.right = TRUE]]
Done(q) == To(q, Tail(req[q].todo), 200)
End(q, status) == [To(q, << >>, status) EXCEPT !.seen = None, !.limit = 0]

\* Mutant: a token of the second of the cutoff is refused with the older ones.
RevokedLate(token, view) == token.iat <= view.after

\* "compare at second resolution so a token minted in the same second as the cutoff
\* isn't spuriously revoked"
Revoked(token, view) == token.iat < view.after

Admits(view, token) == view # None /\ view.enabled /\ ~Revoked(token, view)

Judged(q, view) ==
    IF view = None \/ ~view.enabled THEN End(q, 401)
    ELSE IF Revoked(req[q].token, view) THEN [End(q, 401) EXCEPT !.seen = "revoked"]
    ELSE [Done(q) EXCEPT !.seen = None]

\* liveUser(), up to its await.
Authenticate(q) ==
    /\ At(q, "auth")
    /\ LET hit == cache[req[q].at]
       IN  IF hit # None THEN Move(q, Judged(q, hit))
           ELSE Move(q, [To(q, <<"cached">> \o Tail(req[q].todo), 200) EXCEPT !.seen = <<View(user)>>])
    /\ UNCHANGED <<user, policy, cache, limits, admin, tab, now, counts>>

\* The row that was read is cached however long ago that was, and judged by.  No row
\* and no entry are one value here: a user that was deleted does not come back.
KeepView(q) ==
    /\ At(q, "cached")
    /\ LET view == req[q].seen[1]
       IN  /\ cache' = [cache EXCEPT ![req[q].at] = view]
           /\ Move(q, Judged(q, view))
    /\ UNCHANGED <<user, policy, limits, admin, tab, now, counts>>

\* GET /api/auth/me: whether the password has to be changed, as far as there is a row.
Profile(q) ==
    /\ At(q, "profile")
    /\ Move(q, [Done(q) EXCEPT !.seen = IF user # None /\ user.must THEN "gate" ELSE "app"])
    /\ UNCHANGED <<user, policy, cache, limits, admin, tab, now, counts>>

\* POST /api/auth/refresh
Reread(q) ==
    /\ At(q, "reread")
    /\ Move(q, IF user # None /\ user.enabled
                 THEN [Done(q) EXCEPT !.token = [iat |-> now, gen |-> cuts]]
                 ELSE End(q, 401))
    /\ UNCHANGED <<user, policy, cache, limits, admin, tab, now, counts>>

\* POST /api/auth/change-password: a wrong current password is a 401 as well, a new one
\* that the policy refuses a 400.  A user deleted meanwhile makes the handler throw.
Compare(q, allowed) ==
    /\ At(q, "compare")
    /\ Move(q, CASE user = None -> End(q, 500)
                 [] user # None /\ ~req[q].right -> End(q, 401)
                 [] user # None /\ req[q].right -> IF allowed THEN Done(q) ELSE End(q, 400))
    /\ UNCHANGED <<user, policy, cache, limits, admin, tab, now, cuts, failures, mixed, events>>

Update(q) ==
    /\ At(q, "update")
    /\ user' = IF user = None THEN None ELSE [user EXCEPT !.must = FALSE, !.after = now]
    /\ cuts' = cuts + 1
    /\ Move(q, Done(q))
    /\ UNCHANGED <<policy, cache, limits, admin, tab, now, failures, mixed, events>>

\* bustAuthCache(), of this process only.
Bust(q) ==
    /\ At(q, "bust")
    /\ cache' = [cache EXCEPT ![req[q].at] = None]
    /\ Move(q, Done(q))
    /\ UNCHANGED <<user, policy, limits, admin, tab, now, counts>>

\* The fresh token is signed after the audit entry is written.
SignFresh(q) ==
    /\ At(q, "fresh")
    /\ Move(q, [Done(q) EXCEPT !.token = [iat |-> now, gen |-> cuts]])
    /\ UNCHANGED <<user, policy, cache, limits, admin, tab, now, counts>>

-----------------------------------------------------------------------------
\* POST /api/auth/login: the row, as it is now.
ReadUser(q) ==
    /\ At(q, "user")
    /\ Move(q, [Done(q) EXCEPT !.seen = IF user # None /\ user.enabled THEN <<user>> ELSE << >>])
    /\ UNCHANGED <<user, policy, cache, limits, admin, tab, now, counts>>

Locked(q) == req[q].seen # << >> /\ req[q].seen[1].until > now
Checked(q, limit) ==
    IF Locked(q) THEN End(q, 423) ELSE [Done(q) EXCEPT !.limit = limit]

\* getPolicy(): from the cache, or read and then cached.
AskPolicy(q) ==
    /\ At(q, "policy")
    /\ LET hit == limits[req[q].at]
       IN  Move(q, IF hit # None THEN Checked(q, hit)
                   ELSE [To(q, <<"limits">> \o Tail(req[q].todo), 200) EXCEPT !.limit = policy])
    /\ UNCHANGED <<user, policy, cache, limits, admin, tab, now, counts>>

KeepPolicy(q) ==
    /\ At(q, "limits")
    /\ limits' = [limits EXCEPT ![req[q].at] = req[q].limit]
    /\ Move(q, Checked(q, req[q].limit))
    /\ UNCHANGED <<user, policy, cache, admin, tab, now, counts>>

\* bcrypt: what is wrong is counted, what is right clears the count.
Verify(q) ==
    /\ At(q, "verify")
    /\ LET known == req[q].seen # << >>
           counted == known /\ ~req[q].right /\ req[q].limit > 0
       IN  /\ Move(q, IF known /\ req[q].right THEN [To(q, <<"clear">>, 200) EXCEPT !.seen = None]
                      ELSE IF counted THEN To(q, <<"count">>, 401) ELSE End(q, 401))
           /\ failures' = IF counted /\ user # None THEN failures + 1 ELSE failures
    /\ UNCHANGED <<user, policy, cache, limits, admin, tab, now, cuts, mixed, events>>

\* Mutant: one failure more than the limit locks the account.
CountLate(q) ==
    /\ At(q, "count")
    /\ LET n == req[q].seen[1].failed + 1
       IN  user' = IF user = None THEN None
                   ELSE [user EXCEPT !.failed = n, !.until = IF n > req[q].limit THEN now + LockTime ELSE @]
    /\ Move(q, End(q, 401))
    /\ UNCHANGED <<policy, cache, limits, admin, tab, now, counts>>

\* One more than the row said when the request came.
Count(q) ==
    /\ At(q, "count")
    /\ LET n == req[q].seen[1].failed + 1
       IN  user' = IF user = None THEN None
                   ELSE [user EXCEPT !.failed = n, !.until = IF n >= req[q].limit THEN now + LockTime ELSE @]
    /\ Move(q, End(q, 401))
    /\ UNCHANGED <<policy, cache, limits, admin, tab, now, counts>>

\* A password that is too old has to be changed.
Clear(q, expired) ==
    /\ At(q, "clear")
    /\ user' = IF user = None THEN None
               ELSE [user EXCEPT !.failed = 0, !.until = 0, !.must = @ \/ expired]
    /\ failures' = 0
    /\ Move(q, [End(q, 200) EXCEPT !.token = [iat |-> now, gen |-> cuts]])
    /\ UNCHANGED <<policy, cache, limits, admin, tab, now, cuts, mixed, events>>

-----------------------------------------------------------------------------
\* The tab.  What was asked for before the page was last loaded has no one to come to.
Idle(q) == [req EXCEPT ![q] = None]
Gone(q) == req[q].kind = "elsewhere" \/ req[q].load # tab.load
Reloaded == [token |-> None, page |-> "login", load |-> tab.load + 1]
Settled(q) == req[q] # None /\ req[q].todo = << >>

\* api(): any 401 but that of a sign-in forgets the token and loads the page anew,
\* whichever token the request carried.
Rejected(q) ==
    /\ req[q].status = 401 /\ req[q].kind # "login"
    /\ tab' = Reloaded

\* Other errors are shown; App's own request for the profile takes any error for the
\* end of the session.
Failed(q) ==
    /\ req[q].status # 200 /\ (req[q].status = 401 => req[q].kind = "login")
    /\ tab' = IF req[q].kind = "me" /\ tab.page = "loading"
                THEN [tab EXCEPT !.token = None, !.page = "login"] ELSE tab

\* refresh, change of password and sign-in bring a token; the profile says which page.
Accepted(q) ==
    /\ req[q].status = 200
    /\ tab' = CASE req[q].kind = "poll" -> tab
                [] req[q].kind = "refresh" -> [tab EXCEPT !.token = req[q].token]
                [] req[q].kind = "change" -> [tab EXCEPT !.token = req[q].token, !.page = "loading"]
                [] req[q].kind = "login" -> [tab EXCEPT !.token = req[q].token, !.page = "signing"]
                [] req[q].kind = "me" ->
                     IF tab.page \notin {"loading", "signing"} THEN tab
                     ELSE [tab EXCEPT !.page = req[q].seen]

Arrives(q) ==
    /\ Settled(q)
    /\ req' = Idle(q)
    /\ IF Gone(q) THEN UNCHANGED tab ELSE Rejected(q) \/ Failed(q) \/ Accepted(q)
    /\ UNCHANGED <<user, policy, cache, limits, admin, now, counts>>

\* An answer is lost on its way.
Lost(q) ==
    /\ Settled(q) /\ Happens
    /\ req' = Idle(q)
    /\ tab' = IF ~Gone(q) /\ req[q].kind = "me"
                THEN IF tab.page = "loading" THEN [tab EXCEPT !.token = None, !.page = "login"]
                     ELSE [tab EXCEPT !.page = IF @ = "signing" THEN "login" ELSE @]
                ELSE tab
    /\ UNCHANGED <<user, policy, cache, limits, admin, now, cuts, failures, mixed>>

\* Sign out: nothing is loaded anew, and requests under way still come back.
SignOut ==
    /\ tab.page \in {"gate", "app"} /\ Happens
    /\ tab' = [tab EXCEPT !.token = None, !.page = "login"]
    /\ UNCHANGED <<user, policy, cache, limits, req, admin, now, cuts, failures, mixed>>

\* The page is loaded, with the token localStorage has.
Reload ==
    /\ Happens
    /\ tab.token # None
    /\ tab' = [tab EXCEPT !.load = @ + 1, !.page = "loading"]
    /\ UNCHANGED <<user, policy, cache, limits, req, admin, now, cuts, failures, mixed>>

-----------------------------------------------------------------------------
\* What an administrator's calls consist of.  A PATCH that the policy refuses the password
\* of has stored the role and the flag by then and goes no further.
EditWork(edit) ==
    CASE edit = "demote" -> <<"role", "cutoff", "bust">>
      [] edit = "disable" -> <<"disable", "cutoff", "bust">>
      [] edit = "enable" -> <<"enable", "bust">>
      [] edit = "reset" -> <<"reset", "cutoff", "bust">>
      [] edit = "demote, refused" -> <<"role">>
      [] edit = "delete" -> <<"delete">>
      [] edit = "unlock" -> <<"unlock">>
      [] edit = "policy" -> <<"policy", "limits">>

StartEdit(edit, r) ==
    /\ admin.todo = << >> /\ Happens /\ user # None
    /\ admin' = [at |-> r, todo |-> EditWork(edit)]
    /\ mixed' = (mixed \/ \E q \in Request : SignIn(q))
    /\ UNCHANGED <<user, policy, cache, limits, req, tab, now, cuts, failures>>

NextEdit(op) == admin.todo # << >> /\ Head(admin.todo) = op /\ admin' = [admin EXCEPT !.todo = Tail(@)]

Edited(op) ==
    CASE op = "role" -> [user EXCEPT !.role = "readonly"]
      [] op = "disable" -> [user EXCEPT !.enabled = FALSE]
      [] op = "enable" -> [user EXCEPT !.enabled = TRUE]
      [] op = "reset" -> [user EXCEPT !.must = TRUE]
      [] op = "cutoff" -> [user EXCEPT !.after = now]
      [] op = "delete" -> None
      [] op = "unlock" -> [user EXCEPT !.failed = 0, !.until = 0]

EditUser(op) ==
    /\ NextEdit(op)
    /\ user' = Edited(op)
    /\ cuts' = IF op = "cutoff" THEN cuts + 1 ELSE cuts
    /\ failures' = IF op = "unlock" THEN 0 ELSE failures
    /\ UNCHANGED <<policy, cache, limits, req, tab, now, mixed, events>>

EditPolicy ==
    /\ NextEdit("policy")
    /\ policy' = IF policy = 0 THEN Limit ELSE 0
    /\ UNCHANGED <<user, cache, limits, req, tab, now, counts>>

\* bustAuthCache() and invalidatePolicyCache(): the administrator's replica forgets.
Forget ==
    /\ \/ NextEdit("bust") /\ cache' = [cache EXCEPT ![admin.at] = None] /\ UNCHANGED limits
       \/ NextEdit("limits") /\ limits' = [limits EXCEPT ![admin.at] = None] /\ UNCHANGED cache
    /\ UNCHANGED <<user, policy, req, tab, now, counts>>

\* Mutant: the age of an entry counts from when it was last asked for, so that it is
\* forgotten only when nobody comes.
ExpireUnused(r) ==
    /\ cache[r] # None /\ tab.token = None
    /\ cache' = [cache EXCEPT ![r] = None]
    /\ UNCHANGED <<user, policy, limits, req, admin, tab, now, counts>>

\* AUTH_CACHE_TTL_MS, CACHE_TTL_MS: counted from when the answer was cached.
Expire(r) ==
    /\ cache[r] # None
    /\ cache' = [cache EXCEPT ![r] = None]
    /\ UNCHANGED <<user, policy, limits, req, admin, tab, now, counts>>

ExpirePolicy(r) ==
    /\ limits[r] # None
    /\ limits' = [limits EXCEPT ![r] = None]
    /\ UNCHANGED <<user, policy, cache, req, admin, tab, now, counts>>

Tick ==
    /\ now < MaxTime /\ now' = now + 1
    /\ UNCHANGED <<user, policy, cache, limits, req, admin, tab, counts>>

Handle(q) ==
    \/ Authenticate(q) \/ KeepView(q) \/ Profile(q) \/ Reread(q) \/ Update(q) \/ Bust(q) \/ SignFresh(q)
    \/ \E allowed \in BOOLEAN : Compare(q, allowed)
    \/ ReadUser(q) \/ AskPolicy(q) \/ KeepPolicy(q) \/ Verify(q) \/ Count(q)
    \/ \E expired \in BOOLEAN : Clear(q, expired)

UserOps == {"role", "disable", "enable", "reset", "cutoff", "delete", "unlock"}
Administer == (\E op \in UserOps : EditUser(op)) \/ EditPolicy \/ Forget

Next ==
    \/ \E q \in Request :
         \/ \E kind \in KindsOf[q], r \in Replica, right \in BOOLEAN :
              Send(q, kind, r, right)
         \/ Handle(q) \/ Arrives(q) \/ Lost(q)
    \/ SignOut \/ Reload
    \/ \E edit \in Edits, r \in Replica : StartEdit(edit, r)
    \/ Administer \/ Tick
    \/ \E r \in Replica : Expire(r) \/ ExpirePolicy(r)

Spec == Init /\ [][Next]_vars

\* Statements are answered, requests come back, the refresh timer and the page's own
\* requests go on, and what is cached grows old.
Fairness ==
    /\ \A q \in Request :
         /\ WF_vars(Handle(q) \/ Arrives(q))
         /\ WF_vars(\E r \in Replica : Send(q, "refresh", r, TRUE))
    /\ WF_vars(Administer)
    /\ \A r \in Replica : WF_vars(Expire(r)) /\ WF_vars(ExpirePolicy(r))

FairSpec == Spec /\ Fairness

-----------------------------------------------------------------------------
TypeOK ==
    /\ user # None => user.after <= now /\ user.failed \in Nat
    /\ cuts \in Nat
    /\ policy \in {0, Limit}
    /\ \A r \in DOMAIN limits : limits[r] \in {None, 0, Limit}
    /\ tab.token # None => tab.token \in Token
    /\ tab.page \in {"login", "signing", "loading", "gate", "app"}
    /\ tab.token = None => tab.page = "login"

\* "so a token minted in the same second as the cutoff isn't spuriously revoked": what is
\* refused as revoked was signed before the last cutoff, whatever a replica remembers.
FreshTokenWorks ==
    \A q \in Request : Settled(q) /\ req[q].seen = "revoked" => req[q].token.gen < cuts

\* While sign-ins do not run beside each other, what was refused for its password is
\* counted until one succeeds, and the account is locked when the limit is reached and
\* not before.
LocksMatchFailures ==
    ~mixed /\ user # None /\ (\A q \in Request : ~SignIn(q)) =>
        /\ user.failed = failures
        /\ (failures >= Limit) = (user.until # 0)

\* Whatever look-up or answer an edit overtakes: in the end the replicas judge by the row
\* as it is, and the tab has no token that the row no longer admits.
SessionsFollow ==
    <>[](/\ \A r \in DOMAIN cache : cache[r] \in {None, View(user)}
         /\ tab.token # None => Admits(View(user), tab.token))

\* The same of the policy that sign-ins are counted by.
LimitsFollow == <>[](\A r \in DOMAIN limits : limits[r] \in {None, policy})
=============================================================================
