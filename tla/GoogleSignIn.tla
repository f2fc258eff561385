---------------------------- MODULE GoogleSignIn ----------------------------
(***************************************************************************)
(* Signing in with Google (api/google_routes.py, auth/google.py): the rows *)
(* of oauth_login_states, the browser's binding cookie, the callback with  *)
(* its calls to Google in between, and the accounts it matches, creates,   *)
(* promotes and links.                                                     *)
(*                                                                         *)
(* Each browser is one person's.  Google (external) tells, for a state,    *)
(* the identity of the person whose browser started it; an identity is     *)
(* that person, and two of them may be told with the same address.  That   *)
(* the token is well-formed, signed and carries the nonce is abstracted    *)
(* into Google answering or not.  A state's expiry is an action of its     *)
(* own: it may come at any time.                                           *)
(***************************************************************************)
EXTENDS Integers, FiniteSets

CONSTANTS GoPeople,   \* people, each with a browser and a Google identity
          GoMails,    \* e-mail addresses: an account is known by its own
          GoMailOf,   \* [GoPeople -> GoMails]: what Google says of an identity
          GoAdmins,   \* settings.google_admin_emails
          GoStates,   \* the secrets that states and tickets are known by
          MaxPending, \* MAX_PENDING_STATES
          GoNone

ASSUME GoogleAssumption ==
    /\ IsFiniteSet(GoStates) /\ GoAdmins \subseteq GoMails
    /\ GoMailOf \in [GoPeople -> GoMails]
    /\ MaxPending \in Nat \ {0} /\ GoNone \notin GoPeople \cup GoMails \cup GoStates

VARIABLES account,  \* the accounts, by address
          pending,  \* the rows of oauth_login_states
          issued,   \* the secrets handed out so far
          binding,  \* each browser's binding cookie: the state it started last
          cookie,   \* each browser's session: an account, or GoNone
          callback, \* the callbacks in progress, by state
          mine      \* history: who made each account

goVars == <<account, pending, issued, binding, cookie, callback, mine>>

NoAccount == [role |-> "none", disabled |-> FALSE, password |-> FALSE, sub |-> GoNone]
HasAccount(e) == account[e].role # "none"
HasAccess(e) == account[e].role = "admin" /\ ~account[e].disabled

NoState == [intent |-> "none", user |-> GoNone, by |-> GoNone, expired |-> FALSE]

NoCallback == [stage |-> "none", browser |-> GoNone, sub |-> GoNone, user |-> GoNone]

GoInit == /\ account = [e \in GoMails |-> NoAccount]
          /\ pending = [s \in GoStates |-> NoState]
          /\ issued = {}
          /\ binding = [b \in GoPeople |-> GoNone]
          /\ cookie = [b \in GoPeople |-> GoNone]
          /\ callback = [s \in GoStates |-> NoCallback]
          /\ mine = [e \in GoMails |-> GoNone]

\* _active_session_user: the account whose session the browser presents.
ActiveUser(b) == IF cookie[b] # GoNone /\ HasAccess(cookie[b]) THEN cookie[b] ELSE GoNone

-----------------------------------------------------------------------------
(* What the other routes and the operator do: the owner registers, signs   *)
(* in by password, out; an account is disabled.                            *)

RegisterOwner(b, e) ==
    /\ \A f \in GoMails : ~account[f].password
    /\ ~HasAccount(e)
    /\ account' = [account EXCEPT ![e] = [NoAccount EXCEPT !.role = "admin", !.password = TRUE]]
    /\ mine' = [mine EXCEPT ![e] = b]
    /\ UNCHANGED <<pending, issued, binding, cookie, callback>>

PasswordLogin(e) ==
    /\ account[e].password /\ HasAccess(e)
    /\ cookie' = [cookie EXCEPT ![mine[e]] = e]
    /\ UNCHANGED <<account, pending, issued, binding, callback, mine>>

SessionEnds(b) ==
    /\ cookie[b] # GoNone
    /\ cookie' = [cookie EXCEPT ![b] = GoNone]
    /\ UNCHANGED <<account, pending, issued, binding, callback, mine>>

OperatorDisables(e) ==
    /\ HasAccount(e) /\ ~account[e].disabled
    /\ account' = [account EXCEPT ![e].disabled = TRUE]
    /\ UNCHANGED <<pending, issued, binding, cookie, callback, mine>>

-----------------------------------------------------------------------------
(* /link and /start.                                                       *)

GoogleLink(b, s) ==
    /\ ActiveUser(b) # GoNone /\ s \notin issued
    /\ pending' = [pending EXCEPT
                     ![s] = [NoState EXCEPT !.intent = "link_ticket", !.user = cookie[b]]]
    /\ issued' = issued \cup {s}
    /\ UNCHANGED <<account, binding, cookie, callback, mine>>

RowExpires(s) ==
    /\ pending[s] # NoState /\ ~pending[s].expired
    /\ pending' = [pending EXCEPT ![s].expired = TRUE]
    /\ UNCHANGED <<account, issued, binding, cookie, callback, mine>>

Purged == [s \in GoStates |-> IF pending[s].expired THEN NoState ELSE pending[s]]
HasRoom == Cardinality({s \in GoStates : Purged[s] # NoState}) < MaxPending

\* Started: the new row, bound to this browser by the cookie set with it.
Starts(rows, b, s, intent, user) ==
    /\ s \notin issued
    /\ issued' = issued \cup {s}
    /\ pending' = [rows EXCEPT ![s] = [intent |-> intent, user |-> user, by |-> b, expired |-> FALSE]]
    /\ binding' = [binding EXCEPT ![b] = s]

StartLogin(b, s) ==
    /\ HasRoom
    /\ Starts(Purged, b, s, "login", GoNone)
    /\ UNCHANGED <<account, cookie, callback, mine>>

\* The ticket is consumed whether or not the rest agrees.
StartLink(b, ticket, s) ==
    LET consumed == Purged[ticket]
        rows == [Purged EXCEPT ![ticket] = NoState]
        agreed == consumed.intent = "link_ticket" /\ ActiveUser(b) = consumed.user
    IN  /\ HasRoom /\ ticket \in issued
        /\ IF agreed THEN Starts(rows, b, s, "link", consumed.user)
           ELSE /\ pending' = rows
                /\ binding' = [binding EXCEPT ![b] = GoNone]
                /\ UNCHANGED issued
        /\ UNCHANGED <<account, cookie, callback, mine>>

-----------------------------------------------------------------------------
(* The callback.  _consume_state deletes the row and commits; then come    *)
(* the checks, the calls to Google, and _login or _link.                   *)

BoundToAnyone(b, s) == TRUE  \* mutant: the binding cookie is not compared
BoundTo(b, s) == binding[b] = s

Acceptable(b, s) == /\ pending[s].intent \in {"login", "link"}
                    /\ ~pending[s].expired
                    /\ BoundTo(b, s)

\* The address may be opened in a browser other than the one that started it.
\* It may come again: nothing is found then.  Every refusal redirects to the
\* web app and deletes the binding cookie.
GoogleCallback(b, s) ==
    /\ s \in issued
    /\ pending' = [pending EXCEPT ![s] = NoState]
    /\ IF Acceptable(b, s)
       THEN /\ callback' = [callback EXCEPT
                              ![s] = [stage   |-> pending[s].intent, browser |-> b,
                                      sub |-> pending[s].by, user |-> pending[s].user]]
            /\ UNCHANGED binding
       ELSE /\ binding' = [binding EXCEPT ![b] = GoNone]
            /\ UNCHANGED callback
    /\ UNCHANGED <<account, issued, cookie, mine>>

Ends(s) == /\ callback' = [callback EXCEPT ![s] = NoCallback]
           /\ binding' = [binding EXCEPT ![callback[s].browser] = GoNone]

\* Google refuses, or does not answer, or the request is dropped.
CallbackFails(s) ==
    /\ callback[s] # NoCallback
    /\ Ends(s)
    /\ UNCHANGED <<account, pending, issued, cookie, mine>>

OfSub(sub) == {e \in GoMails : HasAccount(e) /\ account[e].sub = sub}
RoleFor(e) == IF e \in GoAdmins THEN "admin" ELSE "pending"

Matches(sub) == OfSub(sub)

\* A known identity: the role is raised, never lowered, and a disabled account
\* is left alone.
LoginMatches(s) ==
    LET sub == callback[s].sub IN
    /\ callback[s].stage = "login"
    /\ \E e \in {f \in Matches(sub) : HasAccount(f)} :
         IF account[e].disabled
         THEN Ends(s) /\ UNCHANGED account
         ELSE LET raised == IF GoMailOf[sub] \in GoAdmins THEN "admin" ELSE account[e].role
              IN  /\ account' = [account EXCEPT ![e].role = raised]
                  /\ IF raised = "admin"
                     THEN /\ callback' = [callback EXCEPT ![s].stage = "session", ![s].user = e]
                          /\ UNCHANGED binding
                     ELSE Ends(s)
    /\ UNCHANGED <<pending, issued, cookie, mine>>

\* An unknown one: an address that is taken is not, otherwise an account is to
\* be made.
LoginUnknown(s) ==
    /\ callback[s].stage = "login"
    /\ \A e \in Matches(callback[s].sub) : ~HasAccount(e)
    /\ IF HasAccount(GoMailOf[callback[s].sub])
       THEN Ends(s)
       ELSE /\ callback' = [callback EXCEPT ![s].stage = "create"]
            /\ UNCHANGED binding
    /\ UNCHANGED <<account, pending, issued, cookie, mine>>

\* users.google_sub and users.email are unique columns.
UniqueSub(e, sub) == OfSub(sub) \subseteq {e}

LoginCreates(s) ==
    LET sub == callback[s].sub
        e == GoMailOf[sub]
    IN  /\ callback[s].stage = "create"
        /\ IF HasAccount(e) \/ ~UniqueSub(e, sub)
           THEN Ends(s) /\ UNCHANGED <<account, mine>>
           ELSE /\ account' = [account EXCEPT
                                 ![e] = [NoAccount EXCEPT !.role = RoleFor(e), !.sub = sub]]
                /\ mine' = [mine EXCEPT ![e] = sub]
                /\ IF RoleFor(e) = "admin"
                   THEN /\ callback' = [callback EXCEPT ![s].stage = "session", ![s].user = e]
                        /\ UNCHANGED binding
                   ELSE Ends(s)
        /\ UNCHANGED <<pending, issued, cookie>>

IssueSession(s) ==
    /\ callback[s].stage = "session"
    /\ cookie' = [cookie EXCEPT ![callback[s].browser] = callback[s].user]
    /\ Ends(s)
    /\ UNCHANGED <<account, pending, issued, mine>>

LinkChecks(s) ==
    LET e == callback[s].user
        sub == callback[s].sub
        goesOn == /\ ActiveUser(callback[s].browser) = e
                  /\ account[e].sub = GoNone /\ OfSub(sub) = {}
    IN  /\ callback[s].stage = "link"
        /\ IF goesOn THEN callback' = [callback EXCEPT ![s].stage = "linking"] /\ UNCHANGED binding
           ELSE Ends(s)
        /\ UNCHANGED <<account, pending, issued, cookie, mine>>

LinkWrites(s) ==
    LET e == callback[s].user IN
    /\ callback[s].stage = "linking"
    /\ account' = IF UniqueSub(e, callback[s].sub)
                  THEN [account EXCEPT ![e].sub = callback[s].sub] ELSE account
    /\ Ends(s)
    /\ UNCHANGED <<pending, issued, cookie, mine>>

GoNext == \/ \E e \in GoMails : \/ \E b \in GoPeople : RegisterOwner(b, e)
                                \/ PasswordLogin(e) \/ OperatorDisables(e)
          \/ \E b \in GoPeople, s \in GoStates :
                \/ GoogleLink(b, s) \/ StartLogin(b, s) \/ GoogleCallback(b, s)
                \/ \E t \in GoStates : StartLink(b, t, s)
          \/ \E b \in GoPeople : SessionEnds(b)
          \/ \E s \in GoStates : \/ RowExpires(s) \/ CallbackFails(s)
                                 \/ LoginMatches(s) \/ LoginUnknown(s) \/ LoginCreates(s)
                                 \/ IssueSession(s) \/ LinkChecks(s) \/ LinkWrites(s)

GoSpec == GoInit /\ [][GoNext]_goVars

-----------------------------------------------------------------------------
\* Types of the sign-in's state.
GoogleTypeOK ==
    /\ account \in [GoMails -> [role : {"none", "pending", "admin"}, disabled : BOOLEAN,
                                password : BOOLEAN, sub : GoPeople \cup {GoNone}]]
    /\ pending \in [GoStates -> [intent : {"none", "login", "link", "link_ticket"},
                                 user : GoMails \cup {GoNone}, by : GoPeople \cup {GoNone},
                                 expired : BOOLEAN]]
    /\ issued \subseteq GoStates
    /\ binding \in [GoPeople -> GoStates \cup {GoNone}]
    /\ cookie \in [GoPeople -> GoMails \cup {GoNone}]
    /\ callback \in [GoStates -> [stage : {"none", "login", "link", "create", "linking", "session"},
                                  browser : GoPeople \cup {GoNone}, sub : GoPeople \cup {GoNone},
                                  user : GoMails \cup {GoNone}]]
    /\ mine \in [GoMails -> GoPeople \cup {GoNone}]

\* A browser is only ever signed in to an account its own person made: not by
\* a callback opened in another browser, not by an address that two identities
\* share, not by a link another account asked for.
SignedInAsOwn == \A b \in GoPeople : cookie[b] # GoNone => mine[cookie[b]] = b
=============================================================================
