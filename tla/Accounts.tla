------------------------------ MODULE Accounts ------------------------------
(***************************************************************************)
(* Members of yorr and their sessions: social login (auth), the profile    *)
(* and the session store (user).                                           *)
(*                                                                         *)
(* Accounts live in SQLite (users, linked), sessions in the store of the   *)
(* process (session, index, codes).  A request is a flow: one step per     *)
(* statement, transaction or group of store commands on keys that nobody   *)
(* else touches in between.  The pool has one connection and one lock that *)
(* every statement and every transaction holds to its end                  *)
(* (infra/sqlite.ts), so that a transaction is a single step: it commits,  *)
(* or it leaves no trace.  With several flows the steps of requests        *)
(* interleave, which is what the ports allow and what the comments in the  *)
(* code guard against; in the shipped build only the calls of the provider *)
(* yield to other requests.                                                *)
(*                                                                         *)
(* Left out: guests, the OAuth state, pictures, the room fields of a       *)
(* session (QuickMatch has them) and the expiry of sessions and codes,     *)
(* which to these handlers is a login that nobody uses any more.           *)
(***************************************************************************)
EXTENDS Naturals

CONSTANTS
    People,       \* accounts at the providers: (provider, provider_user_id)
    Ids,          \* user ids
    Names,        \* nicknames, Placeholder among them
    Placeholder,  \* PLACEHOLDER_NICKNAME: the provider gave no name
    NoName,       \* no row in users, no session hash
    Nobody,       \* no user id
    Flows,        \* requests that may be under way together
    MaxRequests,  \* bound on logins, renames, logouts and games, which are numbered
    MaxFaults     \* bound on failures of the database and on restarts

ASSUME NamesAssumption ==
    /\ Placeholder \in Names
    /\ NoName \notin Names
    /\ Nobody \notin Ids
    /\ MaxRequests \in Nat
    /\ MaxFaults \in Nat

VARIABLES
    users,    \* users: nickname of each id, or NoName
    linked,   \* social_accounts: the id of each person, or Nobody
    session,  \* user:{id}: nickname and the number whose hash is stored, 0 for none
    index,    \* user:token:{hash}: the id a token leads to, or Nobody
    codes,    \* auth:login-code: logins whose code waits for its exchange
    held,     \* tokens that pages hold
    flow,     \* the frame of each request
    requests, \* logins, renames, logouts and games begun
    faults,   \* failures and restarts so far
    had       \* history: the names each row has had

store == <<session, index, codes>>
accountVars == <<users, linked, session, index, codes, held, flow, requests, faults, had>>

Tokens == 1 .. MaxRequests

Steps == {"idle", "find", "register", "recover", "adopt", "open",
          "rename", "show", "unhash"}

Frames == [pc : Steps, person : People \cup {Nobody}, id : Ids \cup {Nobody},
           name : Names \cup {NoName}, token : 0 .. MaxRequests]

Idle == [pc |-> "idle", person |-> Nobody, id |-> Nobody, name |-> NoName, token |-> 0]

NoSession == [name |-> NoName, token |-> 0]

AccountsInit ==
    /\ users = [u \in Ids |-> NoName]
    /\ linked = [p \in People |-> Nobody]
    /\ session = [u \in Ids |-> NoSession]
    /\ index = [t \in Tokens |-> Nobody]
    /\ codes = {}
    /\ held = {}
    /\ flow = [f \in Flows |-> Idle]
    /\ requests = 0
    /\ faults = 0
    /\ had = [u \in Ids |-> {}]

-----------------------------------------------------------------------------
\* authenticateSession: the index leads to a hash that stores this very token.
Live(t) == /\ index[t] # Nobody
           /\ session[index[t]].token = t

At(f, pc) == flow[f].pc = pc

Goto(f, frame) == flow' = [flow EXCEPT ![f] = frame]

\* The login goes on to open the session of u under the name n.
GotoOpen(f, u, n) == Goto(f, [flow[f] EXCEPT !.pc = "open", !.id = u, !.name = n])

\* The bound on what users begin.
Count == requests < MaxRequests /\ requests' = requests + 1

WriteName(u, n) ==
    /\ users' = [users EXCEPT ![u] = n]
    /\ had' = [had EXCEPT ![u] = @ \cup {n}]

-----------------------------------------------------------------------------
(* Login: GET /auth/{provider}/callback, after the state was consumed and    *)
(* the provider has answered.                                                *)

\* The provider vouches for p and calls them n.
SignIn(f, p, n) ==
    /\ At(f, "idle")
    /\ Count
    /\ Goto(f, [Idle EXCEPT !.pc = "find", !.person = p, !.name = n, !.token = requests + 1])
    /\ UNCHANGED <<users, linked, store, held, faults, had>>

\* loginOrRegister: who is linked to the person decides what follows.
Find(f) ==
    LET who == linked[flow[f].person]
        unnamed == users[who] = Placeholder /\ flow[f].name # Placeholder
    IN  /\ At(f, "find")
        /\ \/ who = Nobody /\ Goto(f, [flow[f] EXCEPT !.pc = "register"])
           \/ who # Nobody /\ unnamed /\ Goto(f, [flow[f] EXCEPT !.pc = "adopt", !.id = who])
           \/ who # Nobody /\ ~unnamed /\ GotoOpen(f, who, users[who])
        /\ UNCHANGED <<users, linked, store, held, requests, faults, had>>

\* UNIQUE (provider, provider_user_id)
NeverTwice(p) == TRUE   \* mutant: the table has no such constraint
Unlinked(p) == linked[p] = Nobody

\* register: member and link in one transaction.  The link is unique: whoever
\* comes second is rolled back, the new member with it.
Register(f) ==
    LET p == flow[f].person
    IN  /\ At(f, "register")
        /\ \/ /\ Unlinked(p)
              /\ \E u \in Ids :
                    /\ users[u] = NoName
                    /\ WriteName(u, flow[f].name)
                    /\ linked' = [linked EXCEPT ![p] = u]
                    /\ GotoOpen(f, u, flow[f].name)
           \/ /\ ~Unlinked(p)
              /\ Goto(f, [flow[f] EXCEPT !.pc = "recover"])
              /\ UNCHANGED <<users, linked, had>>
        /\ UNCHANGED <<store, held, requests, faults>>

\* registerOrRecover: the violation is the news that somebody was faster.
Recover(f) ==
    LET winner == linked[flow[f].person]
    IN  /\ At(f, "recover")
        /\ winner # Nobody
        /\ GotoOpen(f, winner, users[winner])
        /\ UNCHANGED <<users, linked, store, held, requests, faults, had>>

NameOfTheLook(u) == TRUE   \* mutant: the look of the login is trusted
StillUnnamed(u) == users[u] = Placeholder

\* adoptProviderProfile looks again: the member may have been renamed since.
Adopt(f) ==
    LET u == flow[f].id
    IN  /\ At(f, "adopt")
        /\ \/ /\ StillUnnamed(u)
              /\ WriteName(u, flow[f].name)
              /\ GotoOpen(f, u, flow[f].name)
           \/ /\ ~StillUnnamed(u)
              /\ GotoOpen(f, u, users[u])
              /\ UNCHANGED <<users, had>>
        /\ UNCHANGED <<linked, store, held, requests, faults>>

\* openMemberSession overwrites name and token of the hash; the code for the
\* page follows.  The index of the token before stays.
Open(f) ==
    LET u == flow[f].id
        t == flow[f].token
    IN  /\ At(f, "open")
        /\ session' = [session EXCEPT ![u] = [name |-> flow[f].name, token |-> t]]
        /\ index' = [index EXCEPT ![t] = u]
        /\ codes' = codes \cup {t}
        /\ Goto(f, Idle)
        /\ UNCHANGED <<users, linked, held, requests, faults, had>>

\* POST /auth/session: the code is spent whatever comes of it; only a token that
\* is still live is handed over.
Exchange(t) ==
    /\ t \in codes
    /\ codes' = codes \ {t}
    /\ held' = IF Live(t) THEN held \cup {t} ELSE held
    /\ UNCHANGED <<users, linked, session, index, flow, requests, faults, had>>

-----------------------------------------------------------------------------
(* Profile and logout.                                                       *)

\* PATCH /users/me: the token is authenticated, the name has been normalised.  The
\* name of the placeholder is a name like any other here.
AskRename(f, t, n) ==
    /\ At(f, "idle")
    /\ t \in held
    /\ Live(t)
    /\ Count
    /\ Goto(f, [Idle EXCEPT !.pc = "rename", !.id = index[t], !.name = n])
    /\ UNCHANGED <<users, linked, store, held, faults, had>>

\* rename: first the database ...
Rename(f) ==
    /\ At(f, "rename")
    /\ WriteName(flow[f].id, flow[f].name)
    /\ Goto(f, [flow[f] EXCEPT !.pc = "show"])
    /\ UNCHANGED <<linked, store, held, requests, faults>>

\* ... then the session, if there still is one.
Show(f) ==
    LET u == flow[f].id
    IN  /\ At(f, "show")
        /\ session' = IF session[u] = NoSession THEN session
                      ELSE [session EXCEPT ![u].name = flow[f].name]
        /\ Goto(f, Idle)
        /\ UNCHANGED <<users, linked, index, codes, held, requests, faults, had>>

\* DELETE /auth/session: the index goes first and tells whose hash is next.  A
\* token without an index is closed already.
Logout(f, t) ==
    /\ At(f, "idle")
    /\ t \in held
    /\ Count
    /\ held' = held \ {t}
    /\ index' = [index EXCEPT ![t] = Nobody]
    /\ IF index[t] = Nobody THEN UNCHANGED flow
       ELSE Goto(f, [Idle EXCEPT !.pc = "unhash", !.id = index[t]])
    /\ UNCHANGED <<users, linked, session, codes, faults, had>>

Unhash(f) ==
    /\ At(f, "unhash")
    /\ session' = [session EXCEPT ![flow[f].id].token = 0]
    /\ Goto(f, Idle)
    /\ UNCHANGED <<users, linked, index, codes, held, requests, faults, had>>

\* A statement or a commit throws: the transaction is rolled back, its lock is
\* released, and the request fails without touching the session.
DatabaseFails(f) ==
    /\ flow[f].pc \in {"find", "register", "recover", "adopt", "rename"}
    /\ faults < MaxFaults
    /\ faults' = faults + 1
    /\ Goto(f, Idle)
    /\ UNCHANGED <<users, linked, store, held, requests, had>>

-----------------------------------------------------------------------------
Login(f) == \/ \E p \in People, n \in Names : SignIn(f, p, n)
            \/ Find(f) \/ Register(f) \/ Recover(f) \/ Adopt(f) \/ Open(f)

Profile(f) == \/ \E t \in Tokens, n \in Names : AskRename(f, t, n)
              \/ Rename(f) \/ Show(f)

Leave(f) == (\E t \in Tokens : Logout(f, t)) \/ Unhash(f)

AccountsNext ==
    \/ \E f \in Flows : Login(f) \/ Profile(f) \/ Leave(f) \/ DatabaseFails(f)
    \/ \E t \in Tokens : Exchange(t)

-----------------------------------------------------------------------------
AccountsTypeOK ==
    /\ users \in [Ids -> Names \cup {NoName}]
    /\ linked \in [People -> Ids \cup {Nobody}]
    /\ session \in [Ids -> [name : Names \cup {NoName}, token : 0 .. MaxRequests]]
    /\ index \in [Tokens -> Ids \cup {Nobody}]
    /\ codes \subseteq Tokens
    /\ held \subseteq Tokens
    /\ flow \in [Flows -> Frames]
    /\ requests \in 0 .. MaxRequests
    /\ faults \in 0 .. MaxFaults
    /\ had \in [Ids -> SUBSET Names]

\* No two people share a member, and no member is without a person: the loser of a
\* race to register leaves no ghost (socialAccountStore.ts:30).
NoGhosts ==
    /\ \A p, q \in People : linked[p] = linked[q] /\ linked[p] # Nobody => p = q
    /\ \A u \in Ids : users[u] # NoName <=> \E p \in People : linked[p] = u

\* Whoever logs in gets the session of the one member they are, also after a lost
\* race; nobody else has sessions.
OwnSessions ==
    /\ \A f \in Flows : flow[f].pc \in {"adopt", "open"} =>
          flow[f].id = linked[flow[f].person] /\ flow[f].id # Nobody
    /\ \A u \in Ids : session[u] # NoSession => users[u] # NoName

\* However logins and registrations of the same person overlap, they are one
\* member (socialLoginService.ts:8).
OneMember == AccountsTypeOK /\ NoGhosts /\ OwnSessions

\* A session never shows a name that the profile has not had: a rename that fails
\* does not reach the session (profile.ts:140), and the loser of a race takes the
\* name of the winner.
NamesAreKnown == \A u \in Ids : session[u] # NoSession => session[u].name \in had[u]

\* A name other than the placeholder is changed by its owner's rename and by
\* nothing else, however old the look is that a login acts upon
\* (socialAccountStore.ts:126).
ChosenNamesStay ==
    [][\A u \in Ids : users[u] \notin {NoName, Placeholder, users'[u]} =>
          \E f \in Flows : flow[f].pc = "rename" /\ flow[f].id = u
                           /\ users'[u] = flow[f].name]_users

NamesAreKept == []NamesAreKnown /\ ChosenNamesStay
=============================================================================
