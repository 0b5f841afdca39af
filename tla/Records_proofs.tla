--------------------------- MODULE Records_proofs ---------------------------
(***************************************************************************)
(* What Records keeps, for any number of people, names, requests, faults,  *)
(* players, scores and weeks.  The accounts come first: they go on without *)
(* the games, but for the sessions that a restart brings back.             *)
(***************************************************************************)
EXTENDS Records, WellFoundedInduction, TLAPS

\* What a request carries from one of its steps to the next, given the rows of the
\* database: it is still true when the request gets there, because accounts only
\* grow (Grows).
FrameFits(fr, us, li, ha) ==
    /\ fr \in Frames
    /\ fr.pc \in {"find", "register", "recover", "adopt"} =>
          fr.person \in People /\ fr.name \in Names
    /\ fr.pc \in {"find", "register", "recover", "adopt", "open"} => fr.token \in Tokens
    /\ fr.pc \in {"adopt", "open"} =>
          fr.person \in People /\ fr.id \in Ids /\ fr.id = li[fr.person]
    /\ fr.pc \in {"rename", "show"} =>
          fr.id \in Ids /\ fr.name \in Names /\ us[fr.id] # NoName
    /\ fr.pc \in {"open", "show"} => fr.name \in Names /\ fr.name \in ha[fr.id]
    /\ fr.pc = "unhash" => fr.id \in Ids

SessionsFit(s, us, ha) ==
    /\ s \in [Ids -> [name : Names \cup {NoName}, token : 0 .. MaxRequests]]
    /\ \A u \in Ids : s[u] # NoSession => us[u] # NoName /\ s[u].name \in ha[u]

RowsOK == \A u \in Ids : users[u] # NoName => users[u] \in had[u]

SavedOK ==
    /\ SessionsFit(saved.session, users, had)
    /\ saved.index \in [Tokens -> Ids \cup {Nobody}]
    /\ saved.codes \subseteq Tokens

AccountsOK ==
    /\ AccountsTypeOK
    /\ NoGhosts
    /\ RowsOK
    /\ \A f \in Flows : FrameFits(flow[f], users, linked, had)
    /\ SessionsFit(session, users, had)
    /\ SavedOK

Grows ==
    /\ \A p \in People : linked[p] # Nobody => linked'[p] = linked[p]
    /\ \A u \in Ids : users[u] # NoName => users'[u] # NoName
    /\ \A u \in Ids : had[u] \subseteq had'[u]

\* What is true of a frame stays true while accounts grow.
LEMMA FrameStays ==
    ASSUME NEW fr, FrameFits(fr, users, linked, had), Grows
    PROVE  FrameFits(fr, users', linked', had')
  BY NamesAssumption DEF FrameFits, Grows, Frames

\* What is true of sessions stays true of them while accounts grow.
LEMMA SessionsStay ==
    ASSUME NEW s, SessionsFit(s, users, had), Grows
    PROVE  SessionsFit(s, users', had')
  BY DEF SessionsFit, Grows

LEMMA SavedStays ==
    ASSUME SavedOK, Grows, UNCHANGED saved
    PROVE  SavedOK'
  <1>1. SessionsFit(saved.session, users', had')
    BY SessionsStay DEF SavedOK
  <1> QED BY <1>1 DEF SavedOK

\* A request that goes on with a good frame leaves all frames good.
LEMMA FlowsStay ==
    ASSUME NEW f \in Flows, NEW frame, flow \in [Flows -> Frames],
           flow' = [flow EXCEPT ![f] = frame], Grows,
           FrameFits(frame, users', linked', had'),
           \A g \in Flows : FrameFits(flow[g], users, linked, had)
    PROVE  /\ \A g \in Flows : FrameFits(flow'[g], users', linked', had')
           /\ flow' \in [Flows -> Frames]
  <1>1. frame \in Frames
    BY DEF FrameFits
  <1>2. ASSUME NEW g \in Flows
        PROVE  FrameFits(flow'[g], users', linked', had')
    <2>1. CASE g = f
      BY <2>1
    <2>2. CASE g # f
      <3>1. flow'[g] = flow[g]
        BY <2>2
      <3>2. FrameFits(flow[g], users', linked', had')
        BY FrameStays
      <3> QED BY <3>1, <3>2
    <2> QED BY <2>1, <2>2
  <1> QED BY <1>1, <1>2

\* Nothing grows when no row is written.
LEMMA UnchangedGrows ==
    ASSUME UNCHANGED <<users, linked, had>>
    PROVE  Grows
  BY DEF Grows

-----------------------------------------------------------------------------
(* The steps of a request.                                                   *)

\* A step of one request that writes no row: it is enough that its next frame is
\* good and that the sessions stay so.
LEMMA QuietStep ==
    ASSUME AccountsOK, NEW f \in Flows, NEW frame, flow' = [flow EXCEPT ![f] = frame],
           UNCHANGED <<users, linked, had, saved>>,
           FrameFits(frame, users, linked, had),
           SessionsFit(session', users, had),
           index' \in [Tokens -> Ids \cup {Nobody}], codes' \subseteq Tokens, held' \subseteq Tokens,
           requests' \in 0 .. MaxRequests, faults' \in 0 .. MaxFaults
    PROVE  AccountsOK'
  <1>1. Grows
    BY UnchangedGrows
  <1>2. FrameFits(frame, users', linked', had')
    BY <1>1, FrameStays
  <1>3. /\ \A g \in Flows : FrameFits(flow'[g], users', linked', had')
        /\ flow' \in [Flows -> Frames]
    BY <1>1, <1>2, FlowsStay DEF AccountsOK, AccountsTypeOK
  <1>4. SessionsFit(session', users', had')
    OBVIOUS
  <1>5. AccountsTypeOK'
    BY <1>3, <1>4 DEF AccountsOK, AccountsTypeOK, SessionsFit
  <1>6. NoGhosts' /\ RowsOK'
    BY DEF AccountsOK, NoGhosts, RowsOK
  <1>7. SavedOK'
    BY <1>1, SavedStays DEF AccountsOK
  <1> QED BY <1>3, <1>4, <1>5, <1>6, <1>7 DEF AccountsOK

\* The frame of no request at all.
LEMMA IdleFits ==
    ASSUME NEW us, NEW li, NEW ha
    PROVE  FrameFits(Idle, us, li, ha)
  BY NamesAssumption DEF FrameFits, Idle, Frames, Steps

LEMMA IdleIsFrame == Idle \in Frames
  BY NamesAssumption DEF Idle, Frames, Steps

LEMMA SignInStep ==
    ASSUME AccountsOK, NEW f \in Flows, NEW p \in People, NEW n \in Names, SignIn(f, p, n),
           UNCHANGED saved
    PROVE  AccountsOK'
  <1> DEFINE frame == [Idle EXCEPT !.pc = "find", !.person = p, !.name = n, !.token = requests + 1]
  <1>1. /\ requests + 1 \in Tokens /\ requests + 1 \in 0 .. MaxRequests
        /\ requests' \in 0 .. MaxRequests
    BY NamesAssumption DEF AccountsOK, AccountsTypeOK, SignIn, Count, Tokens
  <1>3. FrameFits(frame, users, linked, had)
    BY <1>1, IdleIsFrame DEF FrameFits, Frames, Steps
  <1> QED BY <1>1, <1>3, QuietStep DEF SignIn, Goto, store, AccountsOK, AccountsTypeOK

LEMMA FindStep ==
    ASSUME AccountsOK, NEW f \in Flows, Find(f), UNCHANGED saved
    PROVE  AccountsOK'
  <1> DEFINE who == linked[flow[f].person]
  <1>1. /\ FrameFits(flow[f], users, linked, had) /\ flow[f].pc = "find"
        /\ users \in [Ids -> Names \cup {NoName}] /\ linked \in [People -> Ids \cup {Nobody}]
    BY DEF AccountsOK, AccountsTypeOK, Find, At
  <1>2. flow[f].person \in People /\ flow[f].name \in Names /\ flow[f].token \in Tokens
        /\ flow[f] \in Frames
    BY <1>1 DEF FrameFits
  <1>3. PICK frame : flow' = [flow EXCEPT ![f] = frame] /\ FrameFits(frame, users, linked, had)
    <2>1. CASE who = Nobody /\ Goto(f, [flow[f] EXCEPT !.pc = "register"])
      <3> DEFINE next == [flow[f] EXCEPT !.pc = "register"]
      <3>1. FrameFits(next, users, linked, had)
        BY <1>2 DEF FrameFits, Frames, Steps
      <3> QED BY <2>1, <3>1 DEF Goto
    <2>2. CASE who # Nobody /\ Goto(f, [flow[f] EXCEPT !.pc = "adopt", !.id = who])
      <3> DEFINE next == [flow[f] EXCEPT !.pc = "adopt", !.id = who]
      <3>1. who \in Ids
        BY <1>1, <1>2, <2>2
      <3>2. FrameFits(next, users, linked, had)
        BY <1>2, <3>1 DEF FrameFits, Frames, Steps
      <3> QED BY <2>2, <3>2 DEF Goto
    <2>3. CASE who # Nobody /\ GotoOpen(f, who, users[who])
      <3> DEFINE next == [flow[f] EXCEPT !.pc = "open", !.id = who, !.name = users[who]]
      <3>1. who \in Ids /\ users[who] # NoName
        BY <1>1, <1>2, <2>3 DEF AccountsOK, NoGhosts
      <3>2. users[who] \in had[who] /\ users[who] \in Names
        BY <1>1, <3>1 DEF AccountsOK, RowsOK
      <3>3. FrameFits(next, users, linked, had)
        BY <1>2, <3>1, <3>2 DEF FrameFits, Frames, Steps
      <3> QED BY <2>3, <3>3 DEF Goto, GotoOpen
    <2> QED BY <2>1, <2>2, <2>3 DEF Find
  <1> QED BY <1>3, QuietStep DEF Find, store, AccountsOK, AccountsTypeOK

LEMMA RecoverStep ==
    ASSUME AccountsOK, NEW f \in Flows, Recover(f), UNCHANGED saved
    PROVE  AccountsOK'
  <1> DEFINE who == linked[flow[f].person]
  <1> DEFINE next == [flow[f] EXCEPT !.pc = "open", !.id = who, !.name = users[who]]
  <1>1. /\ FrameFits(flow[f], users, linked, had) /\ flow[f].pc = "recover"
        /\ users \in [Ids -> Names \cup {NoName}] /\ linked \in [People -> Ids \cup {Nobody}]
    BY DEF AccountsOK, AccountsTypeOK, Recover, At
  <1>2. flow[f].person \in People /\ flow[f].token \in Tokens /\ flow[f] \in Frames
    BY <1>1 DEF FrameFits
  <1>3. who \in Ids /\ users[who] # NoName
    BY <1>1, <1>2 DEF AccountsOK, NoGhosts, Recover
  <1>4. users[who] \in had[who] /\ users[who] \in Names
    BY <1>1, <1>3 DEF AccountsOK, RowsOK
  <1>5. FrameFits(next, users, linked, had)
    BY <1>2, <1>3, <1>4 DEF FrameFits, Frames, Steps
  <1>6. flow' = [flow EXCEPT ![f] = next]
    BY DEF Recover, GotoOpen, Goto
  <1> QED BY <1>5, <1>6, QuietStep DEF Recover, store, AccountsOK, AccountsTypeOK

\* A request that gave up, or is over, leaves the accounts as they are.
LEMMA OpenStep ==
    ASSUME AccountsOK, NEW f \in Flows, Open(f), UNCHANGED saved
    PROVE  AccountsOK'
  <1> DEFINE u == flow[f].id
             t == flow[f].token
             n == flow[f].name
             s == [session EXCEPT ![u] = [name |-> n, token |-> t]]
  <1>1. FrameFits(flow[f], users, linked, had) /\ flow[f].pc = "open"
    BY DEF AccountsOK, Open, At
  <1>2. /\ u \in Ids /\ t \in Tokens /\ t \in 0 .. MaxRequests /\ n \in Names /\ n \in had[u]
        /\ flow[f].person \in People /\ u = linked[flow[f].person]
    BY <1>1 DEF FrameFits, Tokens
  <1>3. users[u] # NoName
    BY <1>2 DEF AccountsOK, NoGhosts
  <1>4. SessionsFit(s, users, had)
    <2>1. s \in [Ids -> [name : Names \cup {NoName}, token : 0 .. MaxRequests]]
      BY <1>2 DEF AccountsOK, SessionsFit
    <2>2. ASSUME NEW v \in Ids, s[v] # NoSession
          PROVE  users[v] # NoName /\ s[v].name \in had[v]
      <3>1. CASE v = u
        <4>1. s[v] = [name |-> n, token |-> t]
          BY <3>1, <1>2 DEF AccountsOK, SessionsFit
        <4> QED BY <3>1, <4>1, <1>2, <1>3
      <3>2. CASE v # u
        <4>1. s[v] = session[v]
          BY <3>2 DEF AccountsOK, SessionsFit
        <4> QED BY <2>2, <4>1 DEF AccountsOK, SessionsFit
      <3> QED BY <3>1, <3>2
    <2> QED BY <2>1, <2>2 DEF SessionsFit
  <1>5. index' \in [Tokens -> Ids \cup {Nobody}] /\ codes' \subseteq Tokens
    BY <1>2 DEF AccountsOK, AccountsTypeOK, Open
  <1>6. flow' = [flow EXCEPT ![f] = Idle]
    BY DEF Open, Goto
  <1>7. SessionsFit(session', users, had)
    BY <1>4 DEF Open
  <1> HIDE DEF s, t, u, n
  <1> QED BY <1>5, <1>6, <1>7, IdleFits, QuietStep DEF Open, AccountsOK, AccountsTypeOK

LEMMA AskRenameStep ==
    ASSUME AccountsOK, NEW f \in Flows, NEW t \in Tokens, NEW n \in Names, AskRename(f, t, n),
           UNCHANGED saved
    PROVE  AccountsOK'
  <1> DEFINE frame == [Idle EXCEPT !.pc = "rename", !.id = index[t], !.name = n]
  <1>1. requests' \in 0 .. MaxRequests
    BY NamesAssumption DEF AccountsOK, AccountsTypeOK, AskRename, Count
  <1>2. index[t] \in Ids /\ session[index[t]].token = t
    BY DEF AskRename, Live, AccountsOK, AccountsTypeOK
  <1>3. session[index[t]] # NoSession
    BY <1>2 DEF NoSession, Tokens
  <1>4. users[index[t]] # NoName
    BY <1>2, <1>3 DEF AccountsOK, SessionsFit
  <1>6. FrameFits(frame, users, linked, had)
    BY <1>2, <1>4, IdleIsFrame DEF FrameFits, Frames, Steps
  <1> QED BY <1>1, <1>6, QuietStep DEF AskRename, Goto, store, AccountsOK, AccountsTypeOK

LEMMA ShowStep ==
    ASSUME AccountsOK, NEW f \in Flows, Show(f), UNCHANGED saved
    PROVE  AccountsOK'
  <1> DEFINE u == flow[f].id
  <1>1. FrameFits(flow[f], users, linked, had) /\ flow[f].pc = "show"
    BY DEF AccountsOK, Show, At
  <1>2. u \in Ids /\ users[u] # NoName /\ flow[f].name \in Names /\ flow[f].name \in had[u]
    BY <1>1 DEF FrameFits
  <1>3. SessionsFit(session', users, had)
    <2>1. CASE session' = session
      BY <2>1 DEF AccountsOK
    <2>2. CASE session' = [session EXCEPT ![u].name = flow[f].name]
      BY <2>2, <1>2 DEF AccountsOK, SessionsFit, NoSession
    <2> QED BY <2>1, <2>2 DEF Show
  <1>4. flow' = [flow EXCEPT ![f] = Idle]
    BY DEF Show, Goto
  <1> QED BY <1>3, <1>4, IdleFits, QuietStep DEF Show, AccountsOK, AccountsTypeOK

LEMMA LogoutStep ==
    ASSUME AccountsOK, NEW f \in Flows, NEW t \in Tokens, Logout(f, t), UNCHANGED saved
    PROVE  AccountsOK'
  <1>1. /\ requests' \in 0 .. MaxRequests /\ held' \subseteq Tokens
        /\ index' \in [Tokens -> Ids \cup {Nobody}]
    BY NamesAssumption DEF AccountsOK, AccountsTypeOK, Logout, Count
  <1>2. PICK frame : flow' = [flow EXCEPT ![f] = frame] /\ FrameFits(frame, users, linked, had)
    <2>1. CASE UNCHANGED flow
      <3>1. flow' = [flow EXCEPT ![f] = flow[f]]
        BY <2>1 DEF AccountsOK, AccountsTypeOK
      <3> QED BY <3>1 DEF AccountsOK
    <2>2. CASE index[t] # Nobody
      <3> DEFINE next == [Idle EXCEPT !.pc = "unhash", !.id = index[t]]
      <3>1. index[t] \in Ids
        BY <2>2 DEF AccountsOK, AccountsTypeOK
      <3>3. FrameFits(next, users, linked, had)
        BY <3>1, IdleIsFrame DEF FrameFits, Frames, Steps
      <3> QED BY <2>2, <3>3 DEF Logout, Goto
    <2> QED BY <2>1, <2>2 DEF Logout
  <1>3. SessionsFit(session', users, had) /\ codes' \subseteq Tokens /\ faults' \in 0 .. MaxFaults
        /\ UNCHANGED <<users, linked, had>>
    BY DEF Logout, AccountsOK, AccountsTypeOK
  <1> QED BY <1>1, <1>2, <1>3, QuietStep

LEMMA UnhashStep ==
    ASSUME AccountsOK, NEW f \in Flows, Unhash(f), UNCHANGED saved
    PROVE  AccountsOK'
  <1>1. FrameFits(flow[f], users, linked, had) /\ flow[f].pc = "unhash"
    BY DEF AccountsOK, Unhash, At
  <1>2. flow[f].id \in Ids
    BY <1>1 DEF FrameFits
  <1>3. SessionsFit(session', users, had)
    BY <1>2, NamesAssumption DEF AccountsOK, SessionsFit, NoSession, Unhash
  <1>4. flow' = [flow EXCEPT ![f] = Idle]
    BY DEF Unhash, Goto
  <1> QED BY <1>3, <1>4, IdleFits, QuietStep DEF Unhash, AccountsOK, AccountsTypeOK

LEMMA DatabaseFailsStep ==
    ASSUME AccountsOK, NEW f \in Flows, DatabaseFails(f), UNCHANGED saved
    PROVE  AccountsOK'
  <1>1. faults' \in 0 .. MaxFaults
    BY NamesAssumption DEF AccountsOK, AccountsTypeOK, DatabaseFails
  <1>2. flow' = [flow EXCEPT ![f] = Idle]
    BY DEF DatabaseFails, Goto
  <1> QED BY <1>1, <1>2, IdleFits, QuietStep DEF DatabaseFails, store, AccountsOK, AccountsTypeOK

\* A name that is written is one that the row has had, and the row is there.
LEMMA WriteNameGrows ==
    ASSUME AccountsOK, NEW u \in Ids, NEW n \in Names, WriteName(u, n),
           \A p \in People : linked[p] # Nobody => linked'[p] = linked[p]
    PROVE  /\ Grows
           /\ RowsOK'
           /\ users'[u] = n /\ n \in had'[u]
           /\ users' \in [Ids -> Names \cup {NoName}] /\ had' \in [Ids -> SUBSET Names]
           /\ \A v \in Ids : v # u => users'[v] = users[v]
  <1>1. /\ users \in [Ids -> Names \cup {NoName}] /\ had \in [Ids -> SUBSET Names]
        /\ users' = [users EXCEPT ![u] = n] /\ had' = [had EXCEPT ![u] = @ \cup {n}]
    BY DEF AccountsOK, AccountsTypeOK, WriteName
  <1>2. users'[u] = n /\ n \in had'[u] /\ n # NoName
    BY <1>1, NamesAssumption
  <1>3. users' \in [Ids -> Names \cup {NoName}] /\ had' \in [Ids -> SUBSET Names]
    BY <1>1
  <1>4. \A v \in Ids : v # u => users'[v] = users[v] /\ had'[v] = had[v]
    BY <1>1
  <1>5. \A v \in Ids : had[v] \subseteq had'[v]
    BY <1>1
  <1>6. RowsOK'
    BY <1>2, <1>4 DEF AccountsOK, RowsOK
  <1>7. Grows
    BY <1>2, <1>4, <1>5 DEF Grows
  <1> QED BY <1>2, <1>3, <1>4, <1>6, <1>7

\* A step of one request that writes a row and touches no session.
LEMMA WritingStep ==
    ASSUME AccountsOK, NEW f \in Flows, NEW frame, flow' = [flow EXCEPT ![f] = frame],
           Grows, RowsOK', NoGhosts',
           users' \in [Ids -> Names \cup {NoName}], had' \in [Ids -> SUBSET Names],
           linked' \in [People -> Ids \cup {Nobody}],
           FrameFits(frame, users', linked', had'),
           UNCHANGED <<store, held, requests, faults, saved>>
    PROVE  AccountsOK'
  <1>1. /\ \A g \in Flows : FrameFits(flow'[g], users', linked', had')
        /\ flow' \in [Flows -> Frames]
    BY FlowsStay DEF AccountsOK, AccountsTypeOK
  <1>2. SessionsFit(session, users', had')
    BY SessionsStay DEF AccountsOK
  <1>3. SessionsFit(session', users', had')
    BY <1>2 DEF store
  <1>4. AccountsTypeOK'
    BY <1>1 DEF AccountsOK, AccountsTypeOK, store
  <1>5. SavedOK'
    BY SavedStays DEF AccountsOK
  <1> QED BY <1>1, <1>3, <1>4, <1>5 DEF AccountsOK

LEMMA RegisterStep ==
    ASSUME AccountsOK, NEW f \in Flows, Register(f), UNCHANGED saved
    PROVE  AccountsOK'
  <1> DEFINE p == flow[f].person
  <1>1. /\ FrameFits(flow[f], users, linked, had) /\ flow[f].pc = "register"
        /\ users \in [Ids -> Names \cup {NoName}] /\ linked \in [People -> Ids \cup {Nobody}]
    BY DEF AccountsOK, AccountsTypeOK, Register, At
  <1>2. p \in People /\ flow[f].name \in Names /\ flow[f].token \in Tokens /\ flow[f] \in Frames
    BY <1>1 DEF FrameFits
  <1>3. ASSUME Unlinked(p), NEW u \in Ids, users[u] = NoName, WriteName(u, flow[f].name),
               linked' = [linked EXCEPT ![p] = u], GotoOpen(f, u, flow[f].name)
        PROVE  AccountsOK'
    <2> DEFINE next == [flow[f] EXCEPT !.pc = "open", !.id = u, !.name = flow[f].name]
    <2>1. \A q \in People : linked[q] # Nobody => linked'[q] = linked[q]
      BY <1>1, <1>2, <1>3 DEF Unlinked
    <2>2. /\ Grows /\ RowsOK' /\ users'[u] = flow[f].name /\ flow[f].name \in had'[u]
          /\ users' \in [Ids -> Names \cup {NoName}] /\ had' \in [Ids -> SUBSET Names]
          /\ \A v \in Ids : v # u => users'[v] = users[v]
      BY <1>2, <1>3, <2>1, WriteNameGrows
    <2>3. linked'[p] = u /\ linked' \in [People -> Ids \cup {Nobody}]
          /\ \A q \in People : q # p => linked'[q] = linked[q]
      BY <1>1, <1>2, <1>3
    <2>4. \A q \in People : linked[q] # u
      BY <1>3 DEF AccountsOK, NoGhosts
    <2>5. u # Nobody /\ flow[f].name # NoName
      BY <1>2, NamesAssumption
    <2>6. NoGhosts'
      <3>1. \A q, r \in People : linked'[q] = linked'[r] /\ linked'[q] # Nobody => q = r
        BY <2>3, <2>4 DEF AccountsOK, NoGhosts
      <3>2. \A v \in Ids : users'[v] # NoName <=> \E q \in People : linked'[q] = v
        <4>1. users'[u] # NoName /\ \E q \in People : linked'[q] = u
          BY <1>2, <2>2, <2>3, <2>5
        <4>2. ASSUME NEW v \in Ids, v # u
              PROVE  users'[v] # NoName <=> \E q \in People : linked'[q] = v
          <5>1. users'[v] = users[v]
            BY <2>2, <4>2
          <5>2. \A q \in People : linked'[q] = v <=> linked[q] = v
            BY <2>3, <4>2, <1>2, <1>3, NamesAssumption DEF Unlinked
          <5> QED BY <5>1, <5>2 DEF AccountsOK, NoGhosts
        <4> QED BY <4>1, <4>2
      <3> QED BY <3>1, <3>2 DEF NoGhosts
    <2>7. FrameFits(next, users', linked', had')
      BY <1>2, <2>2, <2>3 DEF FrameFits, Frames, Steps
    <2>8. flow' = [flow EXCEPT ![f] = next]
      BY <1>3 DEF GotoOpen, Goto
    <2> HIDE DEF next
    <2> QED BY <2>2, <2>3, <2>6, <2>7, <2>8, WritingStep DEF Register
  <1>4. ASSUME Goto(f, [flow[f] EXCEPT !.pc = "recover"]), UNCHANGED <<users, linked, had>>
        PROVE  AccountsOK'
    <2> DEFINE next == [flow[f] EXCEPT !.pc = "recover"]
    <2>1. FrameFits(next, users, linked, had)
      BY <1>2 DEF FrameFits, Frames, Steps
    <2>2. flow' = [flow EXCEPT ![f] = next]
      BY <1>4 DEF Goto
    <2> HIDE DEF next
    <2> QED BY <1>4, <2>1, <2>2, QuietStep DEF Register, store, AccountsOK, AccountsTypeOK
  <1> QED BY <1>3, <1>4 DEF Register

\* NoGhosts does not depend on which name a row has.
LEMMA RenamedNoGhosts ==
    ASSUME AccountsOK, UNCHANGED linked,
           \A v \in Ids : users'[v] # NoName <=> users[v] # NoName
    PROVE  NoGhosts'
  BY DEF AccountsOK, NoGhosts

LEMMA AdoptStep ==
    ASSUME AccountsOK, NEW f \in Flows, Adopt(f), UNCHANGED saved
    PROVE  AccountsOK'
  <1> DEFINE u == flow[f].id
  <1>1. /\ FrameFits(flow[f], users, linked, had) /\ flow[f].pc = "adopt"
        /\ users \in [Ids -> Names \cup {NoName}] /\ linked \in [People -> Ids \cup {Nobody}]
    BY DEF AccountsOK, AccountsTypeOK, Adopt, At
  <1>2. /\ flow[f].person \in People /\ flow[f].name \in Names /\ flow[f].token \in Tokens
        /\ flow[f] \in Frames /\ u \in Ids /\ u = linked[flow[f].person]
    BY <1>1 DEF FrameFits
  <1>3. users[u] # NoName /\ users[u] \in had[u] /\ users[u] \in Names
    BY <1>1, <1>2 DEF AccountsOK, NoGhosts, RowsOK
  <1>4. ASSUME WriteName(u, flow[f].name), GotoOpen(f, u, flow[f].name)
        PROVE  AccountsOK'
    <2> DEFINE next == [flow[f] EXCEPT !.pc = "open", !.id = u, !.name = flow[f].name]
    <2>1. UNCHANGED linked
      BY DEF Adopt
    <2>2. /\ Grows /\ RowsOK' /\ users'[u] = flow[f].name /\ flow[f].name \in had'[u]
          /\ users' \in [Ids -> Names \cup {NoName}] /\ had' \in [Ids -> SUBSET Names]
          /\ \A v \in Ids : v # u => users'[v] = users[v]
      BY <1>2, <1>4, <2>1, WriteNameGrows
    <2>3. NoGhosts'
      BY <1>2, <1>3, <2>1, <2>2, NamesAssumption, RenamedNoGhosts
    <2>4. FrameFits(next, users', linked', had')
      BY <1>2, <2>1, <2>2 DEF FrameFits, Frames, Steps
    <2>5. flow' = [flow EXCEPT ![f] = next]
      BY <1>4 DEF GotoOpen, Goto
    <2> HIDE DEF next
    <2> QED BY <1>1, <2>1, <2>2, <2>3, <2>4, <2>5, WritingStep DEF Adopt
  <1>5. ASSUME GotoOpen(f, u, users[u]), UNCHANGED <<users, had>>
        PROVE  AccountsOK'
    <2> DEFINE next == [flow[f] EXCEPT !.pc = "open", !.id = u, !.name = users[u]]
    <2>1. FrameFits(next, users, linked, had)
      BY <1>2, <1>3 DEF FrameFits, Frames, Steps
    <2>2. flow' = [flow EXCEPT ![f] = next]
      BY <1>5 DEF GotoOpen, Goto
    <2> HIDE DEF next
    <2> QED BY <1>5, <2>1, <2>2, QuietStep DEF Adopt, store, AccountsOK, AccountsTypeOK
  <1> QED BY <1>4, <1>5 DEF Adopt

LEMMA RenameStep ==
    ASSUME AccountsOK, NEW f \in Flows, Rename(f), UNCHANGED saved
    PROVE  AccountsOK'
  <1> DEFINE u == flow[f].id
             next == [flow[f] EXCEPT !.pc = "show"]
  <1>1. FrameFits(flow[f], users, linked, had) /\ flow[f].pc = "rename"
    BY DEF AccountsOK, Rename, At
  <1>2. /\ flow[f].name \in Names /\ flow[f] \in Frames /\ u \in Ids /\ users[u] # NoName
        /\ UNCHANGED linked
    BY <1>1 DEF FrameFits, Rename
  <1>3. /\ Grows /\ RowsOK' /\ users'[u] = flow[f].name /\ flow[f].name \in had'[u]
        /\ users' \in [Ids -> Names \cup {NoName}] /\ had' \in [Ids -> SUBSET Names]
        /\ \A v \in Ids : v # u => users'[v] = users[v]
    BY <1>2, WriteNameGrows DEF Rename
  <1>4. NoGhosts'
    BY <1>2, <1>3, NamesAssumption, RenamedNoGhosts
  <1>5. FrameFits(next, users', linked', had')
    BY <1>2, <1>3, NamesAssumption DEF FrameFits, Frames, Steps
  <1>6. flow' = [flow EXCEPT ![f] = next]
    BY DEF Rename, Goto
  <1>7. linked' \in [People -> Ids \cup {Nobody}]
    BY <1>2 DEF AccountsOK, AccountsTypeOK
  <1> HIDE DEF next
  <1> QED BY <1>3, <1>4, <1>5, <1>6, <1>7, WritingStep DEF Rename

LEMMA ExchangeStep ==
    ASSUME AccountsOK, NEW t \in Tokens, Exchange(t), UNCHANGED saved
    PROVE  AccountsOK'
  <1>1. AccountsTypeOK'
    BY DEF AccountsOK, AccountsTypeOK, Exchange
  <1>2. UNCHANGED <<users, linked, had, flow, session, saved>>
    BY DEF Exchange
  <1> QED BY <1>1, <1>2 DEF AccountsOK, NoGhosts, RowsOK, SavedOK

LEMMA AccountsStep ==
    ASSUME AccountsOK, AccountsNext, UNCHANGED saved
    PROVE  AccountsOK'
  <1>1. ASSUME NEW f \in Flows, Login(f)
        PROVE  AccountsOK'
    BY <1>1, SignInStep, FindStep, RegisterStep, RecoverStep, AdoptStep, OpenStep DEF Login
  <1>2. ASSUME NEW f \in Flows, Profile(f)
        PROVE  AccountsOK'
    BY <1>2, AskRenameStep, RenameStep, ShowStep DEF Profile
  <1>3. ASSUME NEW f \in Flows, Leave(f)
        PROVE  AccountsOK'
    BY <1>3, LogoutStep, UnhashStep DEF Leave
  <1> QED BY <1>1, <1>2, <1>3, DatabaseFailsStep, ExchangeStep DEF AccountsNext

\* What came from a snapshot was true when it was taken, and accounts only grew since.
LEMMA RestartStep ==
    ASSUME AccountsOK, Restart
    PROVE  AccountsOK'
  <1>1. UNCHANGED <<users, linked, had, held, requests, saved>>
        /\ flow' = [f \in Flows |-> Idle]
        /\ session' = saved.session /\ index' = saved.index /\ codes' = saved.codes
    BY DEF Restart
  <1>2. faults' \in 0 .. MaxFaults
    BY NamesAssumption DEF AccountsOK, AccountsTypeOK, Restart
  <1>3. AccountsTypeOK'
    BY <1>1, <1>2, IdleIsFrame DEF AccountsOK, AccountsTypeOK, SavedOK, SessionsFit
  <1>4. NoGhosts' /\ RowsOK' /\ SavedOK' /\ SessionsFit(session', users', had')
    BY <1>1 DEF AccountsOK, NoGhosts, RowsOK, SavedOK
  <1>5. \A f \in Flows : FrameFits(flow'[f], users', linked', had')
    BY <1>1, IdleFits
  <1> QED BY <1>3, <1>4, <1>5 DEF AccountsOK

LEMMA SnapshotStep ==
    ASSUME AccountsOK, Snapshot
    PROVE  AccountsOK'
  <1>1. UNCHANGED accountVars /\ saved' = StoreNow
    BY DEF Snapshot
  <1>2. SavedOK'
    BY <1>1 DEF SavedOK, StoreNow, AccountsOK, AccountsTypeOK, accountVars
  <1> QED BY <1>1, <1>2 DEF AccountsOK, AccountsTypeOK, NoGhosts, RowsOK, accountVars

\* The steps of games that count a request or a fault.
LEMMA CountingStep ==
    ASSUME AccountsOK, UNCHANGED <<users, linked, store, held, flow, had, saved>>,
           requests' \in 0 .. MaxRequests, faults' \in 0 .. MaxFaults
    PROVE  AccountsOK'
  BY DEF AccountsOK, AccountsTypeOK, NoGhosts, RowsOK, SavedOK, store

LEMMA AccountsInvariant == Spec => []AccountsOK
  <1>1. Init => AccountsOK
    <2> SUFFICES ASSUME Init PROVE AccountsOK
      OBVIOUS
    <2>1. AccountsTypeOK /\ NoGhosts /\ RowsOK
      BY NamesAssumption, IdleIsFrame
         DEF Init, AccountsInit, AccountsTypeOK, NoSession, NoGhosts, RowsOK, Tokens
    <2>2. SessionsFit(session, users, had)
      BY NamesAssumption DEF Init, AccountsInit, SessionsFit, NoSession
    <2>3. SavedOK
      BY <2>1, <2>2 DEF Init, SavedOK, StoreNow, AccountsTypeOK
    <2>4. \A f \in Flows : FrameFits(flow[f], users, linked, had)
      BY IdleFits DEF Init, AccountsInit
    <2> QED BY <2>1, <2>2, <2>3, <2>4 DEF AccountsOK
  <1>2. AccountsOK /\ [Next]_vars => AccountsOK'
    <2> SUFFICES ASSUME AccountsOK, [Next]_vars PROVE AccountsOK'
      OBVIOUS
    <2>1. CASE AccountsNext /\ UNCHANGED recordVars
      BY <2>1, AccountsStep DEF recordVars
    <2>2. CASE Start
      BY <2>2, CountingStep, NamesAssumption DEF Start, Count, AccountsOK, AccountsTypeOK
    <2>3. CASE Finish \/ FindMembers \/ Insert \/ Evict \/ ReadRanking \/ NextWeek
      <3>1. UNCHANGED <<accountVars, saved>>
        BY <2>3 DEF Finish, FindMembers, Insert, Evict, ReadRanking, NextWeek
      <3> QED BY <3>1, CountingStep DEF AccountsOK, AccountsTypeOK, accountVars, store
    <2>4. CASE ArchiveFails
      BY <2>4, CountingStep, NamesAssumption DEF ArchiveFails, AccountsOK, AccountsTypeOK
    <2>5. CASE Snapshot
      BY <2>5, SnapshotStep
    <2>6. CASE Restart
      BY <2>6, RestartStep
    <2>7. CASE UNCHANGED vars
      BY <2>7, CountingStep
         DEF vars, accountVars, recordVars, store, AccountsOK, AccountsTypeOK
    <2> QED BY <2>1, <2>2, <2>3, <2>4, <2>5, <2>6, <2>7 DEF Next
  <1> QED BY <1>1, <1>2, PTL DEF Spec

\* However logins and registrations overlap, and whatever fails or is brought back by
\* a restart, a person is one member (Accounts.OneMember).
THEOREM MembersAreOne == Spec => []OneMember
  <1>1. AccountsOK => OneMember
    <2> SUFFICES ASSUME AccountsOK PROVE OneMember
      OBVIOUS
    <2>1. ASSUME NEW f \in Flows, flow[f].pc \in {"adopt", "open"}
          PROVE  flow[f].id = linked[flow[f].person] /\ flow[f].id # Nobody
      BY <2>1, NamesAssumption DEF AccountsOK, FrameFits
    <2>2. OwnSessions
      BY <2>1 DEF OwnSessions, AccountsOK, SessionsFit
    <2> QED BY <2>2 DEF AccountsOK, OneMember
  <1> QED BY <1>1, AccountsInvariant, PTL

\* A session shows only names that the profile has had, and no login undoes the name
\* that a member chose (Accounts.NamesAreKept).
THEOREM ChosenNamesAreKept == Spec => NamesAreKept
  <1>1. AccountsOK => NamesAreKnown
    BY DEF AccountsOK, SessionsFit, NamesAreKnown
  <1> DEFINE Chosen == \A u \in Ids : users[u] \notin {NoName, Placeholder, users'[u]} =>
                          \E f \in Flows : flow[f].pc = "rename" /\ flow[f].id = u
                                           /\ users'[u] = flow[f].name
  <1>2. AccountsOK /\ [Next]_vars => [Chosen]_users
    <2> SUFFICES ASSUME AccountsOK, Next, users' # users PROVE Chosen
      BY DEF vars, accountVars
    <2>1. AccountsNext
      BY DEF Next, Start, Finish, FindMembers, Insert, Evict, ArchiveFails, ReadRanking,
             NextWeek, Snapshot, Restart, accountVars
    <2>2. PICK f \in Flows : Register(f) \/ Adopt(f) \/ Rename(f)
      BY <2>1 DEF AccountsNext, Login, Profile, Leave, SignIn, Find, Recover, Open, Exchange,
             AskRename, Show, Logout, Unhash, DatabaseFails
    <2>3. users \in [Ids -> Names \cup {NoName}] /\ FrameFits(flow[f], users, linked, had)
      BY DEF AccountsOK, AccountsTypeOK
    <2>4. CASE Register(f)
      BY <2>3, <2>4 DEF Register, WriteName
    <2>5. CASE Adopt(f)
      BY <2>3, <2>5 DEF Adopt, WriteName, StillUnnamed
    <2>6. CASE Rename(f)
      BY <2>3, <2>6 DEF Rename, WriteName, At
    <2> QED BY <2>2, <2>4, <2>5, <2>6
  <1> QED BY <1>1, <1>2, AccountsInvariant, PTL DEF Spec, NamesAreKept, ChosenNamesStay

-----------------------------------------------------------------------------
(* The archive.                                                              *)

\* A room, the one of the store or the one of the snapshot: its game has been
\* counted, somebody plays it, and the members among them have a row in users.
RoomFits(g, ph, ro, to, us, rq) ==
    /\ g \in 0 .. rq
    /\ ph \in {"LOBBY", "PLAYING", "FINISHED"}
    /\ ph # "LOBBY" => g \in GameIds
    /\ ro \subseteq Players
    /\ ph = "PLAYING" => ro # {}
    /\ \A u \in ro \cap Ids : us[u] # NoName
    /\ to = <<>> \/ to \in Results

\* A finished game is in the archive unless that was given up.
EndKept(g, ph, to) ==
    ph = "FINISHED" /\ g \notin failed =>
        /\ IsSaved(g)
        /\ matches[g].result = to \/ g \in replayed

\* Games are numbered, so that the archive never holds the game that starts next.
MatchesOK ==
    /\ matches \in [GameIds -> [result : Results \cup {<<>>}, members : SUBSET Ids, week : Weeks]]
    /\ \A g \in GameIds : IsSaved(g) => g <= requests
    /\ MembersAreKept

\* The one call that finishes a game works for the game that the room shows as
\* finished, or for one before the game that is on.
ClosingOK ==
    /\ closing \in [pc : {"idle", "members", "insert", "evict"}, game : 0 .. MaxRequests,
                    result : Results \cup {<<>>}, members : SUBSET Ids, week : Weeks]
    /\ closing.pc # "idle" =>
          /\ closing.game \in GameIds /\ closing.game <= requests
          /\ closing.result \in Results /\ closing.result # <<>>
          /\ \/ phase = "FINISHED" /\ closing.game = game /\ closing.result = totals
             \/ phase = "PLAYING" /\ closing.game # game
    /\ closing.pc = "members" => \A u \in DOMAIN closing.result \cap Ids : users[u] # NoName
    /\ closing.pc = "insert" => closing.members = DOMAIN closing.result \cap Ids
    /\ closing.pc \in {"members", "insert"} /\ IsSaved(closing.game) => closing.game \in replayed

RoomOK ==
    /\ RoomFits(game, phase, roster, totals, users, requests)
    /\ closing.pc \notin {"members", "insert"} => EndKept(game, phase, totals)
    /\ phase = "PLAYING" /\ IsSaved(game) => game \in replayed

SnapshotOK ==
    /\ RoomFits(saved.game, saved.phase, saved.roster, saved.totals, users, requests)
    /\ EndKept(saved.game, saved.phase, saved.totals)

RecordsOK ==
    /\ MatchesOK
    /\ ClosingOK
    /\ RoomOK
    /\ SnapshotOK
    /\ DOMAIN cached = Weeks /\ week \in Weeks
    /\ failed \subseteq GameIds /\ replayed \subseteq GameIds

\* Members are never lost, and requests only get more.
UsersStay == /\ \A u \in Ids : users[u] # NoName => users'[u] # NoName
             /\ requests \in 0 .. MaxRequests
             /\ requests' \in requests .. MaxRequests

LEMMA RowsStay ==
    ASSUME AccountsOK, [Next]_vars
    PROVE  UsersStay
  <1>1. requests \in 0 .. MaxRequests /\ MaxRequests \in Nat
    BY NamesAssumption DEF AccountsOK, AccountsTypeOK
  <1>2. requests' \in requests .. MaxRequests
    <2>1. UNCHANGED requests \/ Count
      BY DEF Next, vars, accountVars, AccountsNext, Login, Profile, Leave, SignIn, Find, Register,
         Recover, Adopt, Open, Exchange, AskRename, Rename, Show, Logout, Unhash, DatabaseFails,
         Start, Finish, FindMembers, Insert, Evict, ArchiveFails, ReadRanking, NextWeek, Snapshot,
         Restart
    <2> QED BY <1>1, <2>1 DEF Count
  <1>3. ASSUME NEW f \in Flows, Register(f) \/ Adopt(f) \/ Rename(f)
        PROVE  \A u \in Ids : users[u] # NoName => users'[u] # NoName
    <2>1. FrameFits(flow[f], users, linked, had) /\ users \in [Ids -> Names \cup {NoName}]
      BY DEF AccountsOK, AccountsTypeOK
    <2>2. flow[f].name \in Names
      BY <1>3, <2>1 DEF FrameFits, Register, Adopt, Rename, At
    <2>3. flow[f].name # NoName
      BY <2>2, NamesAssumption
    <2>4. UNCHANGED users \/ \E u \in Ids : WriteName(u, flow[f].name)
      BY <1>3, <2>1 DEF Register, Adopt, Rename, FrameFits, At
    <2> QED BY <2>1, <2>3, <2>4 DEF WriteName
  <1>4. UNCHANGED users \/ \E f \in Flows : Register(f) \/ Adopt(f) \/ Rename(f)
    BY DEF Next, vars, accountVars, AccountsNext, Login, Profile, Leave, SignIn, Find, Recover, Open,
       Exchange, AskRename, Show, Logout, Unhash, DatabaseFails, Start, Finish, FindMembers,
       Insert, Evict, ArchiveFails, ReadRanking, NextWeek, Snapshot, Restart
  <1> QED BY <1>1, <1>2, <1>3, <1>4 DEF UsersStay

\* A room that fits goes on to fit.
LEMMA RoomStays ==
    ASSUME NEW g, NEW ph, NEW ro, NEW to, RoomFits(g, ph, ro, to, users, requests), UsersStay
    PROVE  RoomFits(g, ph, ro, to, users', requests')
  BY NamesAssumption DEF RoomFits, UsersStay

LEMMA SnapshotFitStays ==
    ASSUME SnapshotOK, UsersStay
    PROVE  RoomFits(saved.game, saved.phase, saved.roster, saved.totals, users', requests')
  BY RoomStays DEF SnapshotOK

\* A result is never empty, and thereby tells a record from none.
LEMMA SomebodyScored ==
    ASSUME NEW ro, ro # {}, NEW r \in [ro -> Scores]
    PROVE  r # <<>>
  <1>1. DOMAIN r = ro
    OBVIOUS
  <1>2. DOMAIN <<>> = {}
    OBVIOUS
  <1> QED BY <1>1, <1>2
-----------------------------------------------------------------------------
(* The steps of a game.                                                      *)

\* What every step but those of the archive leaves as it is.
LEMMA ArchiveRests ==
    ASSUME RecordsOK, UsersStay, UNCHANGED <<matches, saved, failed, replayed>>
    PROVE  MatchesOK' /\ SnapshotOK'
  <1>1. MatchesOK'
    BY NamesAssumption DEF RecordsOK, MatchesOK, MembersAreKept, IsSaved, UsersStay, GameIds
  <1>2. SnapshotOK'
    BY SnapshotFitStays DEF RecordsOK, SnapshotOK, EndKept, IsSaved
  <1> QED BY <1>1, <1>2

LEMMA OtherStep ==
    ASSUME RecordsOK, UsersStay, UNCHANGED <<roomVars, closing, matches, saved, failed, replayed>>,
           DOMAIN cached' = Weeks, week' \in Weeks
    PROVE  RecordsOK'
  <1>1. MatchesOK' /\ SnapshotOK'
    BY ArchiveRests
  <1>2. RoomFits(game, phase, roster, totals, users', requests')
    BY RoomStays DEF RecordsOK, RoomOK
  <1>3. RoomOK'
    BY <1>2 DEF RecordsOK, RoomOK, EndKept, IsSaved, roomVars
  <1>4. ClosingOK'
    BY NamesAssumption DEF RecordsOK, ClosingOK, IsSaved, UsersStay, roomVars, GameIds
  <1> QED BY <1>1, <1>3, <1>4 DEF RecordsOK

LEMMA StartStep ==
    ASSUME AccountsOK, RecordsOK, Start, UsersStay
    PROVE  RecordsOK'
  <1>1. MatchesOK' /\ SnapshotOK'
    BY ArchiveRests DEF Start
  <1>2. game' = requests + 1 /\ requests' = requests + 1 /\ requests + 1 \in GameIds
        /\ requests \in Nat
    BY NamesAssumption DEF Start, Count, AccountsOK, AccountsTypeOK, GameIds
  <1>3. ~IsSaved(requests + 1)
    BY <1>2 DEF RecordsOK, MatchesOK
  <1>4. PICK ps \in SUBSET ({u \in Ids : session[u].token # 0} \cup Guests) :
            ps # {} /\ roster' = ps
    BY DEF Start
  <1>5. \A u \in roster' \cap Ids : users'[u] # NoName
    <2>1. ASSUME NEW u \in roster' \cap Ids
          PROVE  session[u] # NoSession
      <3>1. session[u].token # 0
        BY <1>4, <2>1, RecordsAssumption
      <3> QED BY <3>1 DEF NoSession
    <2> QED BY <2>1 DEF AccountsOK, SessionsFit, Start
  <1>6. RoomFits(game', phase', roster', totals', users', requests')
    BY <1>2, <1>4, <1>5 DEF RoomFits, Start, Players
  <1>7. RoomOK'
    BY <1>2, <1>3, <1>6 DEF RoomOK, EndKept, IsSaved, Start
  <1>8. ClosingOK'
    BY <1>2 DEF RecordsOK, ClosingOK, IsSaved, Start, UsersStay
  <1> QED BY <1>1, <1>7, <1>8 DEF RecordsOK, Start

LEMMA FinishStep ==
    ASSUME RecordsOK, Finish, UsersStay
    PROVE  RecordsOK'
  <1>1. MatchesOK' /\ SnapshotOK'
    BY ArchiveRests DEF Finish
  <1>2. PICK r \in [roster -> Scores] :
          /\ totals' = r
          /\ closing' = [NoClosing EXCEPT !.pc = "members", !.game = game, !.result = r]
    BY DEF Finish
  <1>3. /\ roster \subseteq Players /\ roster # {} /\ game \in GameIds /\ game <= requests
        /\ \A u \in roster \cap Ids : users[u] # NoName
    BY NamesAssumption DEF RecordsOK, RoomOK, RoomFits, Finish, UsersStay
  <1>4. r \in Results
    BY <1>3 DEF Results
  <1>5. closing' = [pc |-> "members", game |-> game, result |-> r, members |-> {}, week |-> 0]
    BY <1>2 DEF NoClosing
  <1>6. UNCHANGED <<users, game, roster, matches, replayed, failed, requests>>
        /\ phase = "PLAYING" /\ phase' = "FINISHED"
    BY DEF Finish, accountVars
  <1>7. RoomFits(game', phase', roster', totals', users', requests')
    BY <1>2, <1>4, <1>6 DEF RecordsOK, RoomOK, RoomFits
  <1>8. RoomOK'
    BY <1>5, <1>6, <1>7 DEF RoomOK
  <1>9. ClosingOK'
    <2>1. closing' \in [pc : {"idle", "members", "insert", "evict"}, game : 0 .. MaxRequests,
                    result : Results \cup {<<>>}, members : SUBSET Ids, week : Weeks]
      BY <1>3, <1>4, <1>5, RecordsAssumption, NamesAssumption DEF Weeks, GameIds
    <2>2. DOMAIN r = roster
      OBVIOUS
    <2>3. IsSaved(game) => game \in replayed
      BY <1>6 DEF RecordsOK, RoomOK
    <2> QED BY <1>2, <1>3, <1>4, <1>5, <1>6, <2>1, <2>2, <2>3 DEF ClosingOK, IsSaved
  <1> QED BY <1>1, <1>8, <1>9 DEF RecordsOK, Finish

\* A step of the one call that finishes a game, which leaves the archive alone.
LEMMA ClosingStep ==
    ASSUME RecordsOK, UsersStay,
           UNCHANGED <<accountVars, roomVars, matches, saved, failed, replayed>>,
           week' = week, DOMAIN cached' = Weeks, ClosingOK',
           closing'.pc \notin {"members", "insert"} => closing.pc \notin {"members", "insert"}
    PROVE  RecordsOK'
  <1>1. MatchesOK' /\ SnapshotOK'
    BY ArchiveRests
  <1>2. RoomOK'
    BY DEF RecordsOK, RoomOK, EndKept, IsSaved, roomVars, accountVars
  <1> QED BY <1>1, <1>2 DEF RecordsOK

LEMMA FindMembersStep ==
    ASSUME RecordsOK, FindMembers, UsersStay
    PROVE  RecordsOK'
  <1> DEFINE ms == {u \in DOMAIN closing.result \cap Ids : users[u] # NoName}
  <1>1. closing' = [closing EXCEPT !.pc = "insert", !.week = week, !.members = ms]
    BY DEF FindMembers
  <1>2. ms = DOMAIN closing.result \cap Ids
    BY DEF RecordsOK, ClosingOK, FindMembers
  <1>3. /\ closing \in [pc : {"idle", "members", "insert", "evict"}, game : 0 .. MaxRequests,
                    result : Results \cup {<<>>}, members : SUBSET Ids, week : Weeks]
        /\ week \in Weeks /\ closing.pc = "members"
    BY DEF RecordsOK, ClosingOK, FindMembers
  <1>4. /\ closing'.pc = "insert" /\ closing'.game = closing.game
        /\ closing'.result = closing.result /\ closing'.members = ms
        /\ closing' \in [pc : {"idle", "members", "insert", "evict"}, game : 0 .. MaxRequests,
                    result : Results \cup {<<>>}, members : SUBSET Ids, week : Weeks]
    BY <1>1, <1>3
  <1>5. UNCHANGED <<accountVars, roomVars, matches, saved, failed, replayed, cached, week>>
    BY DEF FindMembers
  <1>6. ClosingOK'
    BY <1>2, <1>3, <1>4, <1>5 DEF RecordsOK, ClosingOK, IsSaved, roomVars, accountVars
  <1> HIDE DEF ms
  <1> QED BY <1>4, <1>5, <1>6, ClosingStep DEF RecordsOK

LEMMA EvictStep ==
    ASSUME RecordsOK, Evict, UsersStay
    PROVE  RecordsOK'
  <1>1. NoClosing \in [pc : {"idle", "members", "insert", "evict"}, game : 0 .. MaxRequests,
                    result : Results \cup {<<>>}, members : SUBSET Ids, week : Weeks]
    BY NamesAssumption, RecordsAssumption DEF NoClosing, Weeks
  <1>2. ClosingOK'
    BY <1>1 DEF Evict, ClosingOK, NoClosing
  <1>3. DOMAIN cached' = Weeks
    BY DEF Evict, Evicted
  <1> QED BY <1>2, <1>3, ClosingStep DEF Evict

\* The record of a game: the first one stays, and holds the members of the result.
LEMMA InsertStep ==
    ASSUME RecordsOK, Insert, UsersStay
    PROVE  RecordsOK'
  <1> DEFINE g == closing.game
  <1>1. /\ closing.pc = "insert" /\ matches' = Inserted
        /\ UNCHANGED <<users, game, phase, roster, totals, cached, week, saved, failed, replayed, requests>>
    BY DEF Insert, accountVars, roomVars
  <1>2. /\ closing \in [pc : {"idle", "members", "insert", "evict"}, game : 0 .. MaxRequests,
                    result : Results \cup {<<>>}, members : SUBSET Ids, week : Weeks]
        /\ g \in GameIds /\ g <= requests /\ closing.result \in Results
        /\ closing.result # <<>> /\ closing.members = DOMAIN closing.result \cap Ids
        /\ IsSaved(g) => g \in replayed
        /\ \/ phase = "FINISHED" /\ g = game /\ closing.result = totals
           \/ phase = "PLAYING" /\ g # game
    BY <1>1 DEF RecordsOK, ClosingOK
  <1>3. matches \in [GameIds -> [result : Results \cup {<<>>}, members : SUBSET Ids, week : Weeks]]
    BY DEF RecordsOK, MatchesOK
  <1>4. closing' = [closing EXCEPT !.pc = "evict"]
    BY DEF Insert
  <1>5. Record \in [result : Results \cup {<<>>}, members : SUBSET Ids, week : Weeks]
        /\ Record.result = closing.result /\ Record.members = closing.members
    BY <1>2 DEF Record
  <1>6. \A h \in GameIds : h # g \/ IsSaved(h) => matches'[h] = matches[h]
    BY <1>1, <1>2, <1>3 DEF Inserted
  <1>7. ~IsSaved(g) => matches'[g] = Record
    BY <1>1, <1>2, <1>3 DEF Inserted
  <1>8. matches' \in [GameIds -> [result : Results \cup {<<>>}, members : SUBSET Ids, week : Weeks]]
    BY <1>1, <1>3, <1>5 DEF Inserted
  <1>9. MatchesOK'
    <2>1. ASSUME NEW h \in GameIds, IsSaved(h)'
          PROVE  h <= requests /\ matches'[h].members = DOMAIN matches'[h].result \cap Ids
      <3>1. CASE h # g \/ IsSaved(h)
        <4>1. matches'[h] = matches[h]
          BY <1>6, <3>1
        <4> QED BY <2>1, <4>1 DEF IsSaved, RecordsOK, MatchesOK, MembersAreKept
      <3>2. CASE h = g /\ ~IsSaved(g)
        BY <1>2, <1>5, <1>7, <3>2
      <3> QED BY <3>1, <3>2
    <2> QED BY <1>1, <1>8, <2>1 DEF MatchesOK, MembersAreKept
  <1>10. SnapshotOK'
    <2>1. RoomFits(saved.game, saved.phase, saved.roster, saved.totals, users', requests')
      BY SnapshotFitStays DEF RecordsOK
    <2>2. saved.phase = "FINISHED" => saved.game \in GameIds
      BY DEF RecordsOK, SnapshotOK, RoomFits
    <2>3. EndKept(saved.game, saved.phase, saved.totals)'
      BY <1>1, <1>6, <2>2 DEF RecordsOK, SnapshotOK, EndKept, IsSaved
    <2> QED BY <1>1, <2>1, <2>3 DEF SnapshotOK
  <1>11. closing'.pc = "evict" /\ closing'.game = g /\ closing'.result = closing.result
         /\ closing' \in [pc : {"idle", "members", "insert", "evict"}, game : 0 .. MaxRequests,
                    result : Results \cup {<<>>}, members : SUBSET Ids, week : Weeks]
    BY <1>2, <1>4
  <1>12. ClosingOK'
    BY <1>1, <1>2, <1>11 DEF ClosingOK
  <1>13. RoomOK'
    <2>1. RoomFits(game', phase', roster', totals', users', requests')
      BY <1>1 DEF RecordsOK, RoomOK
    <2>2. phase = "PLAYING" /\ IsSaved(game)' => game \in replayed
      <3>1. phase = "PLAYING" => game \in GameIds /\ game # g
        BY <1>2 DEF RecordsOK, RoomOK, RoomFits
      <3> QED BY <1>1, <1>6, <3>1 DEF IsSaved, RecordsOK, RoomOK
    <2>3. phase = "FINISHED" => IsSaved(game)' /\ (matches'[game].result = totals \/ game \in replayed)
      <3>1. SUFFICES ASSUME phase = "FINISHED"
                     PROVE  IsSaved(game)' /\ (matches'[game].result = totals \/ game \in replayed)
        OBVIOUS
      <3>2. g = game /\ closing.result = totals
        BY <1>2, <3>1
      <3>3. CASE IsSaved(g)
        BY <1>1, <1>2, <1>6, <3>2, <3>3 DEF IsSaved
      <3>4. CASE ~IsSaved(g)
        BY <1>1, <1>2, <1>5, <1>7, <3>2, <3>4 DEF IsSaved
      <3> QED BY <3>3, <3>4
    <2> QED BY <1>1, <2>1, <2>2, <2>3 DEF RoomOK, EndKept
  <1> QED BY <1>1, <1>9, <1>10, <1>12, <1>13 DEF RecordsOK

LEMMA ArchiveFailsStep ==
    ASSUME RecordsOK, ArchiveFails, UsersStay
    PROVE  RecordsOK'
  <1>1. /\ UNCHANGED <<users, requests, game, phase, roster, totals, matches, cached, week, saved, replayed>>
        /\ closing.pc # "idle" /\ closing' = NoClosing /\ failed' = failed \cup {closing.game}
    BY DEF ArchiveFails, roomVars
  <1>2. closing.game \in GameIds /\ (phase = "FINISHED" => closing.game = game)
    BY <1>1 DEF RecordsOK, ClosingOK
  <1>3. MatchesOK'
    BY <1>1 DEF RecordsOK, MatchesOK, MembersAreKept, IsSaved
  <1>4. SnapshotOK'
    BY <1>1 DEF RecordsOK, SnapshotOK, EndKept, IsSaved
  <1>5. NoClosing \in [pc : {"idle", "members", "insert", "evict"}, game : 0 .. MaxRequests,
                    result : Results \cup {<<>>}, members : SUBSET Ids, week : Weeks]
    BY NamesAssumption, RecordsAssumption DEF NoClosing, Weeks
  <1>6. ClosingOK'
    BY <1>1, <1>5 DEF ClosingOK, NoClosing
  <1>7. RoomOK'
    BY <1>1, <1>2 DEF RecordsOK, RoomOK, EndKept, IsSaved
  <1> QED BY <1>1, <1>2, <1>3, <1>4, <1>6, <1>7 DEF RecordsOK

LEMMA SnapshotRecords ==
    ASSUME RecordsOK, Snapshot, UsersStay
    PROVE  RecordsOK'
  <1>1. UNCHANGED <<users, requests, game, phase, roster, totals, closing, matches, cached, week, failed, replayed>>
        /\ saved' = StoreNow /\ closing.pc = "idle"
    BY DEF Snapshot, accountVars, roomVars
  <1>2. SnapshotOK'
    BY <1>1 DEF RecordsOK, SnapshotOK, RoomOK, EndKept, IsSaved, StoreNow
  <1>3. MatchesOK' /\ ClosingOK' /\ RoomOK'
    BY <1>1 DEF RecordsOK, MatchesOK, MembersAreKept, ClosingOK, RoomOK, EndKept, IsSaved
  <1> QED BY <1>1, <1>2, <1>3 DEF RecordsOK

LEMMA RestartRecords ==
    ASSUME RecordsOK, Restart, UsersStay
    PROVE  RecordsOK'
  <1>1. /\ UNCHANGED <<users, requests, matches, week, saved, failed>>
        /\ game' = saved.game /\ phase' = saved.phase /\ roster' = saved.roster /\ totals' = saved.totals
        /\ closing' = NoClosing /\ cached' = [w \in Weeks |-> Missing]
        /\ replayed' = IF saved.phase = "PLAYING" /\ IsSaved(saved.game)
                       THEN replayed \cup {saved.game} ELSE replayed
    BY DEF Restart
  <1>2. RoomFits(saved.game, saved.phase, saved.roster, saved.totals, users, requests)
        /\ EndKept(saved.game, saved.phase, saved.totals)
    BY DEF RecordsOK, SnapshotOK
  <1>3. replayed \subseteq replayed' /\ replayed' \subseteq GameIds
    BY <1>1, <1>2 DEF RoomFits, RecordsOK
  <1>4. MatchesOK'
    BY <1>1 DEF RecordsOK, MatchesOK, MembersAreKept, IsSaved
  <1>5. EndKept(saved.game, saved.phase, saved.totals)'
    BY <1>1, <1>2, <1>3 DEF EndKept, IsSaved
  <1>6. SnapshotOK'
    BY <1>1, <1>2, <1>5 DEF SnapshotOK
  <1>7. NoClosing \in [pc : {"idle", "members", "insert", "evict"}, game : 0 .. MaxRequests,
                    result : Results \cup {<<>>}, members : SUBSET Ids, week : Weeks]
    BY NamesAssumption, RecordsAssumption DEF NoClosing, Weeks
  <1>8. ClosingOK'
    BY <1>1, <1>7 DEF ClosingOK, NoClosing
  <1>9. RoomOK'
    BY <1>1, <1>2, <1>3, <1>5 DEF RoomOK, EndKept, IsSaved
  <1> QED BY <1>1, <1>3, <1>4, <1>6, <1>8, <1>9 DEF RecordsOK

LEMMA RecordsInvariant == Spec => []RecordsOK
  <1>1. Init => RecordsOK
    <2> SUFFICES ASSUME Init PROVE RecordsOK
      OBVIOUS
    <2>1. \A g \in GameIds : ~IsSaved(g)
      BY DEF Init, IsSaved, Unsaved
    <2>2. MatchesOK
      BY <2>1, RecordsAssumption DEF Init, MatchesOK, MembersAreKept, Unsaved, Weeks
    <2>3. NoClosing \in [pc : {"idle", "members", "insert", "evict"}, game : 0 .. MaxRequests,
                    result : Results \cup {<<>>}, members : SUBSET Ids, week : Weeks]
      BY NamesAssumption, RecordsAssumption DEF NoClosing, Weeks
    <2>4. ClosingOK
      BY <2>3 DEF ClosingOK, Init, NoClosing
    <2>5. RoomFits(game, phase, roster, totals, users, requests)
      BY DEF RoomFits, Init, AccountsInit
    <2>6. RoomOK
      BY <2>5 DEF RoomOK, EndKept, Init
    <2>7. SnapshotOK
      BY <2>5 DEF SnapshotOK, EndKept, Init, StoreNow
    <2> QED BY <2>2, <2>4, <2>6, <2>7, RecordsAssumption DEF RecordsOK, Init, Weeks
  <1>2. AccountsOK /\ RecordsOK /\ [Next]_vars => RecordsOK'
    <2> SUFFICES ASSUME AccountsOK, RecordsOK, [Next]_vars PROVE RecordsOK'
      OBVIOUS
    <2>1. UsersStay
      BY RowsStay
    <2>2. CASE UNCHANGED recordVars
      BY <2>1, <2>2, OtherStep DEF recordVars, roomVars, RecordsOK
    <2>3. CASE Start
      BY <2>1, <2>3, StartStep
    <2>4. CASE Finish
      BY <2>1, <2>4, FinishStep
    <2>5. CASE FindMembers
      BY <2>1, <2>5, FindMembersStep
    <2>6. CASE Insert
      BY <2>1, <2>6, InsertStep
    <2>7. CASE Evict
      BY <2>1, <2>7, EvictStep
    <2>8. CASE ArchiveFails
      BY <2>1, <2>8, ArchiveFailsStep
    <2>9. CASE ReadRanking \/ NextWeek
      <3>1. DOMAIN cached' = Weeks /\ week' \in Weeks
        BY <2>9, RecordsAssumption DEF ReadRanking, NextWeek, RecordsOK, Weeks
      <3> QED BY <2>1, <2>9, <3>1, OtherStep DEF ReadRanking, NextWeek
    <2>10. CASE Snapshot
      BY <2>1, <2>10, SnapshotRecords
    <2>11. CASE Restart
      BY <2>1, <2>11, RestartRecords
    <2> QED BY <2>2, <2>3, <2>4, <2>5, <2>6, <2>7, <2>8, <2>9, <2>10, <2>11 DEF Next, vars
  <1> QED BY <1>1, <1>2, AccountsInvariant, PTL DEF Spec

\* What the archive holds is never changed, is of the members of its game, and lacks
\* no finished game but one whose archiving failed, whatever a crash took and a
\* restart brought back (Records.ArchiveIsKept).
THEOREM FinishedGamesAreArchived == Spec => ArchiveIsKept
  <1>1. RecordsOK /\ AccountsOK => RecordsTypeOK /\ FinishedIsKept /\ MembersAreKept
    <2> SUFFICES ASSUME RecordsOK, AccountsOK PROVE RecordsTypeOK /\ FinishedIsKept /\ MembersAreKept
      OBVIOUS
    <2>1. RecordsTypeOK
      BY NamesAssumption
         DEF RecordsOK, MatchesOK, ClosingOK, RoomOK, RoomFits, RecordsTypeOK, AccountsOK, AccountsTypeOK
    <2>2. FinishedIsKept
      BY DEF RecordsOK, RoomOK, EndKept, FinishedIsKept
    <2> QED BY <2>1, <2>2 DEF RecordsOK, MatchesOK
  <1> DEFINE Kept == \A g \in GameIds : IsSaved(g) => matches'[g] = matches[g]
  <1>2. RecordsOK /\ [Next]_vars => [Kept]_matches
    <2> SUFFICES ASSUME RecordsOK, [Next]_vars, matches' # matches PROVE Kept
      OBVIOUS
    <2>1. Insert
      BY DEF Next, vars, recordVars, Start, Finish, FindMembers, Evict, ArchiveFails, ReadRanking,
             NextWeek, Snapshot, Restart
    <2> QED BY <2>1 DEF RecordsOK, MatchesOK, Insert, Inserted
  <1> QED BY <1>1, <1>2, AccountsInvariant, RecordsInvariant, PTL
          DEF Spec, ArchiveIsKept, FirstResultStays

-----------------------------------------------------------------------------
(* The ranking.                                                              *)

\* Any set of points has a greatest one, which Max chooses.
LEMMA MaxOfScores ==
    ASSUME NEW S, S \subseteq Scores, S # {}
    PROVE  Max(S) \in S /\ \A s \in S : s <= Max(S)
  <1> DEFINE T == {MaxScore - s : s \in S}
  <1>1. T \subseteq Nat /\ T # {}
    BY RecordsAssumption DEF Scores
  <1>2. PICK x \in T : \A y \in T : ~ (<<y, x>> \in OpToRel(<, Nat))
    BY <1>1, NatLessThanWellFounded, WFMin
  <1>3. \A y \in T : ~ (y < x)
    BY <1>1, <1>2 DEF OpToRel
  <1>4. PICK m \in S : x = MaxScore - m
    BY <1>2
  <1>5. \A s \in S : m >= s
    <2> SUFFICES ASSUME NEW s \in S PROVE m >= s
      OBVIOUS
    <2>1. ~(MaxScore - s < MaxScore - m)
      BY <1>3, <1>4
    <2> QED BY <2>1, RecordsAssumption DEF Scores
  <1>6. Max(S) \in S /\ \A s \in S : Max(S) >= s
    BY <1>4, <1>5 DEF Max
  <1> QED BY <1>6, RecordsAssumption DEF Scores

\* The points of a member in a week, as the archive has them.
LEMMA ScoresOfAreScores ==
    ASSUME MatchesOK, NEW u \in Ids, NEW w
    PROVE  ScoresOf(u, w) \subseteq Scores
  <1> SUFFICES ASSUME NEW g \in MatchesOf(w), u \in matches[g].members
               PROVE  matches[g].result[u] \in Scores
    BY DEF ScoresOf
  <1>1. g \in GameIds /\ IsSaved(g)
    BY DEF MatchesOf
  <1>2. u \in DOMAIN matches[g].result
    BY <1>1 DEF MatchesOK, MembersAreKept
  <1>3. matches[g].result \in Results
    BY <1>1 DEF MatchesOK, IsSaved
  <1>4. PICK ps \in SUBSET Players : matches[g].result \in [ps -> Scores]
    BY <1>3 DEF Results
  <1> QED BY <1>2, <1>4

\* To be behind somebody's best is to be behind them in some game: the number in the
\* list is the number that a member's own query gives.
LEMMA NumbersAgree ==
    ASSUME MatchesOK, NEW w, NEW u \in Ranked(w)
    PROVE  NumberIn(WeeklyBest(w), u) = MyNumber(u, w)
  <1> DEFINE best == WeeklyBest(w)
             ahead == {v \in DOMAIN best : best[v] > best[u]}
             faster == {v \in Ids : \E s \in ScoresOf(v, w) : s > Max(ScoresOf(u, w))}
  <1>1. DOMAIN best = Ranked(w) /\ \A v \in Ranked(w) : best[v] = Max(ScoresOf(v, w))
    BY DEF WeeklyBest
  <1>2. \A v \in Ranked(w) : /\ v \in Ids
                             /\ Max(ScoresOf(v, w)) \in ScoresOf(v, w)
                             /\ ScoresOf(v, w) \subseteq Scores
                             /\ \A s \in ScoresOf(v, w) : s <= Max(ScoresOf(v, w))
    BY ScoresOfAreScores, MaxOfScores DEF Ranked
  <1>3. ahead \subseteq faster
    BY <1>1, <1>2
  <1>4. faster \subseteq ahead
    <2> SUFFICES ASSUME NEW v \in Ids, NEW s \in ScoresOf(v, w), s > Max(ScoresOf(u, w))
                 PROVE  v \in ahead
      OBVIOUS
    <2>1. v \in Ranked(w)
      BY DEF Ranked
    <2>2. s <= Max(ScoresOf(v, w)) /\ s \in Nat /\ Max(ScoresOf(v, w)) \in Nat
          /\ Max(ScoresOf(u, w)) \in Nat
      BY <1>2, <2>1, RecordsAssumption DEF Scores
    <2> QED BY <1>1, <2>1, <2>2
  <1>5. ahead = faster
    BY <1>3, <1>4
  <1> QED BY <1>5 DEF NumberIn, MyNumber

\* What the cache has is the ranking, except between a record and the eviction.
CacheOK == closing.pc # "evict" =>
              \A w \in Weeks : cached[w].kept => cached[w].best = WeeklyBest(w)

LEMMA CacheInvariant == Spec => []CacheOK
  <1>1. Init => CacheOK
    BY DEF Init, CacheOK, Missing
  <1>2. RecordsOK /\ CacheOK /\ [Next]_vars => CacheOK'
    <2> SUFFICES ASSUME RecordsOK, CacheOK, [Next]_vars PROVE CacheOK'
      OBVIOUS
    <2>1. CASE Insert
      BY <2>1 DEF CacheOK, Insert, RecordsOK, ClosingOK
    <2>2. CASE Evict \/ Restart
      BY <2>2 DEF CacheOK, Evict, Evicted, Restart, Missing
    <2>3. CASE ReadRanking
      <3>1. DOMAIN cached = Weeks /\ week \in Weeks
            /\ cached' = [cached EXCEPT ![week] = [kept |-> TRUE, best |-> WeeklyBest(week)]]
            /\ UNCHANGED <<matches, closing>>
        BY <2>3 DEF ReadRanking, RecordsOK
      <3>2. \A w : WeeklyBest(w)' = WeeklyBest(w)
        BY <3>1 DEF WeeklyBest, Ranked, ScoresOf, MatchesOf, IsSaved
      <3>3. \A w \in Weeks : cached'[w] = IF w = week THEN [kept |-> TRUE, best |-> WeeklyBest(week)]
                                                   ELSE cached[w]
        BY <3>1
      <3>4. SUFFICES ASSUME closing'.pc # "evict", NEW w \in Weeks, cached'[w].kept
                     PROVE  cached'[w].best = WeeklyBest(w)'
        BY DEF CacheOK
      <3>5. cached'[w].best = WeeklyBest(w)
        BY <3>1, <3>3, <3>4 DEF CacheOK
      <3> QED BY <3>2, <3>5
    <2>4. CASE UNCHANGED <<cached, matches>> /\ (closing'.pc # "evict" => closing.pc # "evict")
      <3>1. \A w : WeeklyBest(w)' = WeeklyBest(w)
        BY <2>4 DEF WeeklyBest, Ranked, ScoresOf, MatchesOf, IsSaved
      <3>2. SUFFICES ASSUME closing'.pc # "evict", NEW w \in Weeks, cached'[w].kept
                     PROVE  cached'[w].best = WeeklyBest(w)'
        BY DEF CacheOK
      <3>3. cached'[w].best = WeeklyBest(w)
        BY <2>4, <3>2 DEF CacheOK
      <3> QED BY <3>1, <3>3
    <2>5. CASE ~Insert /\ ~Evict /\ ~Restart /\ ~ReadRanking
      <3>1. UNCHANGED <<cached, matches>>
        BY <2>5 DEF Next, vars, recordVars, Start, Finish, FindMembers, ArchiveFails, NextWeek, Snapshot
      <3>2. closing'.pc # "evict" => closing.pc # "evict"
        BY <2>5 DEF Next, vars, recordVars, Start, Finish, FindMembers, ArchiveFails, NextWeek, Snapshot
      <3> QED BY <2>4, <3>1, <3>2
    <2> QED BY <2>1, <2>2, <2>3, <2>5
  <1> QED BY <1>1, <1>2, RecordsInvariant, PTL DEF Spec

\* The cached list is the ranking of its week and numbers every member as their own
\* query does (Records.RankingIsCurrent).
THEOREM RankingStaysCurrent == Spec => []RankingIsCurrent
  <1>1. RecordsOK /\ CacheOK => RankingIsCurrent
    BY NumbersAgree DEF RecordsOK, CacheOK, RankingIsCurrent
  <1> QED BY <1>1, RecordsInvariant, CacheInvariant, PTL

=============================================================================
