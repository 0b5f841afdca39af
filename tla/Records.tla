------------------------------ MODULE Records -------------------------------
(***************************************************************************)
(* What outlives a game of yorr: the archive of matches (game/match), the  *)
(* weekly ranking with its cache (game/ranking), and the snapshot of the   *)
(* store (infra/storeSnapshot.ts), together with the accounts that both    *)
(* the ranking and the sessions are about.                                 *)
(*                                                                         *)
(* There are three memories.  SQLite (matches, and users and linked of     *)
(* Accounts) keeps what was committed.  The store (session, index, codes,  *)
(* and here one room: game, phase, roster, totals) is lost in a crash but  *)
(* for its last snapshot.  The process (flow, closing, cached) is lost     *)
(* altogether.                                                             *)
(*                                                                         *)
(* The snapshot is taken by a timer or after everything was shut down.     *)
(* The awaits of a handler resolve before any timer fires, so it finds no  *)
(* handler half way; a crash may.                                          *)
(***************************************************************************)
EXTENDS Accounts, FiniteSetsExt

CONSTANTS
    Guests,    \* players that are not members
    MaxScore,  \* bound on the points a player ends with
    MaxWeek    \* bound on the number of the week

ASSUME RecordsAssumption ==
    /\ Guests \cap Ids = {}
    /\ MaxScore \in Nat
    /\ MaxWeek \in Nat

VARIABLES
    game,      \* room:{code} gameId, 0 before the first game
    phase,     \* room:{code} phase
    roster,    \* room:{code}:players
    totals,    \* room:{code}:scores when the game is over
    closing,   \* the frame of finishIfComplete
    matches,   \* matches and match_participants by game_id, or Unsaved
    cached,    \* CachingWeeklyRankingRepository: by week, or Missing
    week,      \* weekBoundaryOf(now)
    saved,     \* the snapshot file
    failed,    \* history: games whose archiving failed
    replayed   \* history: games a restart brought back after they were archived

roomVars == <<game, phase, roster, totals>>
recordVars == <<roomVars, closing, matches, cached, week, saved, failed, replayed>>
vars == <<accountVars, recordVars>>

GameIds == 1 .. MaxRequests
Scores == 0 .. MaxScore
Weeks == 0 .. MaxWeek
Players == Ids \cup Guests
Results == UNION {[ps -> Scores] : ps \in SUBSET Players}

NoClosing == [pc |-> "idle", game |-> 0, result |-> <<>>, members |-> {}, week |-> 0]
Unsaved == [result |-> <<>>, members |-> {}, week |-> 0]
Missing == [kept |-> FALSE, best |-> <<>>]

StoreNow == [session |-> session, index |-> index, codes |-> codes, game |-> game,
             phase |-> phase, roster |-> roster, totals |-> totals]

Init ==
    /\ AccountsInit
    /\ game = 0
    /\ phase = "LOBBY"
    /\ roster = {}
    /\ totals = <<>>
    /\ closing = NoClosing
    /\ matches = [g \in GameIds |-> Unsaved]
    /\ cached = [w \in Weeks |-> Missing]
    /\ week = 0
    /\ saved = StoreNow
    /\ failed = {}
    /\ replayed = {}

IsSaved(g) == matches[g].result # <<>>

-----------------------------------------------------------------------------
(* A game from its start to its archive.                                     *)

\* Whoever has a session, and guests, play the next game of the room; its way
\* back to the lobby is part of this step.
Start ==
    /\ phase # "PLAYING"
    /\ \E ps \in SUBSET ({u \in Ids : session[u].token # 0} \cup Guests) :
          ps # {} /\ roster' = ps
    /\ Count
    /\ game' = requests + 1
    /\ phase' = "PLAYING"
    /\ totals' = <<>>
    /\ UNCHANGED <<users, linked, store, held, flow, faults, had, closing, matches, cached, week, saved, failed, replayed>>

\* finishIfComplete of the completion service: the compare-and-set to FINISHED,
\* then the totals; the rest belongs to the one call that made the transition.
Finish ==
    /\ closing.pc = "idle"
    /\ phase = "PLAYING"
    /\ phase' = "FINISHED"
    /\ \E r \in [roster -> Scores] :
          /\ totals' = r
          /\ closing' = [NoClosing EXCEPT !.pc = "members", !.game = game, !.result = r]
    /\ UNCHANGED <<accountVars, game, roster, matches, cached, week, saved, failed, replayed>>

\* findMemberNicknames: a player is a member if users knows them, session or not.
\* The time of the match is taken here.
FindMembers ==
    /\ closing.pc = "members"
    /\ closing' = [closing EXCEPT !.pc = "insert", !.week = week,
                        !.members = {u \in DOMAIN closing.result \cap Ids : users[u] # NoName}]
    /\ UNCHANGED <<accountVars, roomVars, matches, cached, week, saved, failed, replayed>>

Record == [result |-> closing.result, members |-> closing.members, week |-> closing.week]

Replaced == [matches EXCEPT ![closing.game] = Record]   \* mutant
Inserted == IF IsSaved(closing.game) THEN matches
            ELSE [matches EXCEPT ![closing.game] = Record]

\* insert: one transaction; a game that is archived already is left as it is.
Insert ==
    /\ closing.pc = "insert"
    /\ matches' = Inserted
    /\ closing' = [closing EXCEPT !.pc = "evict"]
    /\ UNCHANGED <<accountVars, roomVars, cached, week, saved, failed, replayed>>

WeekEvicted == [cached EXCEPT ![week] = Missing]   \* mutant: only the week it is
Evicted == [w \in Weeks |-> Missing]

\* withCacheEviction: after the work, saved or duplicate.  The messages follow.
Evict ==
    /\ closing.pc = "evict"
    /\ cached' = Evicted
    /\ closing' = NoClosing
    /\ UNCHANGED <<accountVars, roomVars, matches, week, saved, failed, replayed>>

\* The database throws: the completion service swallows it, and the game is over
\* without a record.
ArchiveFails ==
    /\ closing.pc \in {"members", "insert"}
    /\ faults < MaxFaults
    /\ faults' = faults + 1
    /\ failed' = failed \cup {closing.game}
    /\ closing' = NoClosing
    /\ UNCHANGED <<users, linked, store, held, flow, requests, had, roomVars, matches, cached,
                   week, saved, replayed>>

-----------------------------------------------------------------------------
(* The weekly ranking.                                                       *)

MatchesOf(w) == {g \in GameIds : IsSaved(g) /\ matches[g].week = w}
ScoresOf(u, w) == {matches[g].result[u] : g \in {h \in MatchesOf(w) : u \in matches[h].members}}
Ranked(w) == {u \in Ids : ScoresOf(u, w) # {}}

\* findWeeklyBest: the best score of each member in the games of the week.
WeeklyBest(w) == [u \in Ranked(w) |-> Max(ScoresOf(u, w))]

\* weeklyRankingResponse: equals share a number and the next ones are skipped.
NumberIn(best, u) == 1 + Cardinality({v \in DOMAIN best : best[v] > best[u]})

\* myCurrentWeek: one more than the members who have beaten the score in some game.
MyNumber(u, w) ==
    1 + Cardinality({v \in Ids : \E s \in ScoresOf(v, w) : s > Max(ScoresOf(u, w))})

\* GET /rankings/weekly on a miss.  The rows are in the cache before the next owner
\* of the lock has come as far as to commit and evict.
ReadRanking ==
    /\ ~cached[week].kept
    /\ cached' = [cached EXCEPT ![week] = [kept |-> TRUE, best |-> WeeklyBest(week)]]
    /\ UNCHANGED <<accountVars, roomVars, closing, matches, week, saved, failed, replayed>>

NextWeek ==
    /\ week < MaxWeek
    /\ week' = week + 1
    /\ UNCHANGED <<accountVars, roomVars, closing, matches, cached, saved, failed, replayed>>

-----------------------------------------------------------------------------
(* Snapshot and restart.                                                     *)

\* saveStoreSnapshotIfChanged: the whole store or, if nothing was written since the
\* last time, nothing.  None is taken that no restart is left to read.
Snapshot ==
    /\ faults < MaxFaults
    /\ \A f \in Flows : At(f, "idle")
    /\ closing.pc = "idle"
    /\ saved' = StoreNow
    /\ UNCHANGED <<accountVars, roomVars, closing, matches, cached, week, failed, replayed>>

\* The process ends anywhere and comes up again: an open transaction is rolled back,
\* loadStoreSnapshot fills the store, and games that were PLAYING go on.
Restart ==
    /\ faults < MaxFaults
    /\ faults' = faults + 1
    /\ flow' = [f \in Flows |-> Idle]
    /\ closing' = NoClosing
    /\ cached' = [w \in Weeks |-> Missing]
    /\ session' = saved.session
    /\ index' = saved.index
    /\ codes' = saved.codes
    /\ game' = saved.game
    /\ phase' = saved.phase
    /\ roster' = saved.roster
    /\ totals' = saved.totals
    /\ replayed' = IF saved.phase = "PLAYING" /\ IsSaved(saved.game)
                   THEN replayed \cup {saved.game} ELSE replayed
    /\ UNCHANGED <<users, linked, held, requests, had, matches, week, saved, failed>>

-----------------------------------------------------------------------------
Next ==
    \/ AccountsNext /\ UNCHANGED recordVars
    \/ Start \/ Finish \/ FindMembers \/ Insert \/ Evict \/ ArchiveFails
    \/ ReadRanking \/ NextWeek
    \/ Snapshot \/ Restart

Spec == Init /\ [][Next]_vars

-----------------------------------------------------------------------------
RecordsTypeOK ==
    /\ game \in 0 .. MaxRequests
    /\ phase \in {"LOBBY", "PLAYING", "FINISHED"}
    /\ roster \subseteq Players
    /\ totals = <<>> \/ totals \in Results
    /\ closing \in [pc : {"idle", "members", "insert", "evict"}, game : 0 .. MaxRequests,
                    result : Results \cup {<<>>}, members : SUBSET Ids, week : Weeks]
    /\ matches \in [GameIds -> [result : Results \cup {<<>>}, members : SUBSET Ids, week : Weeks]]
    /\ DOMAIN cached = Weeks
    /\ week \in Weeks
    /\ failed \subseteq GameIds
    /\ replayed \subseteq GameIds

\* A room that shows a finished game has its result in the archive, also after any
\* crash and restart, unless archiving was given up; the result is the one the room
\* shows, unless a crash brought the game back and it was played to another end.
FinishedIsKept ==
    /\ phase = "FINISHED" /\ closing.pc = "idle" /\ game \notin failed =>
          /\ IsSaved(game)
          /\ matches[game].result = totals \/ game \in replayed
    /\ phase = "PLAYING" /\ IsSaved(game) => game \in replayed

\* A record is of members as the database knows them, whatever became of their
\* sessions during the game (persistence.md:124).
MembersAreKept ==
    \A g \in GameIds : IsSaved(g) => matches[g].members = DOMAIN matches[g].result \cap Ids

\* An archived match is never changed: a game that is finished a second time leaves
\* the first record as it is (matchArchiveStore.ts:31).
FirstResultStays ==
    [][\A g \in GameIds : IsSaved(g) => matches'[g] = matches[g]]_matches

ArchiveIsKept == [](RecordsTypeOK /\ FinishedIsKept /\ MembersAreKept) /\ FirstResultStays

\* The list that is served from the cache is the ranking of its week, and gives each
\* member the number that their own query gives them (weeklyRankingResponse.ts:33),
\* but for the moment between a record and the eviction.
RankingIsCurrent ==
    closing.pc # "evict" =>
        \A w \in Weeks : cached[w].kept =>
            /\ cached[w].best = WeeklyBest(w)
            /\ \A u \in Ranked(w) : NumberIn(cached[w].best, u) = MyNumber(u, w)
=============================================================================
