------------------------------ MODULE Sessions ------------------------------
(***************************************************************************)
(* What the server keeps for its users besides devices: login codes,       *)
(* access and refresh tokens, signal sessions between two devices, and the *)
(* streams of events that tell a user's windows about changes.  Handlers   *)
(* hold the lock of the store until they have saved and published, so each *)
(* is one action; the save of a changed signal session may fail.  An email *)
(* is its user; codes and tokens are numbers in the order of their making. *)
(***************************************************************************)
EXTENDS Naturals, Sequences, FiniteSets, SequencesExt

CONSTANTS
    Emails,
    Default,        \* the user of requests without a token
    Windows,        \* clients that follow events
    SessionIds,     \* signal sessions
    Priorities,     \* of connection candidates
    Channel,        \* events the broadcast channel holds for a slow stream
    MaxCodes,       \* bound: login codes
    MaxTokens,      \* bound: logins and refreshes
    MaxSignals,     \* bound: changes of signal sessions
    Absent

ASSUME SessionsAssumption ==
    /\ Priorities \subseteq Nat
    /\ Channel \in Nat \ {0}
    /\ MaxCodes \in Nat /\ MaxTokens \in Nat /\ MaxSignals \in Nat
    /\ Absent \notin Emails /\ Absent \notin Nat
    /\ Absent \notin [code : Nat, expired : BOOLEAN]
    /\ Absent \notin [user : Emails \cup {Default}, closed : BOOLEAN, candidates : Seq(Nat),
                    status : {"requested", "accepted", "rejected", "closed"}]

VARIABLES
    challenges,     \* email_login_codes: email -> [code, expired], Absent if there is none
    codes,          \* number of codes sent
    access,         \* sessions: access token -> user, by number
    refresh,        \* refresh_tokens, by number
    tokens,         \* number of tokens made
    signals,        \* signal session -> [user, status, closed, candidates], Absent before
    changes,        \* number of changes of signal sessions
    streams,        \* window -> [user, queue], Absent if it does not follow
    views,          \* window -> what it was last told of each session
    logins,         \* history: login -> the code it used
    ended,          \* history: refresh tokens that were logged out
    lagged,         \* history: windows whose stream missed events
    untold          \* history: sessions whose last change was not saved, and not published

accountVars == <<challenges, codes, access, refresh, tokens, logins, ended>>
signalVars == <<signals, changes, untold>>
streamVars == <<streams, views, lagged>>
sessionsVars == <<accountVars, signalVars, streamVars>>

NothingTold == [s \in SessionIds |-> Absent]
NoTokens == [t \in {} |-> Absent]

SessionsInit ==
    /\ challenges = [m \in Emails |-> Absent] /\ codes = 0
    /\ access = NoTokens /\ refresh = NoTokens /\ tokens = 0
    /\ signals = [s \in SessionIds |-> Absent] /\ changes = 0
    /\ streams = [w \in Windows |-> Absent]
    /\ views = [w \in Windows |-> NothingTold]
    /\ logins = <<>> /\ ended = {} /\ lagged = {} /\ untold = {}

With(f, x, y) == [z \in DOMAIN f \cup {x} |-> IF z = x THEN y ELSE f[z]]
Without(f, x) == [z \in DOMAIN f \ {x} |-> f[z]]

-----------------------------------------------------------------------------
(* Logging in and out.                                                     *)

StartLogin(m) ==
    /\ codes < MaxCodes
    /\ codes' = codes + 1
    /\ challenges' = [challenges EXCEPT ![m] = [code |-> codes', expired |-> FALSE]]
    /\ UNCHANGED <<access, refresh, tokens, logins, ended, signalVars, streamVars>>

CodeExpires(m) ==
    /\ challenges[m] # Absent /\ ~challenges[m].expired
    /\ challenges' = [challenges EXCEPT ![m].expired = TRUE]
    /\ UNCHANGED <<codes, access, refresh, tokens, logins, ended, signalVars, streamVars>>

\* verify_email_login finds the code expired, whatever code was typed.
VerifyExpired(m) ==
    /\ challenges[m] # Absent /\ challenges[m].expired
    /\ challenges' = [challenges EXCEPT ![m] = Absent]
    /\ UNCHANGED <<codes, access, refresh, tokens, logins, ended, signalVars, streamVars>>

MutantSpent(m) == challenges

\* A code is good for one login.
Spent(m) == [challenges EXCEPT ![m] = Absent]

\* Both tokens of a login get its number.
VerifyLogin(m, code) ==
    /\ tokens < MaxTokens
    /\ challenges[m] # Absent /\ ~challenges[m].expired /\ challenges[m].code = code
    /\ challenges' = Spent(m)
    /\ tokens' = tokens + 1
    /\ access' = With(access, tokens', m)
    /\ refresh' = With(refresh, tokens', m)
    /\ logins' = Append(logins, code)
    /\ UNCHANGED <<codes, ended, signalVars, streamVars>>

RefreshAccess(r) ==
    /\ tokens < MaxTokens
    /\ r \in DOMAIN refresh
    /\ tokens' = tokens + 1
    /\ access' = With(access, tokens', refresh[r])
    /\ UNCHANGED <<challenges, codes, refresh, logins, ended, signalVars, streamVars>>

\* The refresh token is the one of the request, if it names one.
Logout(t, r) ==
    /\ t \in DOMAIN access
    /\ access' = Without(access, t)
    /\ refresh' = Without(refresh, r)
    /\ ended' = ended \cup ({r} \ {Absent})
    /\ UNCHANGED <<challenges, codes, tokens, logins, signalVars, streamVars>>

-----------------------------------------------------------------------------
(* Events.                                                                 *)

\* A stream that has Channel events to send loses the oldest when another comes.
Queued(queue, event) ==
    IF Len(queue) < Channel THEN Append(queue, event) ELSE Append(Tail(queue), event)

Lagging == {w \in Windows : streams[w] # Absent /\ Len(streams[w].queue) = Channel}

\* publish_event puts an event before every stream, of whatever user.
Publish(event) ==
    /\ streams' = [w \in Windows |->
            IF streams[w] = Absent THEN Absent
            ELSE [streams[w] EXCEPT !.queue = Queued(@, event)]]
    /\ lagged' = lagged \cup Lagging
    /\ UNCHANGED views

\* authorize_or_default: a request without a token is the default user's.
Callers == DOMAIN access \cup {Absent}
Caller(t) == IF t = Absent THEN Default ELSE access[t]

\* events_ws
Subscribe(w, t) ==
    /\ streams[w] = Absent
    /\ streams' = [streams EXCEPT ![w] = [user |-> Caller(t), queue |-> <<>>]]
    /\ views' = [views EXCEPT ![w] = NothingTold]
    /\ lagged' = lagged \ {w}
    /\ UNCHANGED <<accountVars, signalVars>>

\* stream_events sends the next event of the user and skips those of others.
StreamEvent(w) ==
    /\ streams[w] # Absent /\ streams[w].queue # <<>>
    /\ LET event == Head(streams[w].queue)
       IN  views' = IF event.session.user # streams[w].user THEN views
                    ELSE [views EXCEPT ![w][event.id] = event.session]
    /\ streams' = [streams EXCEPT ![w].queue = Tail(@)]
    /\ UNCHANGED <<lagged, accountVars, signalVars>>

\* The socket is gone.
EventStreamEnds(w) ==
    /\ streams[w] # Absent
    /\ streams' = [streams EXCEPT ![w] = Absent]
    /\ UNCHANGED <<views, lagged, accountVars, signalVars>>

-----------------------------------------------------------------------------
(* Signal sessions.                                                        *)

Status(session, status) ==
    [session EXCEPT !.status = status, !.closed = @ \/ status = "closed"]

\* Highest priority first; among equals the one added first.  They are in that order before.
WithCandidate(candidates, p) ==
    InsertAt(candidates, Cardinality({i \in DOMAIN candidates : candidates[i] >= p}) + 1, p)

\* The session is changed in memory, saved and published; when the save fails the change
\* stays, and nobody is told.
Changed(s, session) ==
    /\ changes < MaxSignals /\ changes' = changes + 1
    /\ signals' = [signals EXCEPT ![s] = session]
    /\ \/ /\ Publish([id |-> s, session |-> session])
          /\ untold' = untold \ {s}
       \/ /\ untold' = untold \cup {s}
          /\ UNCHANGED streamVars

RequestConnect(s, t) ==
    /\ signals[s] = Absent
    /\ Changed(s, [user |-> Caller(t), status |-> "requested", closed |-> FALSE,
                   candidates |-> <<>>])
    /\ UNCHANGED accountVars

\* A session of the user, whatever its status.
Owned(s, t) == signals[s] # Absent /\ signals[s].user = Caller(t)

\* signal_connect_accept, signal_connect_reject, signal_session_close
SetStatus(s, t, status) ==
    /\ Owned(s, t)
    /\ Changed(s, Status(signals[s], status))
    /\ UNCHANGED accountVars

AddCandidate(s, t, p) ==
    /\ Owned(s, t)
    /\ Changed(s, [signals[s] EXCEPT !.candidates = WithCandidate(@, p)])
    /\ UNCHANGED accountVars

SessionsNext ==
    \/ \E m \in Emails :
        \/ StartLogin(m) \/ CodeExpires(m) \/ VerifyExpired(m)
        \/ \E code \in 1..codes : VerifyLogin(m, code)
    \/ \E r \in DOMAIN refresh : RefreshAccess(r)
    \/ \E t \in DOMAIN access, r \in DOMAIN refresh \cup {Absent} : Logout(t, r)
    \/ \E t \in Callers :
        \/ \E w \in Windows : Subscribe(w, t)
        \/ \E s \in SessionIds :
            \/ RequestConnect(s, t)
            \/ \E status \in {"accepted", "rejected", "closed"} : SetStatus(s, t, status)
            \/ \E p \in Priorities : AddCandidate(s, t, p)
    \/ \E w \in Windows : StreamEvent(w) \/ EventStreamEnds(w)

SessionsSpec == SessionsInit /\ [][SessionsNext]_sessionsVars

-----------------------------------------------------------------------------
(* Properties.                                                             *)

\* A code is good for one login, however often it is sent and however a new code, its
\* expiry and logins of the same user interleave; and no access comes from a refresh
\* token that was logged out.
LoginsAreEarned ==
    /\ \A i, j \in DOMAIN logins : logins[i] = logins[j] => i = j
    /\ \A m \in Emails : challenges[m] # Absent =>
            challenges[m].code \notin {logins[i] : i \in DOMAIN logins}
    /\ DOMAIN refresh \cap ended = {}

\* A window that has been sent all its events, and missed none, knows every session it
\* was told of as it is, but for those whose last change could not be saved.
WindowsAreCurrent ==
    \A w \in Windows :
        streams[w] # Absent /\ streams[w].queue = <<>> /\ w \notin lagged =>
            \A s \in SessionIds \ untold : views[w][s] # Absent => views[w][s] = signals[s]
=============================================================================
