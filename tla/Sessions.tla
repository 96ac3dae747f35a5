------------------------------ MODULE Sessions ------------------------------
(***************************************************************************)
(* The GUI session cap: the table of server/sessions.py, the middleware    *)
(* session_cap of server/app.py, and browsers that send requests in        *)
(* parallel, lose answers and are closed.  Time passes in ticks; of a       *)
(* point in time only its age matters, up to one tick past the limit.      *)
(***************************************************************************)
EXTENDS Naturals, FiniteSets

CONSTANTS
  Browsers,
  Ids,           \* session ids, as token_urlsafe draws them
  MaxSessions,   \* config.server.max_gui_sessions
  Ttl,           \* config.server.gui_session_ttl_minutes, in ticks
  NoCookie

ASSUME SessionsAssumption ==
  /\ MaxSessions \in Nat \ {0} /\ Ttl \in Nat \ {0}
  /\ IsFiniteSet(Ids) /\ NoCookie \notin Ids

VARIABLES
  table,    \* the ids in _last_seen
  age,      \* the age of each entry of _last_seen
  cookie,   \* the qc_session cookie of each browser
  answers,  \* <<browser, id>>: answers on their way, or pages still being rendered
  last      \* history: ticks since the service last admitted each id

sessionVars == <<table, age, cookie, answers, last>>

Ages == 0..(Ttl + 1)
Older(n) == IF n = Ttl + 1 THEN n ELSE n + 1

(* What the process knows of sessions when it starts: nothing. *)
ForgetSessions ==
  /\ table' = {} /\ age' = [i \in Ids |-> Ttl + 1]
  /\ answers' = {} /\ last' = [i \in Ids |-> Ttl + 1]

SessionsInit ==
  /\ table = {} /\ age = [i \in Ids |-> Ttl + 1]
  /\ cookie = [b \in Browsers |-> NoCookie]
  /\ answers = {} /\ last = [i \in Ids |-> Ttl + 1]

FaultyExpired == {i \in table : age[i] >= Ttl}
(* _expire deletes what was seen before the cutoff, not at it. *)
Expired == {i \in table : age[i] > Ttl}
Live == table \ Expired

(* touch finds the id of the cookie in the table. *)
Known(b) == cookie[b] \in Live
FaultyHasRoom == Cardinality(table) < MaxSessions
HasRoom == Cardinality(Live) < MaxSessions

(* The id a browser is admitted under: its own, also one of an earlier     *)
(* process or one that had expired, else a new random one.                 *)
IdFor(b, i) ==
  IF cookie[b] # NoCookie THEN i = cookie[b]
  ELSE /\ i \notin table /\ last[i] > Ttl
       /\ \A a \in Browsers : cookie[a] # i /\ <<a, i>> \notin answers

(* A page is asked for (API and static paths are exempt) and touch admits  *)
(* the session; the page is rendered, which may raise, and only then the   *)
(* cookie is set.                                                          *)
Admit(b, i) ==
  /\ Known(b) \/ HasRoom
  /\ IdFor(b, i)
  /\ table' = Live \cup {i}
  /\ age' = [age EXCEPT ![i] = 0]
  /\ last' = [last EXCEPT ![i] = 0]
  /\ answers' = answers \cup {<<b, i>>}
  /\ UNCHANGED cookie

(* E12: 503, no cookie, and no session takes notice of it. *)
Refuse(b) ==
  /\ ~ Known(b) /\ ~ HasRoom
  /\ table' = Live
  /\ UNCHANGED <<age, cookie, answers, last>>

Answer(b, i) ==
  /\ <<b, i>> \in answers
  /\ cookie' = [cookie EXCEPT ![b] = i]
  /\ answers' = answers \ {<<b, i>>}
  /\ UNCHANGED <<table, age, last>>

(* The handler raised (500, without a cookie), or the answer got lost. *)
LoseAnswer(b, i) ==
  /\ <<b, i>> \in answers
  /\ answers' = answers \ {<<b, i>>}
  /\ UNCHANGED <<table, age, cookie, last>>

(* The cookie has no expiry date: it ends with the browser. *)
CloseBrowser(b) ==
  /\ cookie[b] # NoCookie
  /\ cookie' = [cookie EXCEPT ![b] = NoCookie]
  /\ answers' = {a \in answers : a[1] # b}
  /\ UNCHANGED <<table, age, last>>

(* The health endpoint asks active_count. *)
CountActive == table' = Live /\ UNCHANGED <<age, cookie, answers, last>>

Tick ==
  /\ age' = [i \in Ids |-> Older(age[i])]
  /\ last' = [i \in Ids |-> Older(last[i])]
  /\ UNCHANGED <<table, cookie, answers>>

Browse(b) ==
  \/ \E i \in Ids : Admit(b, i) \/ Answer(b, i) \/ LoseAnswer(b, i)
  \/ Refuse(b) \/ CloseBrowser(b)

SessionsNext == (\E b \in Browsers : Browse(b)) \/ CountActive \/ Tick

(* On its own: a service whose process may be restarted at any time. *)
RestartSessions == ForgetSessions /\ UNCHANGED cookie
SessionsSpec == SessionsInit /\ [][SessionsNext \/ RestartSessions]_sessionVars

-----------------------------------------------------------------------------
SessionsType ==
  /\ table \subseteq Ids
  /\ age \in [Ids -> Ages] /\ last \in [Ids -> Ages]
  /\ cookie \in [Browsers -> Ids \cup {NoCookie}]
  /\ answers \subseteq Browsers \X Ids

(* The sessions that count: admitted within the idle limit. *)
Recent == {i \in Ids : last[i] <= Ttl}

(* The table loses no session before its time and invents no age. *)
TableInv ==
  /\ Recent \subseteq table
  /\ \A i \in table : age[i] = last[i]
  /\ Cardinality(table) <= MaxSessions

(* Never are more sessions active than the cap allows (sessions.py:46),    *)
(* whatever is asked in parallel, lost or restarted; and the table that     *)
(* decides it agrees with what was in fact admitted.                       *)
CapHolds == SessionsType /\ TableInv /\ Cardinality(Recent) <= MaxSessions

(* A browser is refused only while the cap is used up by sessions that were *)
(* admitted within the idle limit, and its own cookie is not one of them:  *)
(* an operator at work is never evicted for a newcomer (sessions.py:38),    *)
(* and one who left gives the slot back.                                   *)
RefusedOnlyWhenFull ==
  [][\A b \in Browsers :
       Refuse(b) => Cardinality(Recent) = MaxSessions /\ cookie[b] \notin Recent]_sessionVars
=============================================================================
