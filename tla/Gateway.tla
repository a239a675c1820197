------------------------------ MODULE Gateway ------------------------------
(***************************************************************************)
(* The way of a request through the backend: the monitor, the rate limit   *)
(* and the error handler (main.py, middleware.py, monitoring.py), and the  *)
(* endpoints of /auth: register and login, which use the database, me,     *)
(* which needs a token as well, and refresh, which needs a token only      *)
(* (auth.py, deps.py), with the session of get_db() (database.py) and the  *)
(* connections of the pool.  A token stands for the answer it came with;   *)
(* signing and checking it is a library's, and it may expire at any time.  *)
(*                                                                         *)
(* Every await of the database is a place where other requests run.  A     *)
(* session takes a connection with its first statement, gives it back with *)
(* commit() and with close(), and takes one again for refresh().           *)
(***************************************************************************)
EXTENDS Naturals, FiniteSets

CONSTANTS
    Requests,     \* requests that may come in
    Form,         \* what each asks: [kind, client, name, mail, bearer]; name
                  \* is also the user a token was made for, bearer the request
                  \* whose answer had the token
    MaxRequests,  \* RateLimitMiddleware.max_requests
    Window,       \* its window_seconds
    PoolSize,     \* connections of the engine's pool
    MaxTime       \* bound of the clock

ASSUME GatewayAssumption ==
    /\ \A r \in Requests : /\ Form[r].kind \in {"register", "login", "me", "refresh"}
                          /\ Form[r].bearer \in Requests
    /\ MaxRequests \in Nat /\ Window \in Nat \ {0}
    /\ PoolSize \in Nat \ {0} /\ MaxTime \in Nat

VARIABLES
    now,       \* the clock
    stage,     \* where a request is
    code,      \* the status code of its answer, 0 while it has none
    arrival,   \* history: the time a request came in
    stamps,    \* _requests of the rate limit: a client's requests, each of
               \* which stands for the time it came in (the list they are
               \* kept in is searched and counted, its order is not used)
    inUse,     \* connections handed out by the pool
    rows,      \* committed users: the requests that created them
    total,     \* SystemMonitor._request_count
    errors     \* SystemMonitor._error_count

gatewayVars == <<now, stage, code, arrival, stamps, inUse, rows, total, errors>>

Clients == {Form[r].client : r \in Requests}
StageNames == {"away", "token", "lookup", "insert", "refresh", "close", "drop",
               "record", "done"}

GatewayTypeOK ==
    /\ now \in Nat /\ inUse \in Nat /\ total \in Nat /\ errors \in Nat
    /\ stage \in [Requests -> StageNames]
    /\ code \in [Requests -> {0, 200, 400, 401, 404, 429, 500}]
    /\ arrival \in [Requests -> Nat]
    /\ stamps \in [Clients -> SUBSET Requests]
    /\ rows \subseteq Requests

GatewayInit ==
    /\ now = 0 /\ inUse = 0 /\ total = 0 /\ errors = 0
    /\ stage = [r \in Requests |-> "away"]
    /\ code = [r \in Requests |-> 0]
    /\ arrival = [r \in Requests |-> 0]
    /\ stamps = [c \in Clients |-> {}]
    /\ rows = {}

\* The request goes on at s; with an answer, its code is c.
Goto(r, s) == stage' = [stage EXCEPT ![r] = s] /\ UNCHANGED code
Answer(r, c, s) ==
    /\ stage' = [stage EXCEPT ![r] = s]
    /\ code' = [code EXCEPT ![r] = c]

NameTaken(r) == \E u \in rows : Form[u].name = Form[r].name
MailTaken(r) == \E u \in rows : Form[u].mail = Form[r].mail

-----------------------------------------------------------------------------
(* Middleware                                                              *)

\* Mutant: a stamp counts up to and including the end of its window.
Recent_Mutation(c) == {r \in stamps[c] : arrival[r] + Window >= now}

\* The stamps that still count: those after the start of the window.
Recent(c) == {r \in stamps[c] : arrival[r] + Window > now}

\* RateLimitMiddleware.dispatch(), in one step: a request that is refused
\* leaves no stamp, one that is served does.
Arrive(r) ==
    LET c == Form[r].client
        recent == Recent(c)
    IN  /\ stage[r] = "away"
        /\ arrival' = [arrival EXCEPT ![r] = now]
        /\ \/ /\ Cardinality(recent) >= MaxRequests
              /\ stamps' = [stamps EXCEPT ![c] = recent]
              /\ Answer(r, 429, "record")
           \/ /\ Cardinality(recent) < MaxRequests
              /\ stamps' = [stamps EXCEPT ![c] = recent \cup {r}]
              /\ Goto(r, IF Form[r].kind \in {"me", "refresh"} THEN "token" ELSE "lookup")
        /\ UNCHANGED <<now, inUse, rows, total, errors>>

\* monitor_middleware: every answer passes it, for the error handler turned
\* exceptions into answers further in.
Record(r) ==
    /\ stage[r] = "record"
    /\ Goto(r, "done")
    /\ total' = total + 1
    /\ errors' = errors + IF code[r] >= 500 THEN 1 ELSE 0
    /\ UNCHANGED <<now, arrival, stamps, inUse, rows>>

-----------------------------------------------------------------------------
(* Endpoints                                                               *)

\* register() refuses a name it finds.
RegisterFinds(r) ==
    /\ Form[r].kind = "register"
    /\ \/ NameTaken(r) /\ Answer(r, 400, "close")
       \/ ~NameTaken(r) /\ Goto(r, "insert")

\* login() refuses a name it does not find, or a wrong password.
LoginFinds(r) ==
    /\ Form[r].kind = "login"
    /\ \/ NameTaken(r) /\ Answer(r, 200, "close")
       \/ Answer(r, 401, "close")

\* verify_token() accepts what a login, or a refresh, has answered its client.
TokenValid(r) ==
    LET b == Form[r].bearer
    IN  /\ Form[b].kind \in {"login", "refresh"} /\ Form[b].name = Form[r].name
        /\ stage[b] = "done" /\ code[b] = 200

\* refresh() answers a valid refresh token with new tokens, without the database.
RefreshTokens(r) ==
    /\ Form[r].kind = "refresh"
    /\ \/ TokenValid(r) /\ Answer(r, 200, "record")
       \/ Answer(r, 401, "record")

\* get_current_user() runs inside the session of get_me(), before its SELECT.
CurrentUser(r) ==
    /\ Form[r].kind = "me"
    /\ \/ TokenValid(r) /\ Goto(r, "lookup")
       \/ Answer(r, 401, "drop")

CheckToken(r) ==
    /\ stage[r] = "token"
    /\ RefreshTokens(r) \/ CurrentUser(r)
    /\ UNCHANGED <<now, arrival, stamps, inUse, rows, total, errors>>

\* get_me() looks for the user of the token.
MeFinds(r) ==
    /\ Form[r].kind = "me"
    /\ Answer(r, IF NameTaken(r) THEN 200 ELSE 404, "close")

\* The first SELECT takes a connection.
Lookup(r) ==
    /\ stage[r] = "lookup"
    /\ inUse < PoolSize
    /\ inUse' = inUse + 1
    /\ RegisterFinds(r) \/ LoginFinds(r) \/ MeFinds(r)
    /\ UNCHANGED <<now, arrival, stamps, rows, total, errors>>

\* Mutant: the columns of the table are not unique; only the SELECT looks.
Insert_Mutation(r) ==
    /\ stage[r] = "insert"
    /\ rows' = rows \cup {r}
    /\ inUse' = inUse - 1
    /\ Goto(r, "refresh")
    /\ UNCHANGED <<now, arrival, stamps, total, errors>>

\* commit() of the new user.  The unique columns of the table refuse a name
\* that another request has inserted meanwhile, and a known mail address:
\* the exception becomes a 500, after get_db() has rolled back.
Insert(r) ==
    /\ stage[r] = "insert"
    /\ \/ /\ ~NameTaken(r) /\ ~MailTaken(r)
          /\ rows' = rows \cup {r}
          /\ inUse' = inUse - 1
          /\ Goto(r, "refresh")
       \/ /\ NameTaken(r) \/ MailTaken(r)
          /\ Answer(r, 500, "close")
          /\ UNCHANGED <<inUse, rows>>
    /\ UNCHANGED <<now, arrival, stamps, total, errors>>

\* refresh() reads the row back, over a connection it has to wait for.
Refresh(r) ==
    /\ stage[r] = "refresh"
    /\ inUse < PoolSize
    /\ inUse' = inUse + 1
    /\ Answer(r, 200, "close")
    /\ UNCHANGED <<now, arrival, stamps, rows, total, errors>>

\* The database fails a statement, or the pool has no connection in time: the
\* session is rolled back, which does not take a committed row away.
DatabaseFails(r) ==
    /\ \/ stage[r] = "insert" /\ Answer(r, 500, "close")
       \/ stage[r] \in {"lookup", "refresh"} /\ Answer(r, 500, "drop")
    /\ UNCHANGED <<now, arrival, stamps, inUse, rows, total, errors>>

\* Mutant: get_db() has no finally, and the connection stays out.
Close_Mutation(r) ==
    /\ stage[r] \in {"close", "drop"}
    /\ Goto(r, "record")
    /\ UNCHANGED <<now, arrival, stamps, inUse, rows, total, errors>>

\* session.close() in the finally of get_db(), with or without a connection.
Close(r) ==
    /\ \/ stage[r] = "close" /\ inUse' = inUse - 1
       \/ stage[r] = "drop" /\ UNCHANGED inUse
    /\ Goto(r, "record")
    /\ UNCHANGED <<now, arrival, stamps, rows, total, errors>>

Tick ==
    /\ now < MaxTime
    /\ now' = now + 1
    /\ UNCHANGED <<stage, code, arrival, stamps, inUse, rows, total, errors>>

Serve(r) == CheckToken(r) \/ Lookup(r) \/ Insert(r) \/ Refresh(r) \/ Close(r) \/ Record(r)

GatewayNext ==
    \/ \E r \in Requests : Arrive(r) \/ Serve(r) \/ DatabaseFails(r)
    \/ Tick

GatewaySpec ==
    /\ GatewayInit
    /\ [][GatewayNext]_gatewayVars
    /\ \A r \in Requests : WF_gatewayVars(Serve(r))

-----------------------------------------------------------------------------
(* Properties                                                              *)

\* The requests of a client that were served in the window that ends with t.
Served(c, t) ==
    {r \in Requests : /\ stage[r] # "away" /\ code[r] # 429
                      /\ Form[r].client = c
                      /\ arrival[r] <= t /\ t < arrival[r] + Window}

\* The rate limit is exact on both sides: of one client's requests, no window
\* of Window seconds has more than MaxRequests that were served, wherever the
\* window begins, and a request is refused only when that many were served in
\* the window that ends with it.
RateIsExact ==
    /\ \A c \in Clients : \A t \in 0..now : Cardinality(Served(c, t)) <= MaxRequests
    /\ \A r \in Requests : code[r] = 429 =>
          Cardinality(Served(Form[r].client, arrival[r])) = MaxRequests

\* Registrations that race with each other and with failures of the database:
\* names and mail addresses stay unique, an account that was confirmed exists,
\* "Username already exists" is said of one that does, and a request the
\* rate limit refused created nothing.  Whoever is let in by a password or a
\* token, or by tokens made from tokens, has an account, so "User not found" is
\* never said.
RegisterIsSound ==
    /\ \A u, v \in rows : u # v => /\ Form[u].name # Form[v].name
                                   /\ Form[u].mail # Form[v].mail
    /\ \A r \in Requests : Form[r].kind = "register" =>
          /\ code[r] = 200 => r \in rows
          /\ code[r] = 400 => r \notin rows /\ NameTaken(r)
          /\ code[r] = 429 => r \notin rows
    /\ \A r \in Requests : Form[r].kind # "register" =>
          /\ code[r] = 200 => NameTaken(r)
          /\ code[r] # 404

\* Every request that comes in is answered and counted in the end, without the
\* help of the pool's timeout: no path through an endpoint keeps its
\* connection.  (Each request comes in once, so "in the end" is for good.)
EveryRequestAnswered ==
    <>[](\A r \in Requests : stage[r] \in {"away", "done"})

=============================================================================
